---------------------------- MODULE UtilitiesProofs ----------------------------
(***************************************************************************)
(* Proofs about the small libraries: the time cache, the single instance,  *)
(* the command line, the file extensions, the redis subscriptions and the  *)
(* sorts.                                                                  *)
(***************************************************************************)
EXTENDS SingleInstance, FileExt, OptEntry, LocalTime, Redis, Csort, FirstOrderInduction, FiniteSetTheorems,
        SequenceTheorems, WellFoundedInduction, TLAPS

-----------------------------------------------------------------------------
(* get_localtime *)

ReaderPlaces == {"idle", "now1", "now2", "keep1", "keep2", "unlock", "last1", "last2", "return"}
UpdaterPlaces == {"none", "gone", "try", "store1", "store2", "unlock"}

LtTypes == LocalTimeTypeOK /\ at \in [Readers \cup {Updater} -> ReaderPlaces \cup UpdaterPlaces]

\* Strengthening of WholeUnderLock: which copies are complete, and of what, at each
\* place between trylock and unlock.
CopyInv ==
  /\ at[Updater] # "store2" => tmNow[1] = tmNow[2]
  /\ (\A r \in Readers : at[r] # "keep2") => tmLast[1] = tmLast[2]
  /\ \A r \in Readers :
       /\ at[r] = "now2" => tmIn[r][1] = tmNow[1]
       /\ at[r] \in {"keep1", "keep2", "unlock"} => tmIn[r][1] = tmNow[1] /\ tmIn[r][2] = tmNow[2]
       /\ at[r] \in {"keep2", "unlock"} => tmLast[1] = tmNow[1]
       /\ at[r] = "unlock" => tmLast[2] = tmNow[2]
       /\ locked[r] => seen[r][1] = seen[r][2]

\* Strengthening of NoOlderReading: what was returned is no newer than
\* iridium_tm_last, which is no newer than iridium_tm_now; and the copy under way
\* lies in between.
AgeInv ==
  /\ tmNow[2] <= tmNow[1] /\ tmNow[1] <= moment
  /\ tmLast[1] <= tmNow[1] /\ tmLast[2] <= tmNow[2]
  /\ \A r \in Readers, h \in Halves : seen[r][h] <= tmLast[h]
  /\ \A r \in Readers :
       /\ at[r] \in {"last2", "return"} => seen[r][1] <= tmIn[r][1] /\ tmIn[r][1] <= tmLast[1]
       /\ at[r] = "return" => seen[r][2] <= tmIn[r][2] /\ tmIn[r][2] <= tmLast[2]

LtInv == LtTypes /\ CopyInv /\ AgeInv

LEMMA UpdaterKeepsTime ==
  ASSUME LtInv, CreateThread \/ UpdaterStep
  PROVE  LtInv' /\ UNCHANGED seen
<1> USE LocalTimeAssumption
    DEF LtInv, LtTypes, LocalTimeTypeOK, ReaderPlaces, UpdaterPlaces, Moves, Halves
<1>1. CASE CreateThread
  <2>1. LtTypes'
    BY <1>1 DEF CreateThread
  <2>2. CopyInv' /\ AgeInv'
    BY <1>1 DEF CreateThread, CopyInv, AgeInv
  <2> QED BY <1>1, <2>1, <2>2 DEF CreateThread
<1>2. CASE UpdaterTries
  <2>1. LtTypes'
    BY <1>2 DEF UpdaterTries, LockIsFree
  <2>2. CopyInv' /\ AgeInv'
    BY <1>2 DEF UpdaterTries, CopyInv, AgeInv
  <2> QED BY <1>2, <2>1, <2>2 DEF UpdaterTries
<1>3. CASE UpdaterStores1
  <2>1. LtTypes'
    BY <1>3 DEF UpdaterStores1
  <2>2. CopyInv' /\ AgeInv'
    BY <1>3 DEF UpdaterStores1, CopyInv, AgeInv
  <2> QED BY <1>3, <2>1, <2>2 DEF UpdaterStores1
<1>4. CASE UpdaterStores2
  <2>1. LtTypes'
    BY <1>4 DEF UpdaterStores2
  <2>2. CopyInv' /\ AgeInv'
    BY <1>4 DEF UpdaterStores2, CopyInv, AgeInv
  <2> QED BY <1>4, <2>1, <2>2 DEF UpdaterStores2
<1>5. CASE UpdaterUnlocks
  <2>1. LtTypes'
    BY <1>5 DEF UpdaterUnlocks, NextTurn
  <2>2. CopyInv' /\ AgeInv'
    BY <1>5 DEF UpdaterUnlocks, NextTurn, CopyInv, AgeInv
  <2> QED BY <1>5, <2>1, <2>2 DEF UpdaterUnlocks
<1> QED BY <1>1, <1>2, <1>3, <1>4, <1>5 DEF UpdaterStep

\* seen is written by the two ways out of get_localtime() only.
SeenGrows == \A r \in Readers : \A h \in Halves : seen'[r][h] >= seen[r][h]

LEMMA ReaderKeepsTime ==
  ASSUME LtInv, NEW r \in Readers, ReaderTries(r) \/ ReaderStep(r)
  PROVE  LtInv' /\ SeenGrows
<1> USE LocalTimeAssumption
    DEF LtInv, LtTypes, LocalTimeTypeOK, ReaderPlaces, UpdaterPlaces, Moves, Halves
<1>0. UNCHANGED seen => SeenGrows
  BY DEF SeenGrows
<1>1. CASE ReaderTries(r)
  <2>1. LtTypes'
    <3>1. tmIn' \in [Readers -> [Halves -> 0 .. MaxMoment]] /\ reads' \in [Readers -> 0 .. MaxReads]
      <4>1. Whole(0) \in [Halves -> 0 .. MaxMoment]
        BY DEF Whole
      <4>2. reads[r] + 1 \in 0 .. MaxReads
        BY <1>1 DEF ReaderTries
      <4> HIDE DEF Halves
      <4> QED BY <1>1, <4>1, <4>2 DEF ReaderTries
    <3>2. at[r] = "idle" /\ \/ LockIsFree /\ tmLock' = r /\ Moves(r, "now1")
                            \/ ~ LockIsFree /\ Moves(r, "last1") /\ UNCHANGED tmLock
      BY <1>1 DEF ReaderTries
    <3>3. \A x \in Readers \cup {Updater} :
            tmLock' = x <=> at'[x] \in {"store1", "store2", "now1", "now2", "keep1", "keep2", "unlock"}
      BY <3>2 DEF LockIsFree
    <3> QED BY <1>1, <3>1, <3>2, <3>3 DEF ReaderTries
  <2>2. CopyInv'
    BY <1>1 DEF ReaderTries, LockIsFree, CopyInv, Whole
  <2>3. AgeInv'
    BY <1>1 DEF ReaderTries, AgeInv, Whole
  <2> QED BY <1>0, <1>1, <2>1, <2>2, <2>3 DEF ReaderTries
<1>2. CASE CopyNow(r)
  <2>1. LtTypes'
    <3>1. tmIn' \in [Readers -> [Halves -> 0 .. MaxMoment]]
      <4>1. PICK h \in Halves : tmIn' = [tmIn EXCEPT ![r] = [tmIn[r] EXCEPT ![h] = tmNow[h]]]
        BY <1>2 DEF CopyNow, Copies
      <4>2. tmNow[h] \in 0 .. MaxMoment
        OBVIOUS
      <4> HIDE DEF Halves
      <4> QED BY <4>1, <4>2
    <3> QED BY <1>2, <3>1 DEF CopyNow, Copies
  <2>2. CopyInv'
    BY <1>2 DEF CopyNow, Copies, CopyInv
  <2>3. AgeInv'
    BY <1>2 DEF CopyNow, Copies, AgeInv
  <2> QED BY <1>0, <1>2, <2>1, <2>2, <2>3 DEF CopyNow, Copies
<1>3. CASE KeepLast(r)
  <2>1. LtTypes'
    BY <1>3 DEF KeepLast, Kept
  <2>2. CopyInv'
    BY <1>3 DEF KeepLast, Kept, CopyInv
  <2>3. AgeInv'
    BY <1>3 DEF KeepLast, Kept, AgeInv
  <2> QED BY <1>0, <1>3, <2>1, <2>2, <2>3 DEF KeepLast
<1>4. CASE ReaderUnlocks(r)
  <2>1. LtTypes'
    BY <1>4 DEF ReaderUnlocks
  <2>2. CopyInv'
    BY <1>4 DEF ReaderUnlocks, CopyInv
  <2>3. AgeInv' /\ SeenGrows
    BY <1>4 DEF ReaderUnlocks, CopyInv, AgeInv, SeenGrows
  <2> QED BY <2>1, <2>2, <2>3
<1>5. CASE CopyLast(r)
  <2>1. LtTypes'
    <3>1. tmIn' \in [Readers -> [Halves -> 0 .. MaxMoment]]
      <4>1. PICK h \in Halves : tmIn' = [tmIn EXCEPT ![r] = [tmIn[r] EXCEPT ![h] = tmLast[h]]]
        BY <1>5 DEF CopyLast, Copies
      <4>2. tmLast[h] \in 0 .. MaxMoment
        OBVIOUS
      <4> HIDE DEF Halves
      <4> QED BY <4>1, <4>2
    <3> QED BY <1>5, <3>1 DEF CopyLast, Copies
  <2>2. CopyInv'
    BY <1>5 DEF CopyLast, Copies, CopyInv
  <2>3. AgeInv'
    BY <1>5 DEF CopyLast, Copies, AgeInv
  <2> QED BY <1>0, <1>5, <2>1, <2>2, <2>3 DEF CopyLast, Copies
<1>6. CASE ReturnsLast(r)
  <2>1. LtTypes'
    BY <1>6 DEF ReturnsLast
  <2>2. CopyInv'
    BY <1>6 DEF ReturnsLast, CopyInv
  <2>3. AgeInv' /\ SeenGrows
    BY <1>6 DEF ReturnsLast, AgeInv, SeenGrows
  <2> QED BY <2>1, <2>2, <2>3
<1> QED BY <1>1, <1>2, <1>3, <1>4, <1>5, <1>6 DEF ReaderStep

LEMMA TimeStep == LtInv /\ [LocalTimeNext]_ltVars => LtInv' /\ SeenGrows
<1> SUFFICES ASSUME LtInv, [LocalTimeNext]_ltVars PROVE LtInv' /\ SeenGrows
  OBVIOUS
<1>0. UNCHANGED seen => SeenGrows
  BY DEF LtInv, LtTypes, LocalTimeTypeOK, SeenGrows, Halves
<1>1. CASE TimePasses
  <2>1. LtInv'
    BY <1>1, LocalTimeAssumption
    DEF TimePasses, LtInv, LtTypes, LocalTimeTypeOK, CopyInv, AgeInv, Halves
  <2> QED BY <1>0, <1>1, <2>1 DEF TimePasses
<1>2. CASE UNCHANGED ltVars
  BY <1>0, <1>2 DEF ltVars, LtInv, LtTypes, LocalTimeTypeOK, CopyInv, AgeInv
<1> QED BY <1>0, <1>1, <1>2, UpdaterKeepsTime, ReaderKeepsTime DEF LocalTimeNext

LEMMA TimeInvariant == LocalTimeSpec => []LtInv
<1>1. LocalTimeInit => LtInv
  BY LocalTimeAssumption
  DEF LocalTimeInit, LtInv, LtTypes, LocalTimeTypeOK, CopyInv, AgeInv, Whole, Halves,
      ReaderPlaces, UpdaterPlaces
<1> QED BY <1>1, TimeStep, PTL DEF LocalTimeSpec

\* get_localtime() under the lock returns one second in one piece, and leaves
\* iridium_tm_last whole, with any number of threads and calls.
THEOREM TimeIsWhole == LocalTimeSpec => []LocalTimeInv
<1>1. LtInv => LocalTimeInv
  BY LocalTimeAssumption
  DEF LtInv, LtTypes, LocalTimeTypeOK, CopyInv, LocalTimeInv, WholeUnderLock
<1> QED BY <1>1, TimeInvariant, PTL

\* No thread gets a field that is older than in its previous call, whether the call has
\* the lock or copies iridium_tm_last while another thread writes it.
THEOREM NobodySeesTimeGoBack == LocalTimeSpec => NoOlderReading
<1>1. LtInv /\ [LocalTimeNext]_ltVars
        => [\A r \in Readers : \A h \in Halves : seen'[r][h] >= seen[r][h]]_ltVars
  BY TimeStep DEF SeenGrows
<1> QED BY <1>1, TimeInvariant, PTL DEF LocalTimeSpec, NoOlderReading

-----------------------------------------------------------------------------
(* single_instance and daemon *)

\* Strengthening of SingleInstanceInv: a process at fcntl() has the file open, and
\* in a program that becomes a daemon first a process keeps the lock from there on.
SiInv ==
  /\ SingleInstanceTypeOK
  /\ order = "none" => \A p \in Pids : proc[p] = "unused"
  /\ \A p \in Pids : proc[p] = "lock" => p \in holds
  /\ order = "daemon_first" =>
       \A p \in Pids : /\ proc[p] \in {"truncate", "writepid", "ready"} => owner = p
                       /\ proc[p] = "ready" => content = p \/ p \in unwritten

LEMMA EndsKeepsInstance ==
  ASSUME SiInv, NEW p \in Pids, Ends(p), proc[p] # "unused"
  PROVE  SiInv'
<1>1. SingleInstanceTypeOK'
  BY SingleInstanceAssumption DEF SiInv, SingleInstanceTypeOK, Ends, Released, Places
<1> QED BY <1>1, SingleInstanceAssumption DEF SiInv, SingleInstanceTypeOK, Ends, Released

LEMMA ForkKeepsInstance ==
  ASSUME SiInv, NEW p \in Pids, proc[p] \in {"fork", "setsid"},
         NEW place \in {"setsid", "closing"}, Fork(p, place)
  PROVE  SiInv'
<1>1. ASSUME NEW q \in Pids, Free(q), proc' = [proc EXCEPT ![p] = "parent", ![q] = place],
             holds' = IF p \in holds THEN holds \cup {q} ELSE holds,
             UNCHANGED <<order, owner, content, starts, unwritten>>
      PROVE  SiInv'
  <2>1. \A x \in Pids : proc'[x] = IF x = q THEN place ELSE IF x = p THEN "parent" ELSE proc[x]
    BY <1>1 DEF SiInv, SingleInstanceTypeOK
  <2>2. SingleInstanceTypeOK'
    BY <1>1, <2>1 DEF SiInv, SingleInstanceTypeOK, Places
  <2> QED BY <1>1, <2>1, <2>2 DEF SiInv, SingleInstanceTypeOK
<1>2. CASE /\ proc' = [proc EXCEPT ![p] = AfterDaemonize]
           /\ UNCHANGED <<order, holds, owner, content, starts, unwritten>>
  <2>1. SingleInstanceTypeOK'
    BY <1>2 DEF SiInv, SingleInstanceTypeOK, Places, AfterDaemonize
  <2> QED BY <1>2, <2>1 DEF SiInv, SingleInstanceTypeOK, AfterDaemonize
<1> QED BY <1>1, <1>2 DEF Fork

LEMMA InstanceStep == SiInv /\ [SingleInstanceNext]_siVars => SiInv'
<1> SUFFICES ASSUME SiInv, [SingleInstanceNext]_siVars PROVE SiInv'
  OBVIOUS
<1> USE SingleInstanceAssumption
<1>1. CASE Build
  BY <1>1 DEF Build, SiInv, SingleInstanceTypeOK
<1>2. ASSUME NEW p \in Pids, Start(p) PROVE SiInv'
  <2>1. SingleInstanceTypeOK'
    BY <1>2 DEF Start, FirstCall, SiInv, SingleInstanceTypeOK, Places
  <2> QED BY <1>2, <2>1 DEF Start, FirstCall, SiInv, SingleInstanceTypeOK
<1>3. ASSUME NEW p \in Pids, OpenLockFile(p) PROVE SiInv'
  <2>1. CASE proc' = [proc EXCEPT ![p] = "lock"] /\ holds' = holds \cup {p}
             /\ UNCHANGED <<order, owner, content, starts, unwritten>>
    <3>1. SingleInstanceTypeOK'
      BY <2>1 DEF SiInv, SingleInstanceTypeOK, Places
    <3> QED BY <1>3, <2>1, <3>1 DEF OpenLockFile, SiInv, SingleInstanceTypeOK
  <2> QED BY <1>3, <2>1, EndsKeepsInstance DEF OpenLockFile
<1>4. ASSUME NEW p \in Pids, LockReg(p) PROVE SiInv'
  <2>1. CASE /\ Granted(p) /\ owner' = p /\ proc' = [proc EXCEPT ![p] = "truncate"]
             /\ UNCHANGED <<order, holds, content, starts, unwritten>>
    <3>1. SingleInstanceTypeOK'
      BY <1>4, <2>1 DEF LockReg, SiInv, SingleInstanceTypeOK, Places
    <3> QED BY <1>4, <2>1, <3>1 DEF LockReg, Granted, SiInv, SingleInstanceTypeOK
  <2> QED BY <1>4, <2>1, EndsKeepsInstance DEF LockReg
<1>5. ASSUME NEW p \in Pids, Truncate(p) PROVE SiInv'
  <2>1. SingleInstanceTypeOK'
    BY <1>5 DEF Truncate, SiInv, SingleInstanceTypeOK, Places
  <2> QED BY <1>5, <2>1 DEF Truncate, SiInv, SingleInstanceTypeOK
<1>6. ASSUME NEW p \in Pids, WritePid(p) PROVE SiInv'
  <2>1. SingleInstanceTypeOK'
    BY <1>6 DEF WritePid, AfterLock, SiInv, SingleInstanceTypeOK, Places
  <2> QED BY <1>6, <2>1 DEF WritePid, AfterLock, SiInv, SingleInstanceTypeOK
<1>7. ASSUME NEW p \in Pids, FirstFork(p) \/ SecondFork(p) PROVE SiInv'
  BY <1>7, ForkKeepsInstance DEF FirstFork, SecondFork
<1>8. ASSUME NEW p \in Pids, ParentExits(p) \/ Dies(p) PROVE SiInv'
  BY <1>8, EndsKeepsInstance DEF ParentExits, Dies
<1>9. ASSUME NEW p \in Pids, CloseAll(p) PROVE SiInv'
  <2>1. CASE /\ holds' = holds \ {p} /\ owner' = Released(p)
             /\ proc' = [proc EXCEPT ![p] = AfterDaemonize]
             /\ UNCHANGED <<order, content, starts, unwritten>>
    <3>1. SingleInstanceTypeOK'
      BY <2>1 DEF AfterDaemonize, Released, SiInv, SingleInstanceTypeOK, Places
    <3> QED BY <1>9, <2>1, <3>1 DEF CloseAll, AfterDaemonize, Released, SiInv, SingleInstanceTypeOK
  <2> QED BY <1>9, <2>1, EndsKeepsInstance DEF CloseAll
<1>10. CASE UNCHANGED siVars
  BY <1>10 DEF siVars, SiInv, SingleInstanceTypeOK
<1> QED
  BY <1>1, <1>2, <1>3, <1>4, <1>5, <1>6, <1>7, <1>8, <1>9, <1>10 DEF SingleInstanceNext

\* A program that becomes a daemon and then takes the lock of its pid file runs once,
\* and the file has the number of that process unless its write() failed, however many
\* are started, killed or left by a failed fork().
THEOREM OneProcessRuns == SingleInstanceSpec => []SingleInstanceInv
<1>1. SingleInstanceInit => SiInv
  BY SingleInstanceAssumption DEF SingleInstanceInit, SiInv, SingleInstanceTypeOK, Places
<1>2. SiInv => SingleInstanceInv
  BY DEF SiInv, SingleInstanceInv, OneInstance
<1> QED BY <1>1, <1>2, InstanceStep, PTL DEF SingleInstanceSpec

-----------------------------------------------------------------------------
(* opt_entry *)

\* Strengthening of OptEntryInv: is_only_filter_lib says whether the filter is used,
\* the times are not negative, and what is accepted has passed its checks.
OeInv ==
  /\ OptEntryTypeOK
  /\ opts.start_timestamp >= 0
  /\ parsing # "called" => (onlyFilter <=> UsesFilter) \/ optRet = -1
  /\ parsing = "called" => ~ onlyFilter
  /\ parsing # "returned" => optRet = 0
  /\ parsing = "returned" /\ optRet = 0 => Verdict

LEMMA UShortValues == 0 \in UShort /\ \A a \in Int : a % 65536 \in UShort /\ a % 65536 \in Int
  BY DEF UShort

\* The tables of the options: what they are defined on, and which field is whose.
LEMMA StringOptions ==
  /\ DOMAIN Strings = {"r", "t", "p", "f", "k", "ip", "sip", "dip", "mac", "smac", "dmac",
                       "protocol", "domain", "application"}
  /\ \A o \in DOMAIN Strings :
       /\ Strings[o] \notin {"start_timestamp", "is_from_pcap", "is_only_check",
                             "port", "sport", "dport"}
       /\ Strings[o] = "download_file_name" <=> o = "f"
<1>1. DOMAIN Strings = {"r", "t", "p", "f", "k", "ip", "sip", "dip", "mac", "smac", "dmac",
                        "protocol", "domain", "application"}
  BY DEF Strings
<1>2. /\ Strings["r"] = "pcap_file_name" /\ Strings["t"] = "d_table_tag"
      /\ Strings["p"] = "conf_file" /\ Strings["f"] = "download_file_name"
      /\ Strings["k"] = "key_name" /\ Strings["ip"] = "ip" /\ Strings["sip"] = "sip"
      /\ Strings["dip"] = "dip" /\ Strings["mac"] = "mac" /\ Strings["smac"] = "smac"
      /\ Strings["dmac"] = "dmac" /\ Strings["protocol"] = "protocol"
      /\ Strings["domain"] = "domain_id" /\ Strings["application"] = "app_id"
  BY DEF Strings
<1> QED BY <1>1, <1>2

LEMMA NumberOptions ==
  /\ DOMAIN Integers32 = {"a", "z", "s", "find_type"}
  /\ DOMAIN Shorts = {"port", "sport", "dport"}
  /\ DOMAIN Flags = {"c", "m", "ipv6"}
  /\ \A o \in DOMAIN Integers32 :
       /\ Integers32[o] \notin {"is_from_pcap", "is_only_check", "download_file_name",
                                "port", "sport", "dport"}
       /\ Integers32[o] = "start_timestamp" => o = "a"
  /\ \A o \in DOMAIN Shorts : Shorts[o] = o
  /\ \A o \in DOMAIN Flags :
       /\ Flags[o] \notin {"start_timestamp", "is_from_pcap", "download_file_name",
                           "port", "sport", "dport"}
       /\ Flags[o] = "is_only_check" <=> o = "c"
<1>1. /\ DOMAIN Integers32 = {"a", "z", "s", "find_type"}
      /\ DOMAIN Shorts = {"port", "sport", "dport"}
      /\ DOMAIN Flags = {"c", "m", "ipv6"}
  BY DEF Integers32, Shorts, Flags
<1>2. /\ Integers32["a"] = "start_timestamp" /\ Integers32["z"] = "end_timestamp"
      /\ Integers32["s"] = "pkts_num" /\ Integers32["find_type"] = "find_type"
  BY DEF Integers32
<1>3. Shorts["port"] = "port" /\ Shorts["sport"] = "sport" /\ Shorts["dport"] = "dport"
  BY DEF Shorts
<1>4. Flags["c"] = "is_only_check" /\ Flags["m"] = "is_non_deamon" /\ Flags["ipv6"] = "is_ipv6"
  BY DEF Flags
<1> QED BY <1>1, <1>2, <1>3, <1>4

\* What an option that sets a field stores, and where.
Stores(o, x, value) ==
  /\ x \in Fields /\ value \in Int
  /\ x \in {"port", "sport", "dport"} => value \in UShort
  /\ x = "start_timestamp" => value >= 0
  /\ x = "is_from_pcap" <=> o = "o"
  /\ x = "is_only_check" <=> o = "c"
  /\ x = "download_file_name" <=> o = "f"
  /\ o = "o" => value = 0
  /\ o \in {"c", "f"} => value = 1

LEMMA OptionStores ==
  ASSUME NEW o \in Options \ {"v", "V", "h", "?", "n"}, NEW arg \in Int,
         o \in {"a", "z"} => arg >= 0
  PROVE  Stores(o, FieldOf(o), Stored(o, arg))
<1>1. CASE o \in DOMAIN Strings
  <2>1. FieldOf(o) = Strings[o] /\ Stored(o, arg) = 1
    BY <1>1, StringOptions, NumberOptions DEF FieldOf, Stored
  <2>2. Strings[o] \in Fields
    BY <1>1, Zenon DEF Fields, Targets
  <2> QED BY <1>1, <2>1, <2>2, StringOptions DEF Stores
<1>2. CASE o \in DOMAIN Integers32
  <2>1. FieldOf(o) = Integers32[o] /\ Stored(o, arg) = arg
    BY <1>2, StringOptions, NumberOptions DEF FieldOf, Stored
  <2>2. Integers32[o] \in Fields
    BY <1>2, Zenon DEF Fields, Targets
  <2> QED BY <1>2, <2>1, <2>2, NumberOptions DEF Stores
<1>3. CASE o \in DOMAIN Shorts
  <2>1. FieldOf(o) = Shorts[o] /\ Stored(o, arg) = arg % 65536
    BY <1>3, StringOptions, NumberOptions DEF FieldOf, Stored
  <2>2. Shorts[o] \in Fields
    BY <1>3, Zenon DEF Fields, Targets
  <2>3. Stored(o, arg) \in UShort /\ Stored(o, arg) \in Int
    BY <2>1, UShortValues
  <2>4. Shorts[o] \in {"port", "sport", "dport"} /\ o \in {"port", "sport", "dport"}
    BY <1>3, NumberOptions
  <2>5. FieldOf(o) = Shorts[o]
    BY <2>1
  <2> QED BY <2>2, <2>3, <2>4, <2>5 DEF Stores
<1>4. CASE o \in DOMAIN Flags
  <2>1. FieldOf(o) = Flags[o] /\ Stored(o, arg) = 1
    BY <1>4, StringOptions, NumberOptions DEF FieldOf, Stored
  <2>2. Flags[o] \in Fields
    BY <1>4, Zenon DEF Fields, Targets
  <2> QED BY <1>4, <2>1, <2>2, NumberOptions DEF Stores
<1>5. CASE o = "o"
  <2>1. o \notin DOMAIN Strings \cup DOMAIN Integers32 \cup DOMAIN Shorts \cup DOMAIN Flags
    BY <1>5, StringOptions, NumberOptions
  <2>2. FieldOf(o) = "is_from_pcap" /\ Stored(o, arg) = 0
    BY <1>5, <2>1 DEF FieldOf, Stored
  <2>3. "is_from_pcap" \in Fields
    BY DEF Fields
  <2>4. Stores("o", "is_from_pcap", 0)
    BY <2>3 DEF Stores
  <2> QED BY <1>5, <2>2, <2>4
<1>6. o \in DOMAIN Strings \cup DOMAIN Integers32 \cup DOMAIN Shorts \cup DOMAIN Flags \cup {"o"}
  BY DEF Options
<1> QED BY <1>1, <1>2, <1>3, <1>4, <1>5, <1>6

LEMMA OptionKeepsChecks ==
  ASSUME OeInv, NEW c \in CommandLine, Option(c[1], c[2])
  PROVE  OeInv'
<1> DEFINE o == c[1]
           arg == c[2]
<1>1. o \in Options /\ arg \in Int /\ (o \in {"a", "z"} => arg >= 0)
  BY OptEntryAssumption
<1>2. parsing = "parse" /\ UNCHANGED optRet
  BY DEF Option
<1>3. CASE o \in {"v", "V", "h"} /\ parsing' = "exited" /\ UNCHANGED <<opts, onlyFilter, onlyDeep>>
  BY <1>2, <1>3 DEF OeInv, OptEntryTypeOK, UsesFilter, Given
<1>4. CASE UNCHANGED <<opts, onlyFilter, onlyDeep, parsing>>
  BY <1>2, <1>4 DEF OeInv, OptEntryTypeOK, UsesFilter, Given
<1>5. CASE /\ o \notin {"v", "V", "h", "?", "n"}
           /\ opts' = [opts EXCEPT ![FieldOf(o)] = Stored(o, arg)]
           /\ onlyFilter' = (onlyFilter \/ o \in {"o", "f", "c"})
           /\ onlyDeep' = (onlyDeep \/ o = "r")
           /\ UNCHANGED parsing
  <2> DEFINE x == FieldOf(o)
             value == Stored(o, arg)
  <2>1. Stores(o, x, value)
    BY <1>1, <1>5, OptionStores
  <2>2. opts' = [opts EXCEPT ![x] = value]
    BY <1>5
  <2> HIDE DEF x, value
  <2>3. x \in Fields /\ value \in Int /\ opts \in [Fields -> Int]
    BY <2>1 DEF Stores, OeInv, OptEntryTypeOK
  <2>4. \A y \in Fields : opts'[y] = IF y = x THEN value ELSE opts[y]
    BY <2>2, <2>3
  <2>5. opts' \in [Fields -> Int]
    BY <2>2, <2>3
  <2>6. {"port", "sport", "dport", "start_timestamp", "is_from_pcap", "is_only_check",
         "download_file_name"} \subseteq Fields
    <3>1. \A s \in DOMAIN Shorts : Shorts[s] \in Fields
      BY Zenon DEF Fields, Targets
    <3>2. \A s \in DOMAIN Flags : Flags[s] \in Fields
      BY Zenon DEF Fields, Targets
    <3>3. \A s \in DOMAIN Strings : Strings[s] \in Fields
      BY Zenon DEF Fields, Targets
    <3>4. \A s \in DOMAIN Integers32 : Integers32[s] \in Fields
      BY Zenon DEF Fields, Targets
    <3>5. "start_timestamp" \in Fields
      BY <3>4 DEF Integers32
    <3>6. "is_only_check" \in Fields
      BY <3>2 DEF Flags
    <3>7. "download_file_name" \in Fields
      BY <3>3 DEF Strings
    <3>8. "is_from_pcap" \in Fields
      BY DEF Fields
    <3> QED BY <3>1, <3>5, <3>6, <3>7, <3>8, NumberOptions
  <2>7. \A s \in DOMAIN Shorts : opts'[Shorts[s]] \in UShort
    BY <2>1, <2>4, <2>6, NumberOptions DEF Stores, OeInv, OptEntryTypeOK
  <2>8. opts'["start_timestamp"] >= 0
    BY <2>1, <2>4, <2>6 DEF Stores, OeInv
  <2>9. OptEntryTypeOK'
    BY <1>2, <1>5, <2>5, <2>7 DEF OeInv, OptEntryTypeOK
  <2>10. (onlyFilter <=> UsesFilter) \/ optRet = -1
    BY <1>2 DEF OeInv
  <2>11. UsesFilter' <=> UsesFilter \/ o \in {"o", "f", "c"}
    BY <2>1, <2>4, <2>6 DEF Stores, UsesFilter, Given
  <2>12. (onlyFilter' <=> UsesFilter') \/ optRet' = -1
    BY <1>2, <1>5, <2>10, <2>11
  <2> QED BY <1>2, <1>5, <2>8, <2>9, <2>12 DEF OeInv
<1> QED BY <1>3, <1>4, <1>5 DEF Option

\* Whatever the order and repetition of the options, a command line that is accepted
\* and uses the filter has passed the filter's checks (which let --mac with --dmac
\* pass), one that does not use it those of the deep analysis (which are left out with
\* -o, although it runs then too), and a port fits its 16 bits.
THEOREM AcceptedLinesAreChecked == OptEntrySpec => []OptEntryInv
<1>1. OptEntryInit => OeInv
  <2> SUFFICES ASSUME OptEntryInit PROVE OeInv
    OBVIOUS
  <2>1. \A x \in Fields : opts[x] = 0
    BY DEF OptEntryInit
  <2>2. \A s \in DOMAIN Shorts : Shorts[s] \in Fields
    BY Zenon DEF Fields, Targets
  <2>3. "start_timestamp" \in Fields
    <3>1. \A s \in DOMAIN Integers32 : Integers32[s] \in Fields
      BY Zenon DEF Fields, Targets
    <3> QED BY <3>1 DEF Integers32
  <2>4. opts.start_timestamp >= 0
    BY <2>1, <2>3
  <2>5. OptEntryTypeOK
    <3>1. opts \in [Fields -> Int]
      BY DEF OptEntryInit
    <3>2. \A s \in DOMAIN Shorts : opts[Shorts[s]] \in UShort
      BY <2>1, <2>2, UShortValues
    <3> QED BY <3>1, <3>2 DEF OptEntryInit, OptEntryTypeOK
  <2> QED BY <2>4, <2>5 DEF OptEntryInit, OeInv
<1>2. OeInv /\ [OptEntryNext]_oeVars => OeInv'
  <2> SUFFICES ASSUME OeInv, [OptEntryNext]_oeVars PROVE OeInv'
    OBVIOUS
  <2>1. CASE Enter
    <3>1. \A s \in DOMAIN Shorts : Shorts[s] \in Fields /\ Shorts[s] = s
      BY Zenon, NumberOptions DEF Fields, Targets
    <3>2. /\ \A s \in DOMAIN Integers32 : Integers32[s] \in Fields
          /\ \A s \in DOMAIN Flags : Flags[s] \in Fields
          /\ \A s \in DOMAIN Strings : Strings[s] \in Fields
      BY Zenon DEF Fields, Targets
    <3>3. /\ "start_timestamp" \in Fields /\ "is_only_check" \in Fields
          /\ "download_file_name" \in Fields
      BY <3>2 DEF Integers32, Flags, Strings
    <3>4. "is_from_pcap" \in Fields
      BY DEF Fields
    <3>5. \A x \in Fields : opts'[x] = IF x \in {"is_from_pcap", "d_table_tag", "conf_file"}
                                       THEN 1 ELSE 0
      BY <2>1 DEF Enter
    <3>6. /\ opts'["start_timestamp"] = 0 /\ opts'["is_only_check"] = 0
          /\ opts'["download_file_name"] = 0 /\ opts'["is_from_pcap"] = 1
      BY <3>3, <3>4, <3>5
    <3>7. opts' \in [Fields -> Int]
      BY <2>1 DEF Enter
    <3>8. \A s \in DOMAIN Shorts : opts'[Shorts[s]] \in UShort
      BY <3>1, <3>5, NumberOptions, UShortValues
    <3>9. OptEntryTypeOK'
      BY <2>1, <3>7, <3>8 DEF Enter, OeInv, OptEntryTypeOK
    <3>10. ~ UsesFilter'
      BY <3>6 DEF UsesFilter, Given
    <3> QED BY <2>1, <3>6, <3>9, <3>10 DEF Enter, OeInv
  <2>2. CASE NoArguments
    BY <2>2 DEF NoArguments, OeInv, OptEntryTypeOK
  <2>3. CASE Leave
    <3>1. OptEntryTypeOK' /\ opts' = opts /\ parsing = "parse" /\ parsing' = "returned"
      BY <2>3 DEF Leave, OeInv, OptEntryTypeOK
    <3>2. (optRet' = 0 => Verdict) /\ (Verdict' <=> Verdict)
      BY <2>3 DEF Leave, Verdict, CheckFilterOpts, CheckDeepOpts, Given
    <3>3. UsesFilter' <=> UsesFilter
      BY <2>3 DEF Leave, UsesFilter, Given
    <3>4. (onlyFilter' <=> UsesFilter') \/ optRet' = -1
      BY <2>3, <3>1, <3>3 DEF Leave, OeInv
    <3> QED BY <3>1, <3>2, <3>4 DEF OeInv
  <2>4. CASE UNCHANGED oeVars
    BY <2>4 DEF oeVars, OeInv, OptEntryTypeOK, UsesFilter, Given, Verdict, CheckFilterOpts,
                CheckDeepOpts
  <2> QED BY <2>1, <2>2, <2>3, <2>4, OptionKeepsChecks DEF OptEntryNext
<1>3. OeInv => OptEntryInv
  <2> SUFFICES ASSUME OeInv PROVE FilterRunsAreChecked /\ PcapRunsAreChecked
    BY DEF OeInv, OptEntryInv
  <2>1. Accepted => Verdict /\ (onlyFilter <=> UsesFilter) /\ onlyFilter \in BOOLEAN
    BY DEF OeInv, Accepted, OptEntryTypeOK
  <2>2. Accepted /\ UsesFilter => CheckFilterOpts
    BY <2>1 DEF Verdict
  <2>3. Accepted /\ ~ UsesFilter => CheckDeepOpts
    BY <2>1 DEF Verdict
  <2>4. "start_timestamp" \in Fields
    <3>1. \A s \in DOMAIN Integers32 : Integers32[s] \in Fields
      BY Zenon DEF Fields, Targets
    <3> QED BY <3>1 DEF Integers32
  <2>5. opts.start_timestamp \in Int /\ opts.start_timestamp >= 0
    BY <2>4 DEF OeInv, OptEntryTypeOK
  <2> QED BY <2>2, <2>3, <2>5
          DEF FilterRunsAreChecked, PcapRunsAreChecked, CheckFilterOpts, CheckDeepOpts, UsesFilter, Given
<1> QED BY <1>1, <1>2, <1>3, PTL DEF OptEntrySpec

-----------------------------------------------------------------------------
(* file_ext *)

LEMMA LowerKeepsLength ==
  ASSUME NEW s \in Seq(Chars)
  PROVE  Lower(s) \in Seq(Chars) /\ Len(Lower(s)) = Len(s)
<1>1. Len(s) \in Nat /\ DOMAIN s = 1 .. Len(s) /\ \A i \in 1 .. Len(s) : s[i] \in Chars
  BY LenProperties, ElementOfSeq
<1>2. DOMAIN Lower(s) = 1 .. Len(s)
  BY <1>1 DEF Lower
<1>3. \A i \in 1 .. Len(s) : Lower(s)[i] \in {"a", "b", s[i]}
  BY <1>1 DEF Lower
<1>4. Lower(s) = [i \in 1 .. Len(s) |-> Lower(s)[i]]
  BY <1>1 DEF Lower
<1>5. \A i \in 1 .. Len(s) : Lower(s)[i] \in Chars
  <2>1. "a" \in Chars /\ "b" \in Chars
    BY FileExtAssumption
  <2> QED BY <1>1, <1>3, <2>1, Zenon
<1>6. Lower(s) \in Seq(Chars)
  BY <1>1, <1>4, <1>5
<1> QED BY <1>1, <1>2, <1>6, LenProperties

\* The buffer is filled backwards and read forwards.
LEMMA ReversedTwice ==
  ASSUME NEW s \in Seq(Chars)
  PROVE  Reversed(Reversed(s)) = s
<1>1. Len(s) \in Nat /\ DOMAIN s = 1 .. Len(s) /\ \A i \in 1 .. Len(s) : s[i] \in Chars
  BY LenProperties, ElementOfSeq
<1>2. Reversed(s) = [i \in 1 .. Len(s) |-> s[Len(s) + 1 - i]]
  BY <1>1 DEF Reversed
<1>3. Reversed(s) \in Seq(Chars) /\ Len(Reversed(s)) = Len(s)
  BY <1>1, <1>2
<1>4. Reversed(Reversed(s)) = [i \in 1 .. Len(s) |-> Reversed(s)[Len(s) + 1 - i]]
  BY <1>1, <1>2, <1>3 DEF Reversed
<1>5. \A i \in 1 .. Len(s) : Reversed(s)[Len(s) + 1 - i] = s[i]
  BY <1>1, <1>2
<1>6. s = [i \in 1 .. Len(s) |-> s[i]]
  BY <1>1
<1> QED BY <1>4, <1>5, <1>6

\* The loop finds the last dot: a set of numbers below a bound has a greatest one.
LEMMA DotIsLast ==
  ASSUME NEW name \in Seq(Chars)
  PROVE  \/ Dot(name) = 0 /\ \A i \in 2 .. Len(name) : name[i] # "."
         \/ /\ Dot(name) \in 2 .. Len(name) /\ name[Dot(name)] = "."
            /\ \A j \in 2 .. Len(name) : name[j] = "." => j <= Dot(name)
<1> DEFINE dots == {i \in 2 .. Len(name) : name[i] = "."}
           left == {Len(name) - i : i \in dots}
<1>1. Len(name) \in Nat
  BY LenProperties
<1>2. CASE dots = {}
  BY <1>2 DEF Dot
<1>3. CASE dots # {}
  <2>1. left \subseteq Nat /\ left # {}
    BY <1>1, <1>3
  <2>2. \E x \in left : \A y \in left : ~ (<<y, x>> \in OpToRel(<, Nat))
    BY <2>1, NatLessThanWellFounded, WFMin
  <2>3. \A x, y \in Nat : y < x => <<y, x>> \in OpToRel(<, Nat)
    BY DEF OpToRel
  <2>4. \E x \in left : \A y \in left : ~ (y < x)
    BY <2>1, <2>2, <2>3, Zenon
  <2>5. PICK x \in left : \A y \in left : ~ (y < x)
    BY <2>4
  <2>6. PICK i \in dots : x = Len(name) - i
    BY <2>5
  <2>7. \A j \in dots : Len(name) - j \in left
    OBVIOUS
  <2>8. \A j \in dots : j <= i
    <3> SUFFICES ASSUME NEW j \in dots PROVE j <= i
      OBVIOUS
    <3>1. ~ (Len(name) - j < Len(name) - i)
      BY <2>5, <2>6, <2>7
    <3>2. i \in Int /\ j \in Int
      OBVIOUS
    <3> HIDE DEF dots, left
    <3> QED BY <1>1, <3>1, <3>2
  <2>9. Dot(name) = CHOOSE k \in dots : \A j \in dots : j <= k
    BY <1>3 DEF Dot
  <2>10. Dot(name) \in dots /\ \A j \in dots : j <= Dot(name)
    BY <2>8, <2>9
  <2> QED BY <2>10
<1> QED BY <1>2, <1>3

ExtRecord == [count : 0 .. MaxAdds, ext_hs : SUBSET Seq(Chars), max_str_len : Nat, size : Nat,
              is_black : BOOLEAN]

\* Strengthening of FileExtInv: what the set holds is what was added, in lower case,
\* and fits the buffer; and the last answer is still the answer.
SetInv(f) ==
  /\ f \in ExtRecord
  /\ f.size = f.max_str_len + 1 \/ (f.size = 0 /\ f.max_str_len = 0 /\ cleared)
  /\ f.ext_hs = {Lower(e) : e \in added}
  /\ \A e \in added : Len(e) <= f.max_str_len

FeInv ==
  /\ fileExt = {} \/ \E f : fileExt = {f}
  /\ \A f \in fileExt : SetInv(f)
  /\ \A f \in fileExt : answer # NoAnswer =>
       answer.name \in FileNames /\ answer.ret = Answer(f, Found(f, answer.name))
  /\ fileExt = {} => answer = NoAnswer /\ ~ crashed
  /\ crashed => cleared /\ added \subseteq {<< >>}
  /\ added \subseteq Exts /\ cleared \in BOOLEAN /\ crashed \in BOOLEAN

\* Giving up after max_str_len characters loses no match.
LEMMA FoundIsSuffix ==
  ASSUME NEW f, SetInv(f), added \subseteq Exts, NEW name \in Seq(Chars)
  PROVE  Found(f, name) <=> HasAddedExt(name)
<1> DEFINE ext(i) == SubSeq(name, i + 1, Len(name))
<1>1. Len(name) \in Nat /\ \A i \in 1 .. Len(name) : name[i] \in Chars
  BY LenProperties, ElementOfSeq
<1>2. ASSUME NEW i \in 1 .. Len(name)
      PROVE  ext(i) \in Seq(Chars) /\ Len(ext(i)) = Len(name) - i
  <2>1. /\ i + 1 \in Int /\ Len(name) \in Int
        /\ \A j \in (i + 1) .. Len(name) : name[j] \in Chars
    BY <1>1
  <2>2. /\ ext(i) \in Seq(Chars)
        /\ Len(ext(i)) = IF i + 1 <= Len(name) THEN Len(name) - (i + 1) + 1 ELSE 0
    BY <2>1, SubSeqProperties
  <2> HIDE DEF ext
  <2> QED BY <1>1, <2>2
<1>3. \A e \in added : e \in Seq(Chars) /\ Len(e) <= f.max_str_len /\ Len(Lower(e)) = Len(e)
  BY FileExtAssumption, LowerKeepsLength DEF SetInv
<1>4. f.max_str_len \in Nat
  BY DEF SetInv, ExtRecord
<1>5. ASSUME Found(f, name) PROVE HasAddedExt(name)
  <2> DEFINE i == Dot(name)
  <2>1. /\ i \in 2 .. Len(name) /\ name[i] = "."
        /\ \A j \in 2 .. Len(name) : name[j] = "." => j <= i
    BY <1>5, DotIsLast DEF Found
  <2>2. \A j \in (i + 1) .. Len(name) : name[j] # "."
    BY <1>1, <2>1
  <2>3. Lower(Reversed(Reversed(ext(i)))) \in f.ext_hs
    BY <1>5 DEF Found
  <2>4. Lower(ext(i)) \in f.ext_hs
    <3>1. i \in 1 .. Len(name)
      BY <1>1, <2>1
    <3>2. ext(i) \in Seq(Chars)
      BY <1>2, <3>1
    <3> HIDE DEF ext, i
    <3> QED BY <2>3, <3>2, ReversedTwice
  <2>5. \E e \in added : Lower(e) = Lower(ext(i))
    BY <2>4 DEF SetInv
  <2> QED BY <2>1, <2>2, <2>5 DEF HasAddedExt
<1>6. ASSUME HasAddedExt(name) PROVE Found(f, name)
  <2>1. PICK i \in 2 .. Len(name) :
          /\ name[i] = "." /\ \A j \in (i + 1) .. Len(name) : name[j] # "."
          /\ \E e \in added : Lower(e) = Lower(ext(i))
    BY <1>6 DEF HasAddedExt
  <2>2. i \in 1 .. Len(name) /\ i \in Nat
    BY <1>1, <2>1
  <2>3. Dot(name) = i
    <3>1. /\ Dot(name) \in 2 .. Len(name) /\ name[Dot(name)] = "."
          /\ \A j \in 2 .. Len(name) : name[j] = "." => j <= Dot(name)
      BY <2>1, DotIsLast
    <3>2. i <= Dot(name)
      BY <2>1, <3>1
    <3>3. ~ (Dot(name) \in (i + 1) .. Len(name))
      BY <2>1, <3>1
    <3> QED BY <1>1, <2>1, <3>1, <3>2, <3>3
  <2>4. PICK e \in added : Lower(e) = Lower(ext(i))
    BY <2>1
  <2>5. Len(ext(i)) = Len(e) /\ ext(i) \in Seq(Chars)
    BY <1>2, <1>3, <2>2, <2>4, LowerKeepsLength
  <2>6. Len(name) - i <= f.max_str_len
    BY <1>2, <1>3, <2>2, <2>5
  <2>7. Copied(f, name) <= f.max_str_len
    BY <1>1, <1>4, <2>2, <2>3, <2>6 DEF Copied
  <2>8. Lower(Reversed(Reversed(ext(i)))) \in f.ext_hs
    BY <2>4, <2>5, ReversedTwice DEF SetInv
  <2>9. Dot(name) > 0
    BY <2>2, <2>3
  <2> QED BY <2>3, <2>7, <2>8, <2>9 DEF Found
<1> QED BY <1>5, <1>6

\* A call that replaces the set by g, for which there is no answer yet.
LEMMA SetChanges ==
  ASSUME NEW g, fileExt' = {g}, SetInv(g)', answer' = NoAnswer, crashed' = FALSE,
         added' \subseteq Exts, cleared' \in BOOLEAN
  PROVE  FeInv'
  BY DEF FeInv

LEMMA AddKeepsSet ==
  ASSUME FeInv, NEW f \in fileExt, ~ crashed, NEW ext \in Exts, f.count < MaxAdds, AddFileExt(f, ext)
  PROVE  FeInv'
<1> DEFINE g == [Room(f, Len(ext)) EXCEPT !.count = @ + 1, !.ext_hs = @ \cup {Lower(ext)}]
<1>1. /\ fileExt' = {g} /\ added' = added \cup {ext} /\ answer' = NoAnswer
      /\ UNCHANGED cleared /\ crashed' = FALSE
  BY DEF AddFileExt, FeInv
<1>2. SetInv(f) /\ f \in ExtRecord /\ added \subseteq Exts
  BY DEF FeInv, SetInv
<1>3. ext \in Seq(Chars) /\ Len(ext) \in Nat /\ Lower(ext) \in Seq(Chars)
  BY FileExtAssumption, LowerKeepsLength, LenProperties
<1>4. /\ Room(f, Len(ext)) \in ExtRecord
      /\ Room(f, Len(ext)).count = f.count /\ Room(f, Len(ext)).ext_hs = f.ext_hs
      /\ Len(ext) <= Room(f, Len(ext)).max_str_len
      /\ f.max_str_len <= Room(f, Len(ext)).max_str_len
      /\ \/ Room(f, Len(ext)).size = Room(f, Len(ext)).max_str_len + 1
         \/ /\ Room(f, Len(ext)).size = 0 /\ Room(f, Len(ext)).max_str_len = 0 /\ cleared
  <2>1. f.max_str_len \in Nat
    BY <1>2 DEF ExtRecord
  <2>2. CASE Len(ext) > f.max_str_len
    <3>1. Room(f, Len(ext)) = [f EXCEPT !.max_str_len = Len(ext), !.size = Len(ext) + 1]
      BY <2>2 DEF Room
    <3>2. Room(f, Len(ext)) \in ExtRecord
      <4>1. f \in ExtRecord /\ Len(ext) \in Nat /\ Len(ext) + 1 \in Nat
        BY <1>2, <1>3
      <4>2. \A n \in Nat, m \in Nat : [f EXCEPT !.max_str_len = n, !.size = m] \in ExtRecord
        BY <4>1 DEF ExtRecord
      <4> QED BY <3>1, <4>1, <4>2
    <3> QED BY <1>2, <1>3, <2>1, <2>2, <3>1, <3>2 DEF ExtRecord
  <2>3. CASE ~ (Len(ext) > f.max_str_len)
    BY <1>2, <1>3, <2>1, <2>3 DEF Room, SetInv
  <2> QED BY <2>2, <2>3
<1>5. f.count + 1 \in 0 .. MaxAdds
  BY <1>2, FileExtAssumption DEF ExtRecord
<1>6. /\ g \in ExtRecord /\ g.ext_hs = f.ext_hs \cup {Lower(ext)}
      /\ g.max_str_len = Room(f, Len(ext)).max_str_len /\ g.size = Room(f, Len(ext)).size
  BY <1>3, <1>4, <1>5 DEF ExtRecord
<1> HIDE DEF g
<1>7. g.ext_hs = {Lower(e) : e \in added'}
  BY <1>1, <1>2, <1>6 DEF SetInv
<1>8. \A e \in added : Len(e) \in Nat
  BY <1>2, FileExtAssumption, LenProperties
<1>9. \A e \in added' : Len(e) <= g.max_str_len
  BY <1>1, <1>2, <1>3, <1>4, <1>6, <1>8 DEF SetInv, ExtRecord
<1>10. SetInv(g)'
  BY <1>1, <1>4, <1>6, <1>7, <1>9 DEF SetInv
<1> QED BY <1>1, <1>2, <1>10, SetChanges DEF FeInv

\* A look-up in a buffer that is there stays inside it.
LEMMA LookUpFits ==
  ASSUME NEW f, SetInv(f), NEW name \in Seq(Chars), f.size # 0
  PROVE  Copied(f, name) <= f.size
<1>1. f.max_str_len \in Nat /\ f.size = f.max_str_len + 1 /\ Len(name) \in Nat
  BY LenProperties DEF SetInv, ExtRecord
<1>2. Dot(name) \in Nat
  BY <1>1, DotIsLast
<1> DEFINE n == IF Dot(name) > 0 THEN Len(name) - Dot(name)
                ELSE IF name = << >> THEN 0 ELSE Len(name) - 1
<1>3. n \in Int
  BY <1>1, <1>2
<1>4. Copied(f, name) = IF n > f.max_str_len THEN f.max_str_len + 1 ELSE n
  BY DEF Copied
<1> HIDE DEF n
<1> QED BY <1>1, <1>3, <1>4

LEMMA LookUpKeepsSet ==
  ASSUME FeInv, NEW f \in fileExt, ~ crashed, NEW name \in FileNames, IsNeedFileExt(f, name)
  PROVE  FeInv'
<1>1. SetInv(f) /\ added \subseteq Exts /\ name \in Seq(Chars) /\ fileExt = {f}
  BY FileExtAssumption DEF FeInv
<1>2. UNCHANGED <<fileExt, added, cleared>> /\ SetInv(f)'
  BY <1>1 DEF IsNeedFileExt, SetInv
<1>3. CASE (f.size = 0 \/ Copied(f, name) > f.size) /\ crashed' = TRUE /\ UNCHANGED answer
  <2>1. f.size = 0
    <3> SUFFICES ASSUME f.size # 0 PROVE FALSE
      OBVIOUS
    <3>1. Copied(f, name) <= f.size /\ Copied(f, name) > f.size
      BY <1>1, <1>3, LookUpFits
    <3>2. Copied(f, name) \in Int /\ f.size \in Int
      <4>1. f.max_str_len \in Nat /\ f.size \in Nat /\ Len(name) \in Nat /\ Dot(name) \in Nat
        BY <1>1, DotIsLast, LenProperties DEF SetInv, ExtRecord
      <4> QED BY <4>1 DEF Copied
    <3> QED BY <3>1, <3>2
  <2>2. f.max_str_len = 0 /\ cleared /\ \A e \in added : Len(e) <= 0
    BY <1>1, <2>1 DEF SetInv, ExtRecord
  <2>3. \A e \in added : e = << >>
    <3> SUFFICES ASSUME NEW e \in added PROVE e = << >>
      OBVIOUS
    <3>1. e \in Seq(Chars) /\ Len(e) \in Nat /\ Len(e) <= 0
      BY <1>1, <2>2, FileExtAssumption, LenProperties
    <3> QED BY <3>1, EmptySeq
  <2> QED BY <1>1, <1>2, <1>3, <2>2, <2>3 DEF FeInv
<1>4. CASE /\ answer' = [name |-> name, ret |-> Answer(f, Found(f, name))]
           /\ UNCHANGED crashed
  BY <1>1, <1>2, <1>4 DEF FeInv
<1> QED BY <1>3, <1>4 DEF IsNeedFileExt

\* Over every sequence of calls the buffer is as long as what was added, the answers of
\* look-ups follow the extension of the name, and look-ups stay in the buffer, unless
\* the set was cleared and nothing but the empty extension was added since: then they
\* write through NULL and give no answer.
THEOREM LookUpsAreRight == FileExtSpec => []FileExtInv
<1>1. FileExtInit => FeInv
  BY DEF FileExtInit, FeInv
<1>2. FeInv /\ [FileExtNext]_feVars => FeInv'
  <2> SUFFICES ASSUME FeInv, [FileExtNext]_feVars PROVE FeInv'
    OBVIOUS
  <2>1. CASE InitFileExt
    <3> DEFINE g == [count |-> 0, ext_hs |-> {}, max_str_len |-> InitialMax,
                     size |-> InitialMax + 1, is_black |-> FALSE]
    <3>1. /\ fileExt' = {g} /\ added' = {} /\ cleared' = FALSE /\ answer' = NoAnswer
          /\ crashed' = FALSE
      BY <2>1 DEF InitFileExt, FeInv
    <3>2. SetInv(g)'
      BY <3>1, FileExtAssumption DEF SetInv, ExtRecord
    <3> QED BY <3>1, <3>2, SetChanges
  <2>2. ASSUME NEW f \in fileExt, ~ crashed, ClearFileExt(f) PROVE FeInv'
    <3> DEFINE g == [f EXCEPT !.count = 0, !.ext_hs = {}, !.max_str_len = 0, !.size = 0]
    <3>1. /\ fileExt' = {g} /\ added' = {} /\ cleared' = TRUE /\ answer' = NoAnswer
          /\ crashed' = FALSE
      BY <2>2 DEF ClearFileExt, FeInv
    <3>2. f \in ExtRecord
      BY DEF FeInv, SetInv
    <3>3. g \in ExtRecord /\ g.size = 0 /\ g.max_str_len = 0 /\ g.ext_hs = {}
      <4>1. 0 \in 0 .. MaxAdds /\ {} \in SUBSET Seq(Chars)
        BY FileExtAssumption
      <4> QED BY <3>2, <4>1 DEF ExtRecord
    <3> HIDE DEF g
    <3>4. SetInv(g)'
      BY <3>1, <3>3 DEF SetInv
    <3> QED BY <3>1, <3>4, SetChanges
  <2>3. ASSUME NEW f \in fileExt, ~ crashed, DestroyFileExt(f) PROVE FeInv'
    BY <2>3 DEF DestroyFileExt, FeInv
  <2>4. ASSUME NEW f \in fileExt, ~ crashed, NEW b \in BOOLEAN, SetFileExtBlackWhite(f, b) PROVE FeInv'
    <3> DEFINE g == [f EXCEPT !.is_black = b]
    <3>1. /\ fileExt' = {g} /\ answer' = NoAnswer /\ UNCHANGED <<added, cleared>>
          /\ crashed' = FALSE
      BY <2>4 DEF SetFileExtBlackWhite, FeInv
    <3>2. SetInv(f) /\ f \in ExtRecord
      BY DEF FeInv, SetInv
    <3>3. /\ g \in ExtRecord /\ g.size = f.size /\ g.max_str_len = f.max_str_len
          /\ g.ext_hs = f.ext_hs
      BY <3>2 DEF ExtRecord
    <3> HIDE DEF g
    <3>4. SetInv(g)'
      BY <3>1, <3>2, <3>3 DEF SetInv
    <3> QED BY <2>4, <3>1, <3>4, SetChanges DEF FeInv
  <2>5. CASE UNCHANGED feVars
    BY <2>5 DEF feVars, FeInv, SetInv, Answer, Found, Copied
  <2> QED BY <2>1, <2>2, <2>3, <2>4, <2>5, AddKeepsSet, LookUpKeepsSet DEF FileExtNext
<1>3. FeInv => FileExtInv
  <2> SUFFICES ASSUME FeInv PROVE FileExtInv
    OBVIOUS
  <2>1. \A f \in fileExt : \A e \in f.ext_hs : Len(e) <= f.max_str_len
    BY FileExtAssumption, LowerKeepsLength DEF FeInv, SetInv
  <2>2. FileExtTypeOK
    BY <2>1 DEF FileExtTypeOK, FeInv, SetInv, ExtRecord
  <2>3. AnswersBySuffix
    <3> SUFFICES ASSUME answer # NoAnswer, NEW f \in fileExt
                 PROVE  (answer.ret = MATCH) <=> (HasAddedExt(answer.name) # f.is_black)
      BY DEF AnswersBySuffix
    <3>1. /\ answer.name \in Seq(Chars) /\ answer.ret = Answer(f, Found(f, answer.name))
          /\ SetInv(f) /\ added \subseteq Exts
      BY FileExtAssumption DEF FeInv
    <3>2. Found(f, answer.name) <=> HasAddedExt(answer.name)
      BY <3>1, FoundIsSuffix
    <3>3. f.is_black \in BOOLEAN /\ Found(f, answer.name) \in BOOLEAN /\ HasAddedExt(answer.name) \in BOOLEAN
      BY <3>1 DEF SetInv, ExtRecord, Found, HasAddedExt
    <3> QED BY <3>1, <3>2, <3>3 DEF Answer, MATCH, NOT_MATCH
  <2>4. BufferHoldsName
    BY DEF BufferHoldsName, FeInv
  <2> QED BY <2>2, <2>3, <2>4 DEF FileExtInv
<1> QED BY <1>1, <1>2, <1>3, PTL DEF FileExtSpec

-----------------------------------------------------------------------------
(* Redis *)

SubRec == [mem : {"none", "live", "freed"}, funcs : [1 .. FuncMaxCount -> BOOLEAN],
           size : 0 .. FuncMaxCount,
           thread : {"none", "subscribe", "wait", "call", "again", "asleep", "gone"},
           i : 1 .. (FuncMaxCount + 1), due : 0 .. FuncMaxCount, cancelled : BOOLEAN]

RdTypes ==
  /\ connInfo \in {"null", "live", "freed"} /\ connHd \in {"null", "live", "freed"}
  /\ hash = {} \/ \E h \in SUBSET Channels : hash = {h}
  /\ lock \in Callers \cup {NoCaller}
  /\ sub \in [Channels -> SubRec]
  /\ inbox \in [Channels -> Nat] /\ started \in [Channels -> Nat]
  /\ pc \in [Callers -> {"idle", "lookup", "count", "connect", "insert"}]
  /\ call \in [Callers -> [channel : Channels, calls : Nat]]
  /\ setter \in {"idle", "expire"} /\ key \in {"none", "forever", "ttl"}
  /\ expireFailed \in BOOLEAN /\ orderly \in BOOLEAN /\ undefined \in BOOLEAN

\* What size counts is there, and a message's callbacks are among them.
SubOk(s) ==
  /\ \A k \in 1 .. s.size : s.funcs[k]
  /\ s.thread = "subscribe" => s.due = 0
  /\ s.thread = "call" => s.due <= s.size
  /\ s.thread = "wait" => s.i > s.due

\* A caller in init_subscribe() holds mut_hash and knows whether the table has its channel.
CallerOk(t) ==
  pc[t] # "idle" =>
    LET c == call[t].channel
    IN /\ lock = t
       /\ orderly \/ pc[t] # "lookup" => connInfo = "live"
       /\ pc[t] = "count" => InHash(c) /\ sub[c].size < FuncMaxCount /\ sub[c].funcs[sub[c].size + 1]
       /\ pc[t] = "connect" => ~ InHash(c) /\ started[c] = 0
       /\ pc[t] = "insert" => ~ InHash(c) /\ sub[c].mem = "live"

\* A channel with a thread is in the table, or about to be; what the table holds is
\* allocated; and a thread whose data are freed was told to end, in an orderly
\* destory_redis_conn() before it could use them.
ChannelOk(c) ==
  /\ InHash(c) => connInfo = "live" /\ sub[c].mem = "live"
  /\ started[c] > 0 => \/ InHash(c) \/ connInfo = "freed"
                       \/ \E t \in Callers : pc[t] = "insert" /\ call[t].channel = c
  /\ sub[c].mem = "freed" =>
       /\ connInfo = "freed" /\ sub[c].cancelled
       /\ orderly => sub[c].thread \in {"wait", "asleep", "gone"} /\ inbox[c] = 0

ConnOk ==
  /\ connInfo = "live" => connHd = "live" /\ hash # {}
  /\ connInfo = "freed" => hash = {}

\* Once something is undefined nothing is known of the order of the calls.
RdOrder ==
  ~ undefined => /\ \A t \in Callers : CallerOk(t)
                 /\ \A c \in Channels : ChannelOk(c)
                 /\ ConnOk

\* Strengthening of RedisInv.
RdInv ==
  /\ RdTypes
  /\ \A c \in Channels : SubOk(sub[c])
  /\ OneThreadPerChannel /\ NoEternalKey /\ OrderlyUseIsSafe
  /\ RdOrder

LEMMA RdInitially == RedisInit => RdInv
<1> SUFFICES ASSUME RedisInit PROVE RdInv
  OBVIOUS
<1> USE RedisAssumption DEF RedisInit
<1>1. NoSub \in SubRec
  BY DEF NoSub, SubRec
<1>2. (CHOOSE c \in Channels : TRUE) \in Channels
  OBVIOUS
<1>3. RdTypes
  <2>1. sub \in [Channels -> SubRec]
    BY <1>1
  <2>2. call \in [Callers -> [channel : Channels, calls : Nat]]
    BY <1>2
  <2> QED BY <2>1, <2>2 DEF RdTypes
<1>4. \A c \in Channels : SubOk(sub[c])
  BY DEF SubOk, NoSub
<1>5. OneThreadPerChannel /\ NoEternalKey /\ OrderlyUseIsSafe
  BY DEF OneThreadPerChannel, NoEternalKey, OrderlyUseIsSafe
<1>6. RdOrder
  BY DEF RdOrder, CallerOk, ChannelOk, ConnOk, NoSub, InHash
<1> QED BY <1>3, <1>4, <1>5, <1>6 DEF RdInv

\* A step of a caller in init_subscribe() that only gives mut_hash back.
LEMMA ReturnKeepsRd ==
  ASSUME RdInv, ~ undefined, NEW t \in Callers, pc[t] # "idle", pc[t] # "insert", Returns(t),
         UNCHANGED <<connVars, threadVars, call, keyVars, orderly, undefined>>
  PROVE  RdInv'
<1> USE DEF connVars, threadVars, keyVars
<1>1. lock = t /\ \A u \in Callers \ {t} : pc[u] = "idle"
  BY DEF RdInv, RdOrder, CallerOk
<1>2. pc' = [pc EXCEPT ![t] = "idle"] /\ lock' = NoCaller
  BY DEF Returns, Goto
<1>3. RdTypes'
  BY <1>2 DEF RdInv, RdTypes
<1>4. \A u \in Callers : pc'[u] = "idle"
  BY <1>1, <1>2 DEF RdInv, RdTypes
<1>5. \A c \in Channels : ChannelOk(c)'
  BY <1>1 DEF RdInv, RdOrder, ChannelOk, InHash
<1>6. RdOrder'
  BY <1>4, <1>5 DEF RdInv, RdOrder, ConnOk, CallerOk
<1>7. (\A c \in Channels : SubOk(sub[c]))' /\ OneThreadPerChannel' /\ NoEternalKey'
  BY DEF RdInv, OneThreadPerChannel, NoEternalKey
<1>8. OrderlyUseIsSafe'
  BY DEF OrderlyUseIsSafe
<1> QED BY <1>3, <1>6, <1>7, <1>8 DEF RdInv

LEMMA LockKeepsRd ==
  ASSUME RdInv, NEW t \in Callers, NEW c \in Channels, SubscribeLocks(t, c)
  PROVE  RdInv'
<1> USE DEF connVars, threadVars, keyVars, SubscribeLocks, At, Goto
<1>1. \A u \in Callers : pc[u] = "idle"
  BY RedisAssumption DEF RdInv, RdOrder, CallerOk
<1>2. RdTypes'
  <2>1. call[t] \in [channel : Channels, calls : Nat]
    BY DEF RdInv, RdTypes
  <2>2. [channel |-> c, calls |-> call[t].calls + 1] \in [channel : Channels, calls : Nat]
    BY <2>1
  <2>3. call' \in [Callers -> [channel : Channels, calls : Nat]]
    BY <2>2 DEF RdInv, RdTypes
  <2>4. orderly' \in BOOLEAN
    OBVIOUS
  <2> QED BY <2>3, <2>4 DEF RdInv, RdTypes
<1>3. \A u \in Callers : CallerOk(u)'
  BY <1>1 DEF RdInv, RdTypes, CallerOk
<1>4. \A d \in Channels : ChannelOk(d)'
  BY <1>1 DEF RdInv, RdOrder, ChannelOk, InHash
<1>5. RdOrder'
  BY <1>3, <1>4 DEF RdInv, RdOrder, ConnOk
<1>6. (\A d \in Channels : SubOk(sub[d]))' /\ OneThreadPerChannel' /\ NoEternalKey'
  BY DEF RdInv, OneThreadPerChannel, NoEternalKey
<1>7. OrderlyUseIsSafe'
  BY DEF OrderlyUseIsSafe
<1> QED BY <1>2, <1>5, <1>6, <1>7 DEF RdInv

\* Storing one callback leaves the others.
LEMMA OneIsSet ==
  ASSUME NEW N \in Nat, NEW F \in [1 .. N -> BOOLEAN], NEW k \in 1 .. N
  PROVE  /\ [F EXCEPT ![k] = TRUE] \in [1 .. N -> BOOLEAN] /\ [F EXCEPT ![k] = TRUE][k] = TRUE
         /\ \A j \in 1 .. N : j # k => [F EXCEPT ![k] = TRUE][j] = F[j]
  OBVIOUS

LEMMA AddKeepsRd ==
  ASSUME RdInv, NEW t \in Callers, AddsCallback(t)
  PROVE  RdInv'
<1> USE DEF connVars, threadVars, keyVars
<1>0. PICK c \in Channels : c = call[t].channel
  BY DEF RdInv, RdTypes
<1> DEFINE s == sub[c]
           new == [s EXCEPT !.funcs[s.size + 1] = TRUE]
<1>1. /\ ~ undefined /\ pc[t] = "lookup" /\ InHash(c) /\ ~ IsFull(s)
      /\ sub' = [sub EXCEPT ![c] = new] /\ pc' = [pc EXCEPT ![t] = "count"]
      /\ UNCHANGED <<connInfo, connHd, hash, lock, inbox, published, started, call, setter, key,
                     expireFailed, orderly, undefined>>
  BY <1>0 DEF AddsCallback, At, Goto, StoreThenCount
<1>2. s \in SubRec /\ SubOk(s)
  BY DEF RdInv, RdTypes
<1>3. lock = t /\ connInfo = "live" /\ \A u \in Callers \ {t} : pc[u] = "idle"
  BY <1>1 DEF RdInv, RdOrder, CallerOk, ChannelOk
<1>4. s.size < FuncMaxCount /\ s.size \in Nat /\ s.size + 1 \in 1 .. FuncMaxCount
  BY <1>1, <1>2, RedisAssumption DEF IsFull, SubRec
<1>5. /\ new \in SubRec /\ new.mem = s.mem /\ new.thread = s.thread /\ new.cancelled = s.cancelled
      /\ new.i = s.i /\ new.due = s.due /\ new.size = s.size
      /\ new.funcs = [s.funcs EXCEPT ![s.size + 1] = TRUE]
  BY <1>2, <1>4 DEF SubRec
<1>6. new.funcs[s.size + 1] /\ SubOk(new)
  <2>1. s.funcs \in [1 .. FuncMaxCount -> BOOLEAN]
    BY <1>2 DEF SubRec
  <2>2. new.funcs[s.size + 1] = TRUE /\ \A k \in 1 .. s.size : new.funcs[k] = s.funcs[k]
    <3>1. \A k \in 1 .. s.size : k \in 1 .. FuncMaxCount /\ k # s.size + 1
      BY <1>4, RedisAssumption
    <3>2. new.funcs = [s.funcs EXCEPT ![s.size + 1] = TRUE] /\ FuncMaxCount \in Nat
      BY <1>5, RedisAssumption
    <3> HIDE DEF new, s
    <3>3. /\ [s.funcs EXCEPT ![s.size + 1] = TRUE][s.size + 1] = TRUE
          /\ \A j \in 1 .. FuncMaxCount :
               j # s.size + 1 => [s.funcs EXCEPT ![s.size + 1] = TRUE][j] = s.funcs[j]
      BY <1>4, <2>1, <3>2, OneIsSet, Zenon
    <3> QED BY <3>1, <3>2, <3>3, Zenon
  <2>3. \A k \in 1 .. s.size : s.funcs[k]
    BY <1>2 DEF SubOk
  <2> HIDE DEF new, s
  <2>4. \A k \in 1 .. new.size : new.funcs[k]
    BY <1>5, <2>2, <2>3
  <2> QED BY <1>2, <1>5, <2>2, <2>4 DEF SubOk
<1> HIDE DEF new
<1>7. /\ sub'[c] = new /\ \A d \in Channels \ {c} : sub'[d] = sub[d]
      /\ sub' \in [Channels -> SubRec] /\ pc'[t] = "count"
      /\ \A u \in Callers \ {t} : pc'[u] = "idle"
  BY <1>1, <1>2, <1>3, <1>5 DEF RdInv, RdTypes
<1> HIDE DEF s
<1>8. RdTypes'
  BY <1>1, <1>7 DEF RdInv, RdTypes
<1>9. \A u \in Callers : CallerOk(u)'
  <2>1. InHash(c)' /\ sub'[c].size < FuncMaxCount /\ sub'[c].funcs[sub'[c].size + 1]
    <3>1. sub'[c].size = s.size /\ sub'[c].funcs = new.funcs
      BY <1>5, <1>7
    <3> QED BY <1>1, <1>4, <1>6, <3>1 DEF InHash
  <2>2. call'[t].channel = c
    BY <1>0, <1>1
  <2>3. CallerOk(t)'
    BY <1>1, <1>3, <1>7, <2>1, <2>2 DEF CallerOk
  <2>4. \A u \in Callers \ {t} : CallerOk(u)'
    BY <1>7 DEF CallerOk
  <2> QED BY <2>3, <2>4
<1>10. \A d \in Channels : ChannelOk(d)'
  BY <1>1, <1>2, <1>3, <1>5, <1>7 DEF RdInv, RdOrder, ChannelOk, InHash, s
<1>11. RdOrder'
  BY <1>1, <1>9, <1>10 DEF RdInv, RdOrder, ConnOk
<1>12. (\A d \in Channels : SubOk(sub[d]))'
  BY <1>6, <1>7 DEF RdInv
<1>13. OneThreadPerChannel' /\ NoEternalKey' /\ OrderlyUseIsSafe'
  BY <1>1 DEF RdInv, OneThreadPerChannel, NoEternalKey, OrderlyUseIsSafe
<1> QED BY <1>8, <1>11, <1>12, <1>13 DEF RdInv

LEMMA CountKeepsRd ==
  ASSUME RdInv, NEW t \in Callers, CountsCallback(t)
  PROVE  RdInv'
<1> USE DEF connVars, threadVars, keyVars
<1> DEFINE c == call[t].channel
           s == sub[c]
           new == [s EXCEPT !.size = @ + 1]
<1>1. /\ ~ undefined /\ pc[t] = "count" /\ lock' = NoCaller
      /\ sub' = [sub EXCEPT ![c] = new] /\ pc' = [pc EXCEPT ![t] = "idle"]
      /\ UNCHANGED <<connInfo, connHd, hash, inbox, published, started, call, setter, key,
                     expireFailed, orderly, undefined>>
  BY DEF CountsCallback, Returns, At, Goto, StoreThenCount
<1>2. c \in Channels /\ s \in SubRec /\ SubOk(s)
  BY DEF RdInv, RdTypes
<1>3. /\ connInfo = "live" /\ InHash(c) /\ s.size < FuncMaxCount /\ s.funcs[s.size + 1]
      /\ \A u \in Callers \ {t} : pc[u] = "idle"
  BY <1>1 DEF RdInv, RdOrder, CallerOk
<1>4. s.size \in Nat /\ s.size + 1 \in 1 .. FuncMaxCount /\ s.size + 1 \in 0 .. FuncMaxCount
  BY <1>2, <1>3, RedisAssumption DEF SubRec
<1>5. /\ new \in SubRec /\ new.mem = s.mem /\ new.thread = s.thread /\ new.cancelled = s.cancelled
      /\ new.i = s.i /\ new.due = s.due /\ new.size = s.size + 1 /\ new.funcs = s.funcs
  BY <1>2, <1>4 DEF SubRec
<1>6. SubOk(new)
  <2>1. s.due \in Nat
    BY <1>2 DEF SubRec
  <2> HIDE DEF new, s
  <2>2. \A k \in 1 .. new.size : k \in 1 .. s.size \/ k = s.size + 1
    BY <1>4, <1>5
  <2> QED BY <1>2, <1>3, <1>4, <1>5, <2>1, <2>2 DEF SubOk
<1> HIDE DEF new
<1>7. /\ sub'[c] = new /\ \A d \in Channels \ {c} : sub'[d] = sub[d]
      /\ sub' \in [Channels -> SubRec] /\ \A u \in Callers : pc'[u] = "idle"
  BY <1>1, <1>2, <1>3, <1>5 DEF RdInv, RdTypes
<1> HIDE DEF s, c
<1>8. RdTypes'
  BY <1>1, <1>7 DEF RdInv, RdTypes
<1>9. \A u \in Callers : CallerOk(u)'
  BY <1>7 DEF CallerOk
<1>10. \A d \in Channels : ChannelOk(d)'
  BY <1>1, <1>2, <1>3, <1>5, <1>7 DEF RdInv, RdOrder, ChannelOk, InHash, s
<1>11. RdOrder'
  BY <1>1, <1>9, <1>10 DEF RdInv, RdOrder, ConnOk
<1>12. (\A d \in Channels : SubOk(sub[d]))'
  BY <1>6, <1>7 DEF RdInv
<1>13. OneThreadPerChannel' /\ NoEternalKey' /\ OrderlyUseIsSafe'
  BY <1>1 DEF RdInv, OneThreadPerChannel, NoEternalKey, OrderlyUseIsSafe
<1> QED BY <1>8, <1>11, <1>12, <1>13 DEF RdInv

\* A channel that is not in the table and whose caller has mut_hash has no thread.
LEMMA ConnectKeepsRd ==
  ASSUME RdInv, NEW t \in Callers, Connects(t)
  PROVE  RdInv'
<1> USE DEF connVars, threadVars, keyVars
<1> DEFINE c == call[t].channel
<1>1. /\ ~ undefined /\ pc[t] = "lookup" /\ ~ InHash(c) /\ pc' = [pc EXCEPT ![t] = "connect"]
      /\ lock' = t /\ undefined' = (connInfo # "live")
      /\ UNCHANGED <<connInfo, connHd, hash, sub, inbox, published, started, call, setter, key,
                     expireFailed, orderly>>
  BY DEF Connects, At, Goto
<1>2. lock = t /\ (orderly => connInfo = "live") /\ \A u \in Callers \ {t} : pc[u] = "idle"
  BY <1>1 DEF RdInv, RdOrder, CallerOk
<1>3. c \in Channels /\ started[c] \in Nat
  BY DEF RdInv, RdTypes
<1>4. connInfo = "live" => started[c] = 0
  <2> HAVE connInfo = "live"
  <2>1. ~ (started[c] > 0)
    BY <1>1, <1>2, <1>3 DEF RdInv, RdOrder, ChannelOk
  <2> QED BY <1>3, <2>1
<1>5. pc'[t] = "connect" /\ \A u \in Callers \ {t} : pc'[u] = "idle"
  BY <1>1, <1>2 DEF RdInv, RdTypes
<1>6. RdTypes'
  <2>1. undefined' \in BOOLEAN
    BY <1>1
  <2> QED BY <1>1, <2>1 DEF RdInv, RdTypes
<1>7. connInfo = "live" => \A u \in Callers : CallerOk(u)'
  BY <1>1, <1>2, <1>4, <1>5 DEF CallerOk, InHash
<1>8. \A d \in Channels : ChannelOk(d)'
  BY <1>1, <1>2, <1>5 DEF RdInv, RdOrder, ChannelOk, InHash
<1>9. RdOrder'
  BY <1>1, <1>7, <1>8 DEF RdInv, RdOrder, ConnOk
<1>10. (\A d \in Channels : SubOk(sub[d]))' /\ OneThreadPerChannel' /\ NoEternalKey'
  BY <1>1 DEF RdInv, OneThreadPerChannel, NoEternalKey
<1>11. OrderlyUseIsSafe'
  BY <1>1, <1>2 DEF OrderlyUseIsSafe
<1> QED BY <1>6, <1>9, <1>10, <1>11 DEF RdInv

LEMMA CreateKeepsRd ==
  ASSUME RdInv, NEW t \in Callers, CreatesThread(t)
  PROVE  RdInv'
<1> USE DEF connVars, threadVars, keyVars
<1>0. PICK c \in Channels : c = call[t].channel
  BY DEF RdInv, RdTypes
<1> DEFINE new == [NoSub EXCEPT !.mem = "live", !.funcs[1] = TRUE, !.size = 1, !.thread = "subscribe"]
<1>1. /\ ~ undefined /\ pc[t] = "connect" /\ pc' = [pc EXCEPT ![t] = "insert"]
      /\ sub' = [sub EXCEPT ![c] = new] /\ started' = [started EXCEPT ![c] = @ + 1]
      /\ UNCHANGED <<connInfo, connHd, hash, lock, inbox, published, call, setter, key,
                     expireFailed, orderly, undefined>>
  BY <1>0 DEF CreatesThread, At, Goto
<1>2. /\ lock = t /\ connInfo = "live" /\ \A u \in Callers \ {t} : pc[u] = "idle"
      /\ ~ InHash(c) /\ started[c] = 0
  BY <1>0, <1>1 DEF RdInv, RdOrder, CallerOk
<1>3. 1 \in 1 .. FuncMaxCount /\ 1 \in 0 .. FuncMaxCount /\ 1 \in 1 .. (FuncMaxCount + 1)
      /\ 0 \in 0 .. FuncMaxCount
  BY RedisAssumption
<1>4. /\ new \in SubRec /\ new.mem = "live" /\ new.thread = "subscribe" /\ new.size = 1 /\ new.due = 0
      /\ new.funcs[1]
  <2> DEFINE none == [i \in 1 .. FuncMaxCount |-> FALSE]
             funcs == [none EXCEPT ![1] = TRUE]
  <2>1. funcs \in [1 .. FuncMaxCount -> BOOLEAN] /\ funcs[1] = TRUE
    BY <1>3
  <2>2. new = [mem |-> "live", funcs |-> funcs, size |-> 1, thread |-> "subscribe", i |-> 1,
               due |-> 0, cancelled |-> FALSE]
    <3>1. NoSub.funcs = none
      BY DEF NoSub
    <3>2. new = [NoSub EXCEPT !.mem = "live", !.funcs = funcs, !.size = 1, !.thread = "subscribe"]
      BY <3>1, Zenon
    <3> HIDE DEF new, funcs
    <3> QED BY <3>2 DEF NoSub
  <2> HIDE DEF funcs
  <2> QED BY <1>3, <2>1, <2>2 DEF SubRec
<1> HIDE DEF new
<1>5. SubOk(new)
  BY <1>4 DEF SubOk
<1>6. /\ sub'[c] = new /\ \A d \in Channels \ {c} : sub'[d] = sub[d]
      /\ sub' \in [Channels -> SubRec] /\ pc'[t] = "insert"
      /\ \A u \in Callers \ {t} : pc'[u] = "idle"
      /\ started' \in [Channels -> Nat] /\ started'[c] = 1
      /\ \A d \in Channels \ {c} : started'[d] = started[d]
  BY <1>1, <1>2, <1>3, <1>4 DEF RdInv, RdTypes
<1>7. call'[t].channel = c /\ call' = call
  BY <1>0, <1>1
<1>8. RdTypes'
  BY <1>1, <1>6 DEF RdInv, RdTypes
<1>9. \A u \in Callers : CallerOk(u)'
  BY <1>1, <1>2, <1>4, <1>6, <1>7 DEF CallerOk, InHash
<1>10. \A d \in Channels : ChannelOk(d)'
  <2>1. ChannelOk(c)'
    BY <1>1, <1>2, <1>4, <1>6, <1>7 DEF ChannelOk, InHash
  <2>2. \A d \in Channels \ {c} : ChannelOk(d)'
    BY <1>1, <1>2, <1>6, <1>7 DEF RdInv, RdOrder, ChannelOk, InHash
  <2> QED BY <2>1, <2>2
<1>11. RdOrder'
  BY <1>1, <1>9, <1>10 DEF RdInv, RdOrder, ConnOk
<1>12. (\A d \in Channels : SubOk(sub[d]))'
  BY <1>5, <1>6 DEF RdInv
<1>13. OneThreadPerChannel' /\ NoEternalKey' /\ OrderlyUseIsSafe'
  BY <1>1, <1>6 DEF RdInv, OneThreadPerChannel, NoEternalKey, OrderlyUseIsSafe
<1> QED BY <1>8, <1>11, <1>12, <1>13 DEF RdInv

LEMMA InsertKeepsRd ==
  ASSUME RdInv, NEW t \in Callers, InsertsSub(t)
  PROVE  RdInv'
<1> USE DEF connVars, threadVars, keyVars
<1> DEFINE c == call[t].channel
<1>1. /\ ~ undefined /\ pc[t] = "insert" /\ pc' = [pc EXCEPT ![t] = "idle"] /\ lock' = NoCaller
      /\ hash' = {h \cup {c} : h \in hash}
      /\ UNCHANGED <<connInfo, connHd, sub, inbox, published, started, call, setter, key,
                     expireFailed, orderly, undefined>>
  BY DEF InsertsSub, Returns, At, Goto
<1>2. /\ connInfo = "live" /\ hash # {} /\ \A u \in Callers \ {t} : pc[u] = "idle"
      /\ sub[c].mem = "live"
  BY <1>1 DEF RdInv, RdOrder, CallerOk, ConnOk
<1>3. c \in Channels
  BY DEF RdInv, RdTypes
<1>4. PICK h \in SUBSET Channels : hash = {h}
  BY <1>2 DEF RdInv, RdTypes
<1>5. hash' = {h \cup {c}} /\ h \cup {c} \in SUBSET Channels
  BY <1>1, <1>3, <1>4
<1>6. \A d \in Channels : InHash(d)' <=> InHash(d) \/ d = c
  BY <1>4, <1>5 DEF InHash
<1>7. \A u \in Callers : pc'[u] = "idle"
  BY <1>1, <1>2 DEF RdInv, RdTypes
<1> HIDE DEF c
<1>8. RdTypes'
  <2>1. hash' = {} \/ \E g \in SUBSET Channels : hash' = {g}
    BY <1>5
  <2> QED BY <1>1, <2>1 DEF RdInv, RdTypes
<1>9. \A u \in Callers : CallerOk(u)'
  BY <1>7 DEF CallerOk
<1>10. \A d \in Channels : ChannelOk(d)'
  <2>1. \A d \in Channels : \A u \in Callers : pc[u] = "insert" /\ call[u].channel = d => d = c
    BY <1>2 DEF c
  <2> QED BY <1>1, <1>2, <1>6, <2>1 DEF RdInv, RdOrder, ChannelOk
<1>11. RdOrder'
  BY <1>1, <1>2, <1>9, <1>10 DEF RdInv, RdOrder, ConnOk
<1>12. (\A d \in Channels : SubOk(sub[d]))' /\ OneThreadPerChannel' /\ NoEternalKey' /\ OrderlyUseIsSafe'
  BY <1>1 DEF RdInv, OneThreadPerChannel, NoEternalKey, OrderlyUseIsSafe
<1> QED BY <1>8, <1>11, <1>12 DEF RdInv

\* What a step of a subscriber thread is to the invariant: a new record for its
\* channel, of data that may be freed.
LEMMA SubStepKeepsRd ==
  ASSUME RdInv, NEW c \in Channels, ~ undefined, NEW new \in SubRec, SubOk(new), SubStep(c, new),
         inbox' \in [Channels -> Nat], \A d \in Channels \ {c} : inbox'[d] = inbox[d],
         new.mem = sub[c].mem, new.cancelled = sub[c].cancelled,
         new.size = sub[c].size, new.funcs = sub[c].funcs,
         sub[c].mem = "freed" => ~ orderly
  PROVE  RdInv'
<1> USE DEF connVars, threadVars, keyVars
<1>1. /\ sub' = [sub EXCEPT ![c] = new] /\ undefined' = (sub[c].mem = "freed")
      /\ UNCHANGED <<connInfo, connHd, hash, lock, published, started, pc, call, setter, key, expireFailed, orderly>>
  BY DEF SubStep
<1>2. sub'[c] = new /\ (\A d \in Channels \ {c} : sub'[d] = sub[d]) /\ sub' \in [Channels -> SubRec]
  BY <1>1 DEF RdInv, RdTypes
<1>3. RdTypes'
  BY <1>1, <1>2 DEF RdInv, RdTypes
<1>4. (\A d \in Channels : SubOk(sub[d]))'
  BY <1>2 DEF RdInv
<1>5. OneThreadPerChannel' /\ NoEternalKey'
  BY <1>1 DEF RdInv, OneThreadPerChannel, NoEternalKey
<1>6. OrderlyUseIsSafe'
  BY <1>1 DEF OrderlyUseIsSafe
<1>7. RdOrder'
  <2> SUFFICES ASSUME sub[c].mem # "freed"
               PROVE  (\A t \in Callers : CallerOk(t)') /\ (\A d \in Channels : ChannelOk(d)') /\ ConnOk'
    BY <1>1 DEF RdOrder
  <2>1. ASSUME NEW t \in Callers PROVE CallerOk(t)'
    <3>1. call[t].channel \in Channels
      BY DEF RdInv, RdTypes
    <3>2. /\ sub'[call[t].channel].size = sub[call[t].channel].size
          /\ sub'[call[t].channel].funcs = sub[call[t].channel].funcs
          /\ sub'[call[t].channel].mem = sub[call[t].channel].mem
      BY <1>2, <3>1
    <3> QED BY <1>1, <3>2 DEF RdInv, RdOrder, CallerOk, InHash
  <2>2. ASSUME NEW d \in Channels PROVE ChannelOk(d)'
    BY <1>1, <1>2 DEF RdInv, RdOrder, ChannelOk, InHash
  <2>3. ConnOk'
    BY <1>1 DEF RdInv, RdOrder, ConnOk
  <2> QED BY <2>1, <2>2, <2>3
<1> QED BY <1>3, <1>4, <1>5, <1>6, <1>7 DEF RdInv

LEMMA ThreadKeepsRd ==
  ASSUME RdInv, NEW c \in Channels, Thread(c) \/ ConnectionBreaks(c)
  PROVE  RdInv'
<1> DEFINE s == sub[c]
<1>1. s \in SubRec /\ SubOk(s) /\ inbox \in [Channels -> Nat]
  BY DEF RdInv, RdTypes
<1>2. ~ undefined
  BY DEF Thread, Subscribes, Receives, Calls, CallsDone, ThreadEnds, ThreadAt, ConnectionBreaks,
            FailsAgain, Wakes
<1>3. s.mem = "freed" /\ orderly =>
        s.cancelled /\ s.thread \in {"wait", "asleep", "gone"} /\ inbox[c] = 0
  BY <1>2 DEF RdInv, RdOrder, ChannelOk
<1>4. /\ s.size \in 0 .. FuncMaxCount /\ s.due \in 0 .. FuncMaxCount /\ s.i \in 1 .. (FuncMaxCount + 1)
      /\ FuncMaxCount \in Nat
  BY <1>1, RedisAssumption DEF SubRec
<1>5. CASE Subscribes(c)
  <2>1. PICK next \in {"wait", "again"} : SubStep(c, [s EXCEPT !.thread = next])
    BY <1>5 DEF Subscribes
  <2>2. s.thread = "subscribe" /\ inbox' = inbox
    BY <1>5 DEF Subscribes, ThreadAt
  <2> DEFINE new == [s EXCEPT !.thread = next]
  <2>3. /\ new \in SubRec /\ new.mem = s.mem /\ new.cancelled = s.cancelled /\ new.size = s.size
        /\ new.funcs = s.funcs /\ new.due = s.due /\ new.i = s.i /\ new.thread = next
    BY <1>1 DEF SubRec
  <2> HIDE DEF new, s
  <2>4. SubOk(new)
    BY <1>1, <1>4, <2>2, <2>3 DEF SubOk
  <2> QED BY <1>1, <1>2, <1>3, <2>1, <2>2, <2>3, <2>4, SubStepKeepsRd DEF new, s
<1>6. CASE ConnectionBreaks(c) \/ FailsAgain(c)
  <2> DEFINE new == [s EXCEPT !.thread = "asleep"]
  <2>1. s.thread \in {"wait", "again"} /\ inbox' = inbox /\ SubStep(c, new)
    BY <1>6 DEF ConnectionBreaks, FailsAgain, ThreadAt
  <2>3. /\ new \in SubRec /\ new.mem = s.mem /\ new.cancelled = s.cancelled /\ new.size = s.size
        /\ new.funcs = s.funcs /\ new.thread = "asleep"
    BY <1>1 DEF SubRec
  <2>2. s.mem = "freed" => ~ orderly
    <3>1. CASE ConnectionBreaks(c)
      <4>1. ~ s.cancelled
        BY <3>1 DEF ConnectionBreaks
      <4> QED BY <1>3, <4>1
    <3>2. CASE FailsAgain(c)
      <4>1. s.thread = "again"
        BY <3>2 DEF FailsAgain, ThreadAt
      <4> QED BY <1>3, <4>1
    <3> QED BY <1>6, <3>1, <3>2
  <2> HIDE DEF new, s
  <2>4. SubOk(new)
    BY <1>1, <2>3 DEF SubOk
  <2> QED BY <1>1, <1>2, <2>1, <2>2, <2>3, <2>4, SubStepKeepsRd DEF s
<1>11. CASE Wakes(c)
  <2> DEFINE new == [s EXCEPT !.thread = "again"]
  <2>1. ~ s.cancelled /\ inbox' = inbox /\ SubStep(c, new)
    BY <1>11 DEF Wakes, ThreadAt
  <2>3. /\ new \in SubRec /\ new.mem = s.mem /\ new.cancelled = s.cancelled /\ new.size = s.size
        /\ new.funcs = s.funcs /\ new.thread = "again"
    BY <1>1 DEF SubRec
  <2> HIDE DEF new, s
  <2>4. SubOk(new)
    BY <1>1, <2>3 DEF SubOk
  <2> QED BY <1>1, <1>2, <1>3, <2>1, <2>3, <2>4, SubStepKeepsRd DEF s
<1>7. CASE Receives(c)
  <2> DEFINE new == [s EXCEPT !.thread = "call", !.i = 1, !.due = s.size]
  <2>1. /\ s.thread = "wait" /\ inbox[c] > 0 /\ inbox' = [inbox EXCEPT ![c] = @ - 1] /\ SubStep(c, new)
    BY <1>7 DEF Receives, ThreadAt
  <2>2. inbox' \in [Channels -> Nat] /\ \A d \in Channels \ {c} : inbox'[d] = inbox[d]
    BY <1>1, <2>1
  <2>3. /\ new \in SubRec /\ new.mem = s.mem /\ new.cancelled = s.cancelled /\ new.size = s.size
        /\ new.funcs = s.funcs /\ new.thread = "call" /\ new.due = s.size
    <3>1. s \in SubRec /\ s.size \in 0 .. FuncMaxCount /\ 1 \in 1 .. (FuncMaxCount + 1)
      BY <1>1, <1>4
    <3>2. \A n \in 0 .. FuncMaxCount, k \in 1 .. (FuncMaxCount + 1) :
            [s EXCEPT !.thread = "call", !.i = k, !.due = n] \in SubRec
      <4> HIDE DEF s
      <4> QED BY <3>1 DEF SubRec
    <3>3. new \in SubRec
      BY <3>1, <3>2
    <3> HIDE DEF s
    <3> QED BY <3>1, <3>3 DEF SubRec
  <2> HIDE DEF new, s
  <2>4. SubOk(new)
    BY <1>1, <1>4, <2>3 DEF SubOk
  <2>5. s.mem = "freed" => ~ orderly
    BY <1>3, <2>1
  <2> QED BY <1>1, <1>2, <2>1, <2>2, <2>3, <2>4, <2>5, SubStepKeepsRd DEF s
<1>8. CASE Calls(c)
  <2> DEFINE new == [s EXCEPT !.i = @ + 1]
  <2>1. s.thread = "call" /\ s.i <= s.size /\ inbox' = inbox /\ SubStep(c, new)
    BY <1>8 DEF Calls, ThreadAt, MoreCallbacks
  <2>2. s.i + 1 \in 1 .. (FuncMaxCount + 1)
    BY <1>4, <2>1
  <2>3. /\ new \in SubRec /\ new.mem = s.mem /\ new.cancelled = s.cancelled /\ new.size = s.size
        /\ new.funcs = s.funcs /\ new.thread = "call" /\ new.due = s.due
    BY <1>1, <2>1, <2>2 DEF SubRec
  <2> HIDE DEF new, s
  <2>4. SubOk(new)
    BY <1>1, <2>1, <2>3 DEF SubOk
  <2> QED BY <1>1, <1>2, <1>3, <2>1, <2>3, <2>4, SubStepKeepsRd DEF s
<1>9. CASE CallsDone(c)
  <2> DEFINE new == [s EXCEPT !.thread = ListensAgain]
  <2>1. s.thread = "call" /\ ~ (s.i <= s.size) /\ inbox' = inbox /\ SubStep(c, new)
    BY <1>9 DEF CallsDone, ThreadAt, MoreCallbacks
  <2>3. /\ new \in SubRec /\ new.mem = s.mem /\ new.cancelled = s.cancelled /\ new.size = s.size
        /\ new.funcs = s.funcs /\ new.thread = "wait" /\ new.due = s.due /\ new.i = s.i
    BY <1>1 DEF SubRec, ListensAgain
  <2> HIDE DEF new, s
  <2>4. SubOk(new)
    BY <1>1, <1>4, <2>1, <2>3 DEF SubOk
  <2> QED BY <1>1, <1>2, <1>3, <2>1, <2>3, <2>4, SubStepKeepsRd DEF s
<1>10. CASE ThreadEnds(c)
  <2> USE DEF connVars, keyVars
  <2> DEFINE new == [s EXCEPT !.thread = "gone"]
  <2>1. /\ sub' = [sub EXCEPT ![c] = new]
        /\ UNCHANGED <<connInfo, connHd, hash, lock, inbox, published, started, pc, call, setter, key,
                       expireFailed, orderly, undefined>>
    BY <1>10 DEF ThreadEnds
  <2>2. /\ new \in SubRec /\ new.mem = s.mem /\ new.cancelled = s.cancelled /\ new.size = s.size
        /\ new.funcs = s.funcs /\ new.thread = "gone"
    BY <1>1 DEF SubRec
  <2>3. sub'[c] = new /\ (\A d \in Channels \ {c} : sub'[d] = sub[d]) /\ sub' \in [Channels -> SubRec]
    BY <2>1, <2>2 DEF RdInv, RdTypes
  <2> HIDE DEF new
  <2>4. SubOk(new)
    BY <1>1, <2>2 DEF SubOk
  <2>5. RdTypes'
    BY <2>1, <2>3 DEF RdInv, RdTypes
  <2>6. ASSUME NEW t \in Callers PROVE CallerOk(t)'
    <3>1. call[t].channel \in Channels
      BY DEF RdInv, RdTypes
    <3>2. /\ sub'[call[t].channel].size = sub[call[t].channel].size
          /\ sub'[call[t].channel].funcs = sub[call[t].channel].funcs
          /\ sub'[call[t].channel].mem = sub[call[t].channel].mem
      BY <2>2, <2>3, <3>1
    <3> QED BY <1>2, <2>1, <3>2 DEF RdInv, RdOrder, CallerOk, InHash
  <2>7. ASSUME NEW d \in Channels PROVE ChannelOk(d)'
    BY <1>2, <2>1, <2>2, <2>3 DEF RdInv, RdOrder, ChannelOk, InHash
  <2>8. RdOrder'
    BY <1>2, <2>1, <2>6, <2>7 DEF RdInv, RdOrder, ConnOk
  <2>9. (\A d \in Channels : SubOk(sub[d]))'
    BY <2>3, <2>4 DEF RdInv
  <2>10. OneThreadPerChannel' /\ NoEternalKey' /\ OrderlyUseIsSafe'
    BY <2>1 DEF RdInv, OneThreadPerChannel, NoEternalKey, OrderlyUseIsSafe
  <2> QED BY <2>5, <2>8, <2>9, <2>10 DEF RdInv
<1> QED BY <1>5, <1>6, <1>7, <1>8, <1>9, <1>10, <1>11 DEF Thread

LEMMA PublishKeepsRd ==
  ASSUME RdInv, NEW c \in Channels, Publish(c)
  PROVE  RdInv'
<1> USE DEF connVars, keyVars
<1>1. /\ ~ undefined /\ sub[c].mem = "live" /\ inbox' = [inbox EXCEPT ![c] = @ + 1]
      /\ UNCHANGED <<connInfo, connHd, hash, lock, sub, started, pc, call, setter, key, expireFailed,
                     orderly, undefined>>
  BY DEF Publish
<1>2. inbox' \in [Channels -> Nat] /\ \A d \in Channels \ {c} : inbox'[d] = inbox[d]
  BY <1>1 DEF RdInv, RdTypes
<1>3. RdTypes'
  BY <1>1, <1>2 DEF RdInv, RdTypes
<1>4. \A t \in Callers : CallerOk(t)'
  BY <1>1 DEF RdInv, RdOrder, CallerOk, InHash
<1>5. \A d \in Channels : ChannelOk(d)'
  BY <1>1, <1>2 DEF RdInv, RdOrder, ChannelOk, InHash
<1>6. RdOrder'
  BY <1>1, <1>4, <1>5 DEF RdInv, RdOrder, ConnOk
<1>7. (\A d \in Channels : SubOk(sub[d]))' /\ OneThreadPerChannel' /\ NoEternalKey' /\ OrderlyUseIsSafe'
  BY <1>1 DEF RdInv, OneThreadPerChannel, NoEternalKey, OrderlyUseIsSafe
<1> QED BY <1>3, <1>6, <1>7 DEF RdInv

\* Before there is a connection the table is empty or absent, and nothing is freed.
LEMMA InitConnKeepsRd ==
  ASSUME RdInv, InitConn
  PROVE  RdInv'
<1> USE DEF threadVars, keyVars
<1>1. /\ ~ undefined /\ connInfo = "null" /\ hash' = {{}}
      /\ \/ connInfo' = "live" /\ connHd' = "live"
         \/ connInfo' = "null" /\ connHd' = "freed"
      /\ UNCHANGED <<lock, sub, inbox, published, started, pc, call, setter, key, expireFailed,
                     orderly, undefined>>
  BY DEF InitConn
<1>8. \A t \in Callers : pc[t] # "idle" => pc[t] = "lookup" /\ lock = t /\ ~ orderly
  BY <1>1 DEF RdInv, RdOrder, CallerOk
<1>2. \A c \in Channels : ~ InHash(c) /\ ~ InHash(c)' /\ sub[c].mem # "freed" /\ ~ (started[c] > 0)
  BY <1>1, <1>8 DEF RdInv, RdOrder, ChannelOk, InHash
<1>3. RdTypes'
  BY <1>1 DEF RdInv, RdTypes
<1>4. \A t \in Callers : CallerOk(t)'
  BY <1>1, <1>8 DEF CallerOk
<1>5. \A c \in Channels : ChannelOk(c)'
  BY <1>1, <1>2 DEF ChannelOk
<1>6. RdOrder'
  BY <1>1, <1>4, <1>5 DEF RdInv, RdOrder, ConnOk
<1>7. (\A c \in Channels : SubOk(sub[c]))' /\ OneThreadPerChannel' /\ NoEternalKey' /\ OrderlyUseIsSafe'
  BY <1>1 DEF RdInv, OneThreadPerChannel, NoEternalKey, OrderlyUseIsSafe
<1> QED BY <1>3, <1>6, <1>7 DEF RdInv

LEMMA DestoryKeepsRd ==
  ASSUME RdInv, DestoryConn
  PROVE  RdInv'
<1> USE DEF keyVars
<1>1. /\ ~ undefined /\ hash' = {} /\ connHd' = "freed"
      /\ undefined' = (lock # NoCaller \/ hash = {} \/ connHd = "freed")
      /\ sub' = [c \in Channels |-> IF InHash(c) THEN ValueDestroyed(sub[c]) ELSE sub[c]]
      /\ connInfo' = IF connInfo = "null" THEN "null" ELSE "freed"
      /\ UNCHANGED <<lock, inbox, published, started, pc, call, setter, key, expireFailed>>
  BY DEF DestoryConn
<1>2. orderly' = (orderly /\ connInfo = "live" /\ lock = NoCaller /\ AllBlocked)
  BY DEF DestoryConn
<1>9. AllBlocked => \A c \in Channels : InHash(c) => sub[c].thread \in {"wait", "asleep"} /\ inbox[c] = 0
  BY DEF AllBlocked
<1>3. ASSUME NEW c \in Channels
      PROVE  /\ sub'[c] \in SubRec /\ SubOk(sub[c])'
             /\ InHash(c) => sub'[c].mem = "freed" /\ sub'[c].cancelled /\ sub'[c].thread = sub[c].thread
             /\ ~ InHash(c) => sub'[c] = sub[c]
  <2> DEFINE s == sub[c]
             new == ValueDestroyed(s)
  <2>1. s \in SubRec /\ SubOk(s)
    BY DEF RdInv, RdTypes
  <2>2. /\ new \in SubRec /\ new.mem = "freed" /\ new.cancelled /\ new.thread = s.thread
        /\ new.size = s.size /\ new.funcs = s.funcs /\ new.i = s.i /\ new.due = s.due
    BY <2>1 DEF ValueDestroyed, SubRec
  <2>3. sub'[c] = IF InHash(c) THEN new ELSE s
    BY <1>1
  <2> HIDE DEF new, s
  <2>4. SubOk(new)
    BY <2>1, <2>2 DEF SubOk
  <2> QED BY <2>1, <2>2, <2>3, <2>4 DEF s
<1>4. hash # {} => connInfo # "freed"
  BY <1>1 DEF RdInv, RdOrder, ConnOk
<1>5. RdTypes'
  <2>1. sub' \in [Channels -> SubRec]
    BY <1>1, <1>3
  <2>2. orderly' \in BOOLEAN
    BY <1>2
  <2>3. undefined' \in BOOLEAN
    BY <1>1
  <2> QED BY <1>1, <2>1, <2>2, <2>3 DEF RdInv, RdTypes
<1>6. OrderlyUseIsSafe'
  <2>1. connInfo = "live" => hash # {} /\ connHd # "freed"
    BY <1>1 DEF RdInv, RdOrder, ConnOk
  <2> QED BY <1>1, <1>2, <2>1 DEF OrderlyUseIsSafe
<1>7. RdOrder'
  <2> SUFFICES ASSUME lock = NoCaller, hash # {}
               PROVE  (\A t \in Callers : CallerOk(t)') /\ (\A d \in Channels : ChannelOk(d)') /\ ConnOk'
    BY <1>1 DEF RdOrder
  <2>1. \A t \in Callers : pc[t] = "idle"
    BY <1>1, RedisAssumption DEF RdInv, RdOrder, CallerOk
  <2>2. \A t \in Callers : CallerOk(t)'
    BY <1>1, <2>1 DEF CallerOk
  <2>3. ASSUME NEW d \in Channels PROVE ChannelOk(d)'
    <3>1. ~ InHash(d)'
      BY <1>1 DEF InHash
    <3>2. ChannelOk(d) /\ (InHash(d) => connInfo' = "freed")
      BY <1>1 DEF RdInv, RdOrder, ChannelOk
    <3>3. sub'[d].mem = "freed" => InHash(d)
      BY <1>3, <1>4, <3>2 DEF ChannelOk
    <3>4. started'[d] > 0 => connInfo' = "freed"
      BY <1>1, <2>1, <3>2 DEF ChannelOk
    <3>5. sub'[d].mem = "freed" =>
            /\ connInfo' = "freed" /\ sub'[d].cancelled
            /\ orderly' => sub'[d].thread \in {"wait", "asleep", "gone"} /\ inbox'[d] = 0
      BY <1>1, <1>2, <1>3, <1>9, <3>2, <3>3
    <3> QED BY <3>1, <3>4, <3>5 DEF ChannelOk
  <2>4. ConnOk'
    BY <1>1 DEF ConnOk
  <2> QED BY <2>2, <2>3, <2>4
<1>8. OneThreadPerChannel' /\ NoEternalKey'
  BY <1>1 DEF RdInv, OneThreadPerChannel, NoEternalKey
<1> QED BY <1>3, <1>5, <1>6, <1>7, <1>8 DEF RdInv

LEMMA KeyKeepsRd ==
  ASSUME RdInv, SetKey \/ ExpireKey
  PROVE  RdInv'
<1> USE DEF connVars, threadVars
<1>1. /\ ~ undefined /\ undefined' \in BOOLEAN /\ orderly' \in BOOLEAN
      /\ orderly' => orderly /\ ~ undefined'
      /\ UNCHANGED <<connInfo, connHd, hash, lock, sub, inbox, published, started, pc, call>>
  <2>1. CASE SetKey
    BY <2>1 DEF SetKey, RdInv, RdTypes
  <2>2. CASE ExpireKey
    BY <2>2 DEF ExpireKey, RdInv, RdTypes
  <2> QED BY <2>1, <2>2
<1>2. RdTypes' /\ NoEternalKey'
  <2>1. CASE SetKey
    <3>1. key' \in {"forever", key} /\ setter' = "expire" /\ expireFailed' = expireFailed
      BY <2>1 DEF SetKey, SetThenExpire
    <3> QED BY <1>1, <3>1 DEF RdInv, RdTypes, NoEternalKey
  <2>2. CASE ExpireKey
    <3>1. \/ key' = (IF key = "forever" THEN "ttl" ELSE key) /\ expireFailed' = FALSE
          \/ expireFailed' = TRUE /\ key' = key
      BY <2>2 DEF ExpireKey, SetThenExpire
    <3>2. key' \in {"none", "forever", "ttl"} /\ expireFailed' \in BOOLEAN
      BY <3>1 DEF RdInv, RdTypes
    <3>3. RdTypes'
      BY <1>1, <2>2, <3>2 DEF RdInv, RdTypes, ExpireKey
    <3>4. NoEternalKey'
      BY <3>1 DEF NoEternalKey
    <3> QED BY <3>3, <3>4
  <2> QED BY <2>1, <2>2
<1>3. RdOrder'
  BY <1>1 DEF RdInv, RdOrder, ConnOk, CallerOk, ChannelOk, InHash
<1>4. (\A d \in Channels : SubOk(sub[d]))' /\ OneThreadPerChannel'
  BY <1>1 DEF RdInv, OneThreadPerChannel
<1>5. OrderlyUseIsSafe'
  BY <1>1 DEF OrderlyUseIsSafe
<1> QED BY <1>2, <1>3, <1>4, <1>5 DEF RdInv

LEMMA RdStep == RdInv /\ [RedisNext]_rdVars => RdInv'
<1> SUFFICES ASSUME RdInv, [RedisNext]_rdVars PROVE RdInv'
  OBVIOUS
<1>1. CASE InitConnAgain \/ UNCHANGED rdVars
  <2>1. UNCHANGED rdVars
    BY <1>1 DEF InitConnAgain
  <2> USE <2>1 DEF rdVars, connVars, threadVars, keyVars
  <2>2. RdTypes' /\ (\A c \in Channels : SubOk(sub[c]))'
    BY DEF RdInv, RdTypes
  <2>3. OneThreadPerChannel' /\ NoEternalKey' /\ OrderlyUseIsSafe'
    BY DEF RdInv, OneThreadPerChannel, NoEternalKey, OrderlyUseIsSafe
  <2>4. RdOrder'
    BY DEF RdInv, RdOrder, ConnOk, CallerOk, ChannelOk, InHash
  <2> QED BY <2>2, <2>3, <2>4 DEF RdInv
<1>2. CASE InitConn
  BY <1>2, InitConnKeepsRd
<1>3. CASE DestoryConn
  BY <1>3, DestoryKeepsRd
<1>4. CASE SetKey \/ ExpireKey
  BY <1>4, KeyKeepsRd
<1>5. ASSUME NEW t \in Callers, Subscriber(t) PROVE RdInv'
  <2>1. CASE ListFull(t)
    BY <2>1, ReturnKeepsRd DEF ListFull, At
  <2>2. CASE SubscribeFails(t)
    BY <2>2, ReturnKeepsRd DEF SubscribeFails, At
  <2> QED BY <1>5, <2>1, <2>2, AddKeepsRd, CountKeepsRd, ConnectKeepsRd, CreateKeepsRd, InsertKeepsRd
          DEF Subscriber
<1>6. ASSUME NEW t \in Callers, NEW c \in Channels, SubscribeLocks(t, c) PROVE RdInv'
  BY <1>6, LockKeepsRd
<1>7. ASSUME NEW c \in Channels, Thread(c) \/ ConnectionBreaks(c) PROVE RdInv'
  BY <1>7, ThreadKeepsRd
<1>8. ASSUME NEW c \in Channels, Publish(c) PROVE RdInv'
  BY <1>8, PublishKeepsRd
<1> QED BY <1>1, <1>2, <1>3, <1>4, <1>5, <1>6, <1>7, <1>8 DEF RedisNext

LEMMA RdInvImplies == RdInv => RedisInv
<1> SUFFICES ASSUME RdInv PROVE RedisInv
  OBVIOUS
<1>1. \A c \in Channels : sub[c] \in SubRec /\ SubOk(sub[c])
  BY DEF RdInv, RdTypes
<1>2. hash \subseteq SUBSET Channels /\ Cardinality(hash) <= 1
  <2>1. CASE hash = {}
    BY <2>1, FS_EmptySet
  <2>2. CASE \E h \in SUBSET Channels : hash = {h}
    <3>1. PICK h \in SUBSET Channels : hash = {h}
      BY <2>2
    <3> QED BY <3>1, FS_Singleton
  <2> QED BY <2>1, <2>2 DEF RdInv, RdTypes
<1>3. RedisTypeOK
  BY <1>1, <1>2 DEF RdInv, RdTypes, RedisTypeOK, SubRec
<1>4. CallbacksReady
  <2> SUFFICES ASSUME NEW c \in Channels, MoreCallbacks(c) PROVE sub[c].funcs[sub[c].i]
    BY DEF CallbacksReady
  <2>1. sub[c].i \in 1 .. sub[c].size
    BY <1>1, RedisAssumption DEF SubRec, MoreCallbacks
  <2> QED BY <1>1, <2>1 DEF SubOk
<1>5. EveryCallbackCalled
  BY <1>1 DEF EveryCallbackCalled, SubOk
<1> QED BY <1>3, <1>4, <1>5 DEF RdInv, RedisInv

\* redis_opt.c: with any number of callers, channels and messages, in any
\* interleaving of init_subscribe(), the subscriber threads and
\* destory_redis_conn(), a channel gets one thread, which calls all the callbacks of
\* a message and none that is not there.  Freed memory and null pointers are used
\* only after one of the calls out of order that OrderlyUseIsSafe names, and a key is
\* without a time to live between two calls only if the EXPIRE of the last one failed.
THEOREM SubscribersAreServed == RedisSpec => []RedisInv
<1>1. RedisSpec => []RdInv
  BY RdInitially, RdStep, PTL DEF RedisSpec
<1> QED BY <1>1, RdInvImplies, PTL

-----------------------------------------------------------------------------
(* csort *)

\* The rule for a loop that counts up: what holds of the bounds before it and is kept
\* by each round holds after it.
LEMMA ForUpRule ==
  ASSUME NEW a \in Int, NEW b \in Int, a - 1 <= b, NEW T, NEW t, NEW body,
         NEW Inv \in SUBSET (Int \X T), <<a - 1, t>> \in Inv,
         \A i \in a .. b, u \in T : <<i - 1, u>> \in Inv => <<i, body[i][u]>> \in Inv
  PROVE  <<b, ForUp(a, b, t, body)>> \in Inv
<1>1. CASE b < a
  BY <1>1 DEF ForUp
<1>2. CASE a <= b
  <2> DEFINE n == b - a + 1
             step == [p \in (1 .. n) \X T |->
                        IF body[p[1] + a - 1][p[2]] \in T THEN body[p[1] + a - 1][p[2]] ELSE t]
  <2>1. n \in Nat /\ t \in T /\ step \in [(1 .. n) \X T -> T]
    BY <1>2
  <2>2. \A i \in 1 .. n, u \in T : <<i + a - 1 - 1, u>> \in Inv =>
          step[<<i, u>>] = body[i + a - 1][u] /\ <<i + a - 1, step[<<i, u>>]>> \in Inv
    <3>1. SUFFICES ASSUME NEW i \in 1 .. n, NEW u \in T, <<i + a - 1 - 1, u>> \in Inv
                   PROVE  step[<<i, u>>] = body[i + a - 1][u] /\ <<i + a - 1, step[<<i, u>>]>> \in Inv
      OBVIOUS
    <3>2. PICK k \in a .. b : k = i + a - 1 /\ k - 1 = i + a - 1 - 1
      OBVIOUS
    <3>3. <<k, body[k][u]>> \in Inv /\ body[k][u] \in T
      BY <3>1, <3>2
    <3> QED BY <3>1, <3>2, <3>3
  <2> HIDE DEF step
  <2>3. PICK f \in [0 .. n -> T] : ListFollows(f, n, t, step)
    <3> HIDE DEF n
    <3> QED BY <2>1, ListRecursion
  <2> DEFINE P == {i \in Nat : i \in 0 .. n => <<i + a - 1, f[i]>> \in Inv}
  <2>4. \A i \in 0 .. n : i \in P
    <3>1. 0 \in P
      <4>1. f[0] = t /\ 0 + a - 1 = a - 1
        BY <2>3 DEF ListFollows
      <4> QED BY <4>1
    <3>2. ASSUME NEW i \in 1 .. n, i - 1 \in P PROVE i \in P
      <4>1. i - 1 \in 0 .. n /\ (i - 1) + a - 1 = i + a - 1 - 1
        OBVIOUS
      <4>2. <<i + a - 1 - 1, f[i - 1]>> \in Inv /\ f[i - 1] \in T
        BY <3>2, <4>1
      <4>3. f[i] = step[<<i, f[i - 1]>>]
        BY <2>3 DEF ListFollows
      <4>4. <<i + a - 1, f[i]>> \in Inv
        BY <2>2, <4>2, <4>3
      <4> QED BY <4>4
    <3>3. P \in SUBSET Nat
      OBVIOUS
    <3> HIDE DEF P, n
    <3> QED BY <2>1, <3>1, <3>2, <3>3, ListInduction
  <2> DEFINE Loop(r) == [i \in a .. b |-> body[i][IF i = a THEN t ELSE r[i - 1]]]
             g == [i \in a .. b |-> f[i - a + 1]]
             r == CHOOSE r : r = Loop(r)
  <2>5. ASSUME NEW i \in a .. b PROVE g[i] = body[i][IF i = a THEN t ELSE g[i - 1]]
    <3>1. PICK k \in 1 .. n : k = i - a + 1 /\ k + a - 1 = i /\ k - 1 \in 0 .. n
                              /\ (k - 1) + a - 1 = k + a - 1 - 1 /\ (i - 1) - a + 1 = k - 1
      <4>1. PICK k \in Int : k = i - a + 1
        OBVIOUS
      <4>2. k \in 1 .. n /\ k - 1 \in 0 .. n
        BY <4>1
      <4>3. k + a - 1 = i /\ (k - 1) + a - 1 = k + a - 1 - 1
        BY <4>1
      <4>4. (i - 1) - a + 1 = k - 1
        BY <4>1
      <4> HIDE DEF n
      <4> QED BY <4>1, <4>2, <4>3, <4>4
    <3>2. k - 1 \in P
      BY <2>4, <3>1
    <3>3. <<k + a - 1 - 1, f[k - 1]>> \in Inv /\ f[k - 1] \in T
      BY <3>1, <3>2
    <3>4. step[<<k, f[k - 1]>>] = body[k + a - 1][f[k - 1]]
      BY <2>2, <3>3
    <3>5. f[k] = body[i][f[k - 1]]
      BY <2>3, <3>1, <3>4 DEF ListFollows
    <3>6. CASE i = a
      <4>1. k = 1 /\ f[k - 1] = t
        <5>1. f[0] = t
          BY <2>3 DEF ListFollows
        <5>2. k = 1
          BY <3>1, <3>6
        <5>3. k - 1 = 0
          BY <5>2
        <5> QED BY <5>1, <5>2, <5>3
      <4> QED BY <3>1, <3>5, <3>6, <4>1
    <3>7. CASE i # a
      <4>1. i - 1 \in a .. b /\ (i - 1) - a + 1 = k - 1
        <5>1. i - 1 \in a .. b
          BY <3>7
        <5> QED BY <3>1, <5>1
      <4> QED BY <3>1, <3>5, <3>7, <4>1
    <3> QED BY <3>6, <3>7
  <2>6. g = Loop(g)
    BY <2>5
  <2>7. r = Loop(r)
    <3> HIDE DEF g, Loop
    <3> QED BY <2>6
  <2>8. ForUp(a, b, t, body) = r[b]
    BY <1>2 DEF ForUp
  <2> HIDE DEF r, g, P
  <2> DEFINE R == {i \in Nat : i \in 1 .. n => <<i + a - 1, r[i + a - 1]>> \in Inv}
  <2>9. ASSUME NEW i \in a .. b, IF i = a THEN TRUE ELSE <<i - 1, r[i - 1]>> \in Inv
        PROVE  <<i, r[i]>> \in Inv
    <3>1. r[i] = body[i][IF i = a THEN t ELSE r[i - 1]]
      BY <2>7
    <3>2. CASE i = a
      BY <3>1, <3>2
    <3>3. CASE i # a
      <4>1. <<i - 1, r[i - 1]>> \in Inv
        BY <2>9, <3>3
      <4>2. r[i - 1] \in T
        BY <4>1
      <4> QED BY <3>1, <3>3, <4>1, <4>2
    <3> QED BY <3>2, <3>3
  <2>10. \A i \in 0 .. n : i \in R
    <3>1. 0 \in R
      OBVIOUS
    <3>2. ASSUME NEW i \in 1 .. n, i - 1 \in R PROVE i \in R
      <4>1. PICK k \in a .. b : k = i + a - 1 /\ k - 1 = (i - 1) + a - 1
        OBVIOUS
      <4>2. k # a => i - 1 \in 1 .. n
        BY <4>1
      <4>3. k # a => <<k - 1, r[k - 1]>> \in Inv
        BY <3>2, <4>1, <4>2
      <4>4. <<k, r[k]>> \in Inv
        BY <2>9, <4>3
      <4> QED BY <4>1, <4>4
    <3>3. R \in SUBSET Nat
      OBVIOUS
    <3> HIDE DEF R, n
    <3> QED BY <2>1, <3>1, <3>2, <3>3, ListInduction
  <2>11. n \in 0 .. n /\ n \in 1 .. n /\ n + a - 1 = b
    BY <1>2
  <2> QED BY <2>8, <2>10, <2>11
<1> QED BY <1>1, <1>2

\* The same for a loop that counts down.
LEMMA ForDownRule ==
  ASSUME NEW a \in Int, NEW b \in Int, b <= a + 1, NEW T, NEW t, NEW body,
         NEW Inv \in SUBSET (Int \X T), <<a + 1, t>> \in Inv,
         \A i \in b .. a, u \in T : <<i + 1, u>> \in Inv => <<i, body[i][u]>> \in Inv
  PROVE  <<b, ForDown(a, b, t, body)>> \in Inv
<1>1. CASE a < b
  BY <1>1 DEF ForDown
<1>2. CASE b <= a
  <2> DEFINE n == a - b + 1
             step == [p \in (1 .. n) \X T |->
                        IF body[a + 1 - p[1]][p[2]] \in T THEN body[a + 1 - p[1]][p[2]] ELSE t]
  <2>1. n \in Nat /\ t \in T /\ step \in [(1 .. n) \X T -> T]
    BY <1>2
  <2>2. \A i \in 1 .. n, u \in T : <<a + 1 - i + 1, u>> \in Inv =>
          step[<<i, u>>] = body[a + 1 - i][u] /\ <<a + 1 - i, step[<<i, u>>]>> \in Inv
    <3>1. SUFFICES ASSUME NEW i \in 1 .. n, NEW u \in T, <<a + 1 - i + 1, u>> \in Inv
                   PROVE  step[<<i, u>>] = body[a + 1 - i][u] /\ <<a + 1 - i, step[<<i, u>>]>> \in Inv
      OBVIOUS
    <3>2. PICK k \in b .. a : k = a + 1 - i /\ k + 1 = a + 1 - i + 1
      OBVIOUS
    <3>3. <<k, body[k][u]>> \in Inv /\ body[k][u] \in T
      BY <3>1, <3>2
    <3> QED BY <3>1, <3>2, <3>3
  <2> HIDE DEF step
  <2>3. PICK f \in [0 .. n -> T] : ListFollows(f, n, t, step)
    <3> HIDE DEF n
    <3> QED BY <2>1, ListRecursion
  <2> DEFINE P == {i \in Nat : i \in 0 .. n => <<a + 1 - i, f[i]>> \in Inv}
  <2>4. \A i \in 0 .. n : i \in P
    <3>1. 0 \in P
      <4>1. f[0] = t /\ a + 1 - 0 = a + 1
        BY <2>3 DEF ListFollows
      <4> QED BY <4>1
    <3>2. ASSUME NEW i \in 1 .. n, i - 1 \in P PROVE i \in P
      <4>1. i - 1 \in 0 .. n /\ a + 1 - (i - 1) = a + 1 - i + 1
        OBVIOUS
      <4>2. <<a + 1 - i + 1, f[i - 1]>> \in Inv /\ f[i - 1] \in T
        BY <3>2, <4>1
      <4>3. f[i] = step[<<i, f[i - 1]>>]
        BY <2>3 DEF ListFollows
      <4>4. <<a + 1 - i, f[i]>> \in Inv
        BY <2>2, <4>2, <4>3
      <4> QED BY <4>4
    <3>3. P \in SUBSET Nat
      OBVIOUS
    <3> HIDE DEF P, n
    <3> QED BY <2>1, <3>1, <3>2, <3>3, ListInduction
  <2> DEFINE Loop(r) == [i \in b .. a |-> body[i][IF i = a THEN t ELSE r[i + 1]]]
             g == [i \in b .. a |-> f[a - i + 1]]
             r == CHOOSE r : r = Loop(r)
  <2>5. ASSUME NEW i \in b .. a PROVE g[i] = body[i][IF i = a THEN t ELSE g[i + 1]]
    <3>1. PICK k \in 1 .. n : k = a - i + 1 /\ a + 1 - k = i /\ k - 1 \in 0 .. n
                              /\ a + 1 - (k - 1) = a + 1 - k + 1 /\ a - (i + 1) + 1 = k - 1
      <4>1. PICK k \in Int : k = a - i + 1
        OBVIOUS
      <4>2. k \in 1 .. n /\ k - 1 \in 0 .. n
        BY <4>1
      <4>3. a + 1 - k = i /\ a + 1 - (k - 1) = a + 1 - k + 1
        BY <4>1
      <4>4. a - (i + 1) + 1 = k - 1
        BY <4>1
      <4> HIDE DEF n
      <4> QED BY <4>1, <4>2, <4>3, <4>4
    <3>2. k - 1 \in P
      BY <2>4, <3>1
    <3>3. <<a + 1 - k + 1, f[k - 1]>> \in Inv /\ f[k - 1] \in T
      BY <3>1, <3>2
    <3>4. step[<<k, f[k - 1]>>] = body[a + 1 - k][f[k - 1]]
      BY <2>2, <3>3
    <3>5. f[k] = body[i][f[k - 1]]
      BY <2>3, <3>1, <3>4 DEF ListFollows
    <3>6. CASE i = a
      <4>1. k = 1 /\ f[k - 1] = t
        <5>1. f[0] = t
          BY <2>3 DEF ListFollows
        <5>2. k = 1
          BY <3>1, <3>6
        <5>3. k - 1 = 0
          BY <5>2
        <5> QED BY <5>1, <5>2, <5>3
      <4> QED BY <3>1, <3>5, <3>6, <4>1
    <3>7. CASE i # a
      <4>1. i + 1 \in b .. a /\ a - (i + 1) + 1 = k - 1
        <5>1. i + 1 \in b .. a
          BY <3>7
        <5> QED BY <3>1, <5>1
      <4> QED BY <3>1, <3>5, <3>7, <4>1
    <3> QED BY <3>6, <3>7
  <2>6. g = Loop(g)
    BY <2>5
  <2>7. r = Loop(r)
    <3> HIDE DEF g, Loop
    <3> QED BY <2>6
  <2>8. ForDown(a, b, t, body) = r[b]
    BY <1>2 DEF ForDown
  <2> HIDE DEF r, g, P
  <2> DEFINE R == {i \in Nat : i \in 1 .. n => <<a + 1 - i, r[a + 1 - i]>> \in Inv}
  <2>9. ASSUME NEW i \in b .. a, IF i = a THEN TRUE ELSE <<i + 1, r[i + 1]>> \in Inv
        PROVE  <<i, r[i]>> \in Inv
    <3>1. r[i] = body[i][IF i = a THEN t ELSE r[i + 1]]
      BY <2>7
    <3>2. CASE i = a
      BY <3>1, <3>2
    <3>3. CASE i # a
      <4>1. <<i + 1, r[i + 1]>> \in Inv
        BY <2>9, <3>3
      <4>2. r[i + 1] \in T
        BY <4>1
      <4> QED BY <3>1, <3>3, <4>1, <4>2
    <3> QED BY <3>2, <3>3
  <2>10. \A i \in 0 .. n : i \in R
    <3>1. 0 \in R
      OBVIOUS
    <3>2. ASSUME NEW i \in 1 .. n, i - 1 \in R PROVE i \in R
      <4>1. PICK k \in b .. a : k = a + 1 - i /\ k + 1 = a + 1 - (i - 1)
        OBVIOUS
      <4>2. k # a => i - 1 \in 1 .. n
        BY <4>1
      <4>3. k # a => <<k + 1, r[k + 1]>> \in Inv
        BY <3>2, <4>1, <4>2
      <4>4. <<k, r[k]>> \in Inv
        BY <2>9, <4>3
      <4> QED BY <4>1, <4>4
    <3>3. R \in SUBSET Nat
      OBVIOUS
    <3> HIDE DEF R, n
    <3> QED BY <2>1, <3>1, <3>2, <3>3, ListInduction
  <2>11. n \in 0 .. n /\ n \in 1 .. n /\ a + 1 - n = b
    BY <1>2
  <2> QED BY <2>8, <2>10, <2>11
<1> QED BY <1>1, <1>2

\* An array of n elements.
LEMMA ArrayOfN ==
  ASSUME NEW n \in Nat, NEW s \in [1 .. n -> Element]
  PROVE  s \in Seq(Element) /\ Len(s) = n /\ DOMAIN s = 1 .. n /\ Array(s) = [1 .. n -> Element]
<1>1. s \in Seq(Element) /\ Len(s) = n /\ DOMAIN s = 1 .. n
  OBVIOUS
<1> QED BY <1>1 DEF Array

\* Keys can be compared.
LEMMA ElementKey ==
  ASSUME NEW e \in Element
  PROVE  e.key \in Int /\ e.id \in Nat
BY CsortAssumption DEF Element

\* An exchange loses no element.
LEMMA SwapKeeps ==
  ASSUME NEW n \in Nat, NEW s \in [1 .. n -> Element], NEW i \in 0 .. n - 1, NEW j \in 0 .. n - 1
  PROVE  /\ Swap(s, i, j) \in [1 .. n -> Element]
         /\ Range(Swap(s, i, j)) = Range(s)
         /\ \A x \in 1 .. n : Swap(s, i, j)[x] = IF x = j + 1 THEN s[i + 1]
                                                 ELSE IF x = i + 1 THEN s[j + 1] ELSE s[x]
<1> DEFINE w == Swap(s, i, j)
<1>1. i + 1 \in 1 .. n /\ j + 1 \in 1 .. n
  OBVIOUS
<1>2. w \in [1 .. n -> Element]
  BY <1>1 DEF Swap
<1>3. \A x \in 1 .. n : w[x] = IF x = j + 1 THEN s[i + 1] ELSE IF x = i + 1 THEN s[j + 1] ELSE s[x]
  BY <1>1 DEF Swap
<1>4. DOMAIN w = 1 .. n /\ DOMAIN s = 1 .. n
  BY <1>2
<1> HIDE DEF w
<1>5. ASSUME NEW x \in 1 .. n PROVE (\E y \in 1 .. n : s[y] = w[x]) /\ (\E y \in 1 .. n : w[y] = s[x])
  <2>1. w[j + 1] = s[i + 1] /\ w[i + 1] = s[j + 1]
    BY <1>1, <1>3
  <2> QED BY <1>1, <1>3, <2>1
<1>6. Range(w) = Range(s)
  <2>1. Range(w) = {w[x] : x \in 1 .. n} /\ Range(s) = {s[x] : x \in 1 .. n}
    BY <1>4 DEF Range
  <2>2. \A x \in 1 .. n : w[x] \in {s[y] : y \in 1 .. n} /\ s[x] \in {w[y] : y \in 1 .. n}
    BY <1>5
  <2>3. {w[x] : x \in 1 .. n} = {s[x] : x \in 1 .. n}
    BY <2>2
  <2> QED BY <2>1, <2>3
<1> QED BY <1>2, <1>3, <1>6 DEF w

\* What a hole is, for an array of n elements.
LEMMA HoleOfN ==
  ASSUME NEW n \in Nat, NEW s \in [1 .. n -> Element], NEW h \in Hole(s)
  PROVE  h.array \in [1 .. n -> Element] /\ h.at \in 0 .. n - 1 /\ h.at + 1 \in 1 .. n
<1>1. h.array \in [1 .. n -> Element] /\ h.at \in 0 .. n - 1
  BY ArrayOfN DEF Hole
<1> QED BY <1>1

\* What filling a hole gives.
LEMMA FilledHole ==
  ASSUME NEW n \in Nat, NEW s \in [1 .. n -> Element], NEW h \in Hole(s), NEW e \in Element
  PROVE  /\ FillHole(h, e) \in [1 .. n -> Element]
         /\ \A x \in 1 .. n : FillHole(h, e)[x] = IF x = h.at + 1 THEN e ELSE h.array[x]
BY HoleOfN DEF FillHole

\* Moving the hole exchanges its place with the one the element comes from.
LEMMA MoveKeeps ==
  ASSUME NEW n \in Nat, NEW s \in [1 .. n -> Element], NEW h \in Hole(s), NEW e \in Element,
         NEW j \in 0 .. n - 1, j # h.at
  PROVE  /\ MoveFrom(h, j) \in Hole(s) /\ MoveFrom(h, j).at = j
         /\ \A x \in 1 .. n : MoveFrom(h, j).array[x] = IF x = h.at + 1 THEN h.array[j + 1] ELSE h.array[x]
         /\ FillHole(MoveFrom(h, j), e) = Swap(FillHole(h, e), h.at, j)
         /\ Range(FillHole(MoveFrom(h, j), e)) = Range(FillHole(h, e))
<1> DEFINE m == MoveFrom(h, j)
           f == FillHole(h, e)
<1>1. h.array \in [1 .. n -> Element] /\ h.at \in 0 .. n - 1 /\ h.at + 1 \in 1 .. n /\ j + 1 \in 1 .. n
  BY HoleOfN
<1>2. m.array = [h.array EXCEPT ![h.at + 1] = h.array[j + 1]] /\ m.at = j
  BY DEF MoveFrom
<1>3. m.array \in [1 .. n -> Element]
  BY <1>1, <1>2
<1>4. \A x \in 1 .. n : m.array[x] = IF x = h.at + 1 THEN h.array[j + 1] ELSE h.array[x]
  BY <1>1, <1>2
<1>5. m \in Hole(s)
  BY <1>3, ArrayOfN DEF Hole, MoveFrom
<1>6. f \in [1 .. n -> Element] /\ \A x \in 1 .. n : f[x] = IF x = h.at + 1 THEN e ELSE h.array[x]
  <2>1. f = [h.array EXCEPT ![h.at + 1] = e]
    BY DEF FillHole
  <2> QED BY <1>1, <2>1
<1>7. FillHole(m, e) \in [1 .. n -> Element]
      /\ \A x \in 1 .. n : FillHole(m, e)[x] = IF x = m.at + 1 THEN e ELSE m.array[x]
  <2>1. FillHole(m, e) = [m.array EXCEPT ![m.at + 1] = e]
    BY DEF FillHole
  <2> HIDE DEF m
  <2> QED BY <1>1, <1>2, <1>3, <2>1
<1> HIDE DEF m, f
<1>8. /\ Swap(f, h.at, j) \in [1 .. n -> Element] /\ Range(Swap(f, h.at, j)) = Range(f)
      /\ \A x \in 1 .. n : Swap(f, h.at, j)[x] = IF x = j + 1 THEN f[h.at + 1]
                                                 ELSE IF x = h.at + 1 THEN f[j + 1] ELSE f[x]
  <2>1. PICK p \in 0 .. n - 1 : p = h.at
    BY <1>1
  <2>2. /\ Swap(f, p, j) \in [1 .. n -> Element] /\ Range(Swap(f, p, j)) = Range(f)
        /\ \A x \in 1 .. n : Swap(f, p, j)[x] = IF x = j + 1 THEN f[p + 1]
                                                ELSE IF x = p + 1 THEN f[j + 1] ELSE f[x]
    <3>1. PICK g \in [1 .. n -> Element] : g = f
      BY <1>6
    <3>2. /\ Swap(g, p, j) \in [1 .. n -> Element] /\ Range(Swap(g, p, j)) = Range(g)
          /\ \A x \in 1 .. n : Swap(g, p, j)[x] = IF x = j + 1 THEN g[p + 1]
                                                  ELSE IF x = p + 1 THEN g[j + 1] ELSE g[x]
      BY SwapKeeps
    <3> QED BY <3>1, <3>2
  <2> QED BY <2>1, <2>2
<1>9. ASSUME NEW x \in 1 .. n PROVE FillHole(m, e)[x] = Swap(f, h.at, j)[x]
  BY <1>1, <1>2, <1>4, <1>6, <1>7, <1>8
<1>10. FillHole(m, e) = Swap(f, h.at, j)
  BY <1>7, <1>8, <1>9
<1> QED BY <1>2, <1>4, <1>5, <1>8, <1>10 DEF m, f

\* Sinking keeps the elements, and what is above ori[i].
LEMMA SinkKeeps ==
  ASSUME NEW n \in Nat, NEW s \in [1 .. n -> Element], NEW i \in 0 .. n - 1, NEW d \in Nat \ {0},
         NEW passable
  PROVE  /\ Sink(s, i, d, passable) \in [1 .. n -> Element]
         /\ Range(Sink(s, i, d, passable)) = Range(s)
<1> DEFINE e == s[i + 1]
           start == [array |-> s, at |-> i]
           round == [k \in 1 .. i |-> [h \in Hole(s) |->
                  IF h.at >= d /\ h.at - d \in passable THEN MoveFrom(h, h.at - d) ELSE h]]
           Inv == {p \in Int \X Hole(s) : Range(FillHole(p[2], e)) = Range(s)}
<1>1. e \in Element /\ start \in Hole(s)
  BY ArrayOfN DEF Hole
<1>2. FillHole(start, e) = s
  BY DEF FillHole
<1>3. <<1 - 1, start>> \in Inv
  BY <1>1, <1>2
<1>4. ASSUME NEW k \in 1 .. i, NEW h \in Hole(s), <<k - 1, h>> \in Inv PROVE <<k, round[k][h]>> \in Inv
  <2>1. h.at \in 0 .. n - 1 /\ Range(FillHole(h, e)) = Range(s)
    BY <1>1, <1>4, HoleOfN
  <2>2. CASE h.at >= d /\ h.at - d \in passable
    <3>1. h.at - d \in 0 .. n - 1 /\ h.at - d # h.at
      BY <2>1, <2>2
    <3>2. MoveFrom(h, h.at - d) \in Hole(s)
          /\ Range(FillHole(MoveFrom(h, h.at - d), e)) = Range(FillHole(h, e))
      BY <1>1, <3>1, MoveKeeps
    <3>3. round[k][h] = MoveFrom(h, h.at - d)
      BY <2>2
    <3> HIDE DEF e, round
    <3> QED BY <2>1, <3>2, <3>3
  <2>3. CASE ~ (h.at >= d /\ h.at - d \in passable)
    <3>1. round[k][h] = h
      BY <2>3
    <3> HIDE DEF e, round
    <3> QED BY <2>1, <3>1
  <2> QED BY <2>2, <2>3
<1>5. <<i, ForUp(1, i, start, round)>> \in Inv
  <2> HIDE DEF e, start, round
  <2>1. Inv \in SUBSET (Int \X Hole(s)) /\ 1 \in Int /\ i \in Int /\ 1 - 1 <= i
    OBVIOUS
  <2> HIDE DEF Inv
  <2> QED BY <1>3, <1>4, <2>1, ForUpRule
<1>6. Sink(s, i, d, passable) = FillHole(ForUp(1, i, start, round), e)
  BY DEF Sink
<1> HIDE DEF start, round
<1> QED BY <1>1, <1>5, <1>6, FilledHole

\* b is a after ori[i] went down to ori[to], the first place it may not pass.
Sunk(a, b, i, to, passable, n) ==
  /\ \A m \in to .. i - 1 : m \in passable
  /\ to > 0 => to - 1 \notin passable
  /\ \A x \in 1 .. n : b[x] =
       IF x = to + 1 THEN a[i + 1] ELSE IF x \in to + 2 .. i + 1 THEN a[x - 1] ELSE a[x]

\* In steps of one, ori[i] goes down to the first place it may not pass.
LEMMA SinkByOne ==
  ASSUME NEW n \in Nat, NEW s \in [1 .. n -> Element], NEW i \in 0 .. n - 1, NEW passable
  PROVE  \E to \in 0 .. i : Sunk(s, Sink(s, i, 1, passable), i, to, passable, n)
<1> DEFINE e == s[i + 1]
           start == [array |-> s, at |-> i]
           round == [k \in 1 .. i |-> [h \in Hole(s) |->
                  IF h.at >= 1 /\ h.at - 1 \in passable THEN MoveFrom(h, h.at - 1) ELSE h]]
           Shifted(h) == /\ h.at \in 0 .. i
                         /\ \A m \in h.at .. i - 1 : m \in passable
                         /\ \A x \in 1 .. n : x # h.at + 1 =>
                              h.array[x] = IF x \in h.at + 2 .. i + 1 THEN s[x - 1] ELSE s[x]
           Done(k, h) == h.at <= i - k \/ h.at - 1 \notin passable
           Inv == {p \in Int \X Hole(s) : Shifted(p[2]) /\ Done(p[1], p[2])}
<1>1. e \in Element /\ start \in Hole(s)
  BY ArrayOfN DEF Hole
<1>2. <<1 - 1, start>> \in Inv
  <2>1. Shifted(start) /\ Done(1 - 1, start)
    OBVIOUS
  <2> HIDE DEF start, Shifted, Done
  <2> QED BY <1>1, <2>1
<1>3. ASSUME NEW k \in 1 .. i, NEW h \in Hole(s), <<k - 1, h>> \in Inv PROVE <<k, round[k][h]>> \in Inv
  <2>1. h.at \in 0 .. i /\ Shifted(h) /\ Done(k - 1, h)
    BY <1>3
  <2>2. CASE h.at >= 1 /\ h.at - 1 \in passable
    <3>1. h.at - 1 \in 0 .. n - 1 /\ h.at - 1 # h.at
      BY <2>1, <2>2
    <3> DEFINE g == MoveFrom(h, h.at - 1)
    <3>2. /\ g \in Hole(s) /\ g.at = h.at - 1
          /\ \A x \in 1 .. n : g.array[x] = IF x = h.at + 1 THEN h.array[h.at - 1 + 1] ELSE h.array[x]
      BY <1>1, <3>1, MoveKeeps
    <3>3. round[k][h] = g
      BY <2>2
    <3> HIDE DEF g, round
    <3>4. \A m \in g.at .. i - 1 : m \in passable
      BY <2>1, <2>2, <3>2
    <3>5. ASSUME NEW x \in 1 .. n, x # g.at + 1
          PROVE  g.array[x] = IF x \in g.at + 2 .. i + 1 THEN s[x - 1] ELSE s[x]
      <4>1. /\ g.at + 2 = h.at + 1 /\ h.at - 1 + 1 = h.at
            /\ \A y \in 1 .. n : y # h.at + 1 =>
                 h.array[y] = IF y \in h.at + 2 .. i + 1 THEN s[y - 1] ELSE s[y]
        BY <2>1, <2>2, <3>2
      <4>2. CASE x = h.at + 1
        <5>1. h.at \in 1 .. n /\ h.at # h.at + 1 /\ h.at \notin h.at + 2 .. i + 1
          BY <2>1, <2>2, <3>1
        <5>2. g.array[x] = h.array[h.at] /\ h.array[h.at] = s[h.at]
          BY <3>2, <4>1, <4>2, <5>1
        <5>3. x \in g.at + 2 .. i + 1 /\ x - 1 = h.at
          BY <2>1, <2>2, <4>1, <4>2, <5>1
        <5> QED BY <5>2, <5>3
      <4>3. CASE x # h.at + 1
        <5>1. x \in g.at + 2 .. i + 1 <=> x \in h.at + 2 .. i + 1
          BY <2>1, <2>2, <4>1, <4>3
        <5>2. g.array[x] = h.array[x]
          BY <3>2, <4>3
        <5> QED BY <4>1, <4>3, <5>1, <5>2
      <4> QED BY <4>2, <4>3
    <3>6. Shifted(g) /\ Done(k, g)
      BY <2>1, <2>2, <3>2, <3>4, <3>5
    <3> HIDE DEF Shifted, Done
    <3> QED BY <3>2, <3>3, <3>6
  <2>3. CASE ~ (h.at >= 1 /\ h.at - 1 \in passable)
    <3>1. round[k][h] = h
      BY <2>3
    <3>2. Done(k, h)
      BY <2>1, <2>3
    <3> HIDE DEF round, Shifted, Done
    <3> QED BY <2>1, <3>1, <3>2
  <2> QED BY <2>2, <2>3
<1>4. <<i, ForUp(1, i, start, round)>> \in Inv
  <2> HIDE DEF e, start, round, Shifted, Done
  <2>1. Inv \in SUBSET (Int \X Hole(s)) /\ 1 \in Int /\ i \in Int /\ 1 - 1 <= i
    OBVIOUS
  <2> HIDE DEF Inv
  <2> QED BY <1>2, <1>3, <2>1, ForUpRule
<1>5. PICK h \in Hole(s) : h = ForUp(1, i, start, round) /\ Shifted(h) /\ Done(i, h)
  <2> HIDE DEF start, round, Shifted, Done
  <2> QED BY <1>4
<1>6. Sink(s, i, 1, passable) = FillHole(h, e)
  BY <1>5 DEF Sink
<1> HIDE DEF start, round
<1>7. \A x \in 1 .. n : FillHole(h, e)[x] = IF x = h.at + 1 THEN e ELSE h.array[x]
  BY <1>1, FilledHole
<1>8. h.at > 0 => h.at - 1 \notin passable
  BY <1>5
<1> QED BY <1>5, <1>6, <1>7, <1>8 DEF Sunk

\* The first m elements are in ascending order, in descending order, and equal
\* ones in the order of their ids.
Sorted(a, m) == \A x, y \in 1 .. m : x < y => a[x].key <= a[y].key
SortedDown(a, m) == \A x, y \in 1 .. m : x < y => a[x].key >= a[y].key
StableTo(a, m) == \A x, y \in 1 .. m : x < y /\ a[x].key = a[y].key => a[x].id < a[y].id

\* The elements after the first m are in the order of their ids, after the others.
FreshFrom(a, m, n) == \A x \in 1 .. n, y \in m + 1 .. n : x < y => a[x].id < a[y].id

\* A round of Insertsort() puts ori[i] in its place among those before it.
LEMMA InsertSorts ==
  ASSUME NEW n \in Nat, NEW a \in [1 .. n -> Element], NEW i \in 1 .. n - 1, NEW b,
         b = Sink(a, i, 1, Greater(a, i)), Sorted(a, i)
  PROVE  /\ Sorted(b, i + 1)
         /\ StableTo(a, i) /\ FreshFrom(a, i, n) => StableTo(b, i + 1) /\ FreshFrom(b, i + 1, n)
<1>1. i \in 0 .. n - 1
  OBVIOUS
<1>2. \A x \in 1 .. n : a[x].key \in Int /\ a[x].id \in Nat
  BY ElementKey
<1>3. PICK to \in 0 .. i : Sunk(a, b, i, to, Greater(a, i), n)
  BY <1>1, SinkByOne
<1> USE DEF Sunk
<1>4. \A x \in to + 1 .. i : a[x].key > a[i + 1].key
  <2>1. SUFFICES ASSUME NEW x \in to + 1 .. i PROVE a[x].key > a[i + 1].key
    OBVIOUS
  <2>2. PICK m \in to .. i - 1 : x = m + 1
    OBVIOUS
  <2> QED BY <1>3, <2>2 DEF Greater
<1>5. \A x \in 1 .. to : a[x].key <= a[i + 1].key
  <2>1. SUFFICES ASSUME NEW x \in 1 .. to PROVE a[x].key <= a[i + 1].key
    OBVIOUS
  <2>2. to - 1 \in 0 .. i - 1 /\ to \in 1 .. i /\ to - 1 + 1 = to /\ to \in 1 .. n /\ x \in 1 .. n /\ i + 1 \in 1 .. n
    OBVIOUS
  <2>3. a[to].key <= a[i + 1].key
    BY <1>2, <1>3, <2>2 DEF Greater
  <2>4. a[x].key <= a[to].key
    BY <1>2, <2>2 DEF Sorted
  <2> QED BY <1>2, <2>2, <2>3, <2>4
<1>6. \A x \in 1 .. i + 1 : /\ x < to + 1 => x \in 1 .. to /\ b[x] = a[x]
                            /\ x = to + 1 => b[x] = a[i + 1]
                            /\ x > to + 1 => x - 1 \in to + 1 .. i /\ b[x] = a[x - 1]
  BY <1>3
<1>7. Sorted(b, i + 1)
  <2>1. SUFFICES ASSUME NEW x \in 1 .. i + 1, NEW y \in 1 .. i + 1, x < y PROVE b[x].key <= b[y].key
    BY DEF Sorted
  <2>2. \A v, w \in 1 .. i : v < w => a[v].key <= a[w].key
    BY DEF Sorted
  <2>3. CASE y <= to
    BY <1>6, <2>1, <2>2, <2>3
  <2>4. CASE x <= to /\ to < y
    <3>1. b[x] = a[x] /\ x \in 1 .. to /\ x \in 1 .. i
      BY <1>6, <2>4
    <3>2. CASE y = to + 1
      BY <1>5, <1>6, <2>1, <3>1, <3>2
    <3>3. CASE y > to + 1
      <4>1. PICK w \in to + 1 .. i : w = y - 1 /\ b[y] = a[w] /\ w \in 1 .. i /\ x < w
        BY <1>6, <2>4, <3>3
      <4> QED BY <2>1, <2>2, <3>1, <4>1
    <3> QED BY <2>4, <3>2, <3>3
  <2>5. CASE to < x
    <3>1. PICK w \in to + 1 .. i : w = y - 1 /\ b[y] = a[w] /\ w \in 1 .. i
      BY <1>6, <2>1, <2>5
    <3>2. CASE x = to + 1
      <4>1. b[x] = a[i + 1] /\ a[w].key > a[i + 1].key /\ a[w].key \in Int /\ a[i + 1].key \in Int
        BY <1>2, <1>4, <1>6, <3>1, <3>2
      <4> QED BY <2>1, <3>1, <4>1
    <3>3. CASE x > to + 1
      <4>1. PICK v \in to + 1 .. i : v = x - 1 /\ b[x] = a[v] /\ v \in 1 .. i /\ v < w
        BY <1>6, <2>1, <3>1, <3>3
      <4> QED BY <2>1, <2>2, <3>1, <4>1
    <3> QED BY <2>5, <3>2, <3>3
  <2> QED BY <2>3, <2>4, <2>5
<1>8. ASSUME StableTo(a, i), FreshFrom(a, i, n) PROVE StableTo(b, i + 1)
  <2>1. SUFFICES ASSUME NEW x \in 1 .. i + 1, NEW y \in 1 .. i + 1, x < y, b[x].key = b[y].key
                 PROVE  b[x].id < b[y].id
    BY DEF StableTo
  <2>2. \A v, w \in 1 .. i : v < w /\ a[v].key = a[w].key => a[v].id < a[w].id
    BY <1>8 DEF StableTo
  <2>3. \A v \in 1 .. i : a[v].id < a[i + 1].id
    BY <1>8 DEF FreshFrom
  <2>4. CASE y <= to
    BY <1>6, <2>1, <2>2, <2>4
  <2>5. CASE x <= to /\ to < y
    <3>1. b[x] = a[x] /\ x \in 1 .. to /\ x \in 1 .. i
      BY <1>6, <2>5
    <3>2. CASE y = to + 1
      BY <1>5, <1>6, <2>1, <3>1, <3>2, <2>3
    <3>3. CASE y > to + 1
      <4>1. PICK w \in to + 1 .. i : w = y - 1 /\ b[y] = a[w] /\ w \in 1 .. i /\ x < w
        BY <1>6, <2>5, <3>3
      <4> QED BY <2>1, <2>2, <3>1, <4>1
    <3> QED BY <2>5, <3>2, <3>3
  <2>6. CASE to < x
    <3>1. PICK w \in to + 1 .. i : w = y - 1 /\ b[y] = a[w] /\ w \in 1 .. i
      BY <1>6, <2>1, <2>6
    <3>2. CASE x = to + 1
      <4>1. b[x] = a[i + 1] /\ a[w].key > a[i + 1].key /\ a[w].key \in Int /\ a[i + 1].key \in Int
        BY <1>2, <1>4, <1>6, <3>1, <3>2
      <4> QED BY <2>1, <3>1, <4>1
    <3>3. CASE x > to + 1
      <4>1. PICK v \in to + 1 .. i : v = x - 1 /\ b[x] = a[v] /\ v \in 1 .. i /\ v < w
        BY <1>6, <2>1, <3>1, <3>3
      <4> QED BY <2>1, <2>2, <3>1, <4>1
    <3> QED BY <2>6, <3>2, <3>3
  <2> QED BY <2>4, <2>5, <2>6
<1>9. ASSUME FreshFrom(a, i, n) PROVE FreshFrom(b, i + 1, n)
  <2>1. SUFFICES ASSUME NEW x \in 1 .. n, NEW y \in i + 2 .. n, x < y PROVE b[x].id < b[y].id
    BY DEF FreshFrom
  <2>2. b[y] = a[y] /\ y \in i + 1 .. n
    BY <1>3
  <2>3. PICK v \in 1 .. n : b[x] = a[v] /\ v < y
    <3>1. CASE x <= i + 1
      BY <1>6, <2>1, <3>1
    <3>2. CASE x > i + 1
      BY <1>3, <2>1, <3>2
    <3> QED BY <3>1, <3>2
  <2> QED BY <1>9, <2>2, <2>3 DEF FreshFrom
<1> QED BY <1>7, <1>8, <1>9

\* Insertsort() sorts every array, and keeps the order of equal elements.
LEMMA InsertsortSorts ==
  ASSUME NEW n \in Nat, NEW s \in [1 .. n -> Element]
  PROVE  /\ Insertsort(s) \in [1 .. n -> Element] /\ Range(Insertsort(s)) = Range(s)
         /\ Sorted(Insertsort(s), n)
         /\ FreshFrom(s, 1, n) => StableTo(Insertsort(s), n)
<1>1. Len(s) = n /\ Array(s) = [1 .. n -> Element]
  BY ArrayOfN
<1>2. CASE n = 0
  <2>1. Insertsort(s) = s
    BY <1>1, <1>2 DEF Insertsort, ForUp
  <2> QED BY <1>2, <2>1 DEF Sorted, StableTo
<1>3. CASE n # 0
  <2> DEFINE T == [1 .. n -> Element]
             body == [i \in 1 .. n - 1 |-> [a \in T |-> Sink(a, i, 1, Greater(a, i))]]
             Good(i, a) == /\ Range(a) = Range(s) /\ Sorted(a, i + 1)
                           /\ FreshFrom(s, 1, n) => StableTo(a, i + 1) /\ FreshFrom(a, i + 1, n)
             Inv == {p \in Int \X T : Good(p[1], p[2])}
  <2>1. <<1 - 1, s>> \in Inv
    <3>1. Good(0, s)
      BY DEF Sorted, StableTo
    <3> HIDE DEF Good
    <3> QED BY <3>1
  <2>2. ASSUME NEW i \in 1 .. n - 1, NEW a \in T, <<i - 1, a>> \in Inv PROVE <<i, body[i][a]>> \in Inv
    <3> DEFINE b == Sink(a, i, 1, Greater(a, i))
    <3>1. body[i][a] = b
      OBVIOUS
    <3>2. Good(i - 1, a) /\ i - 1 + 1 = i
      BY <2>2
    <3>3. b \in T /\ Range(b) = Range(a)
      BY SinkKeeps
    <3>4. /\ Sorted(b, i + 1)
          /\ StableTo(a, i) /\ FreshFrom(a, i, n) => StableTo(b, i + 1) /\ FreshFrom(b, i + 1, n)
      BY <3>2, InsertSorts
    <3> HIDE DEF b, body
    <3>5. Good(i, b)
      BY <3>2, <3>3, <3>4
    <3> HIDE DEF Good
    <3> QED BY <3>1, <3>3, <3>5
  <2>3. Inv \in SUBSET (Int \X T) /\ 1 \in Int /\ n - 1 \in Int /\ 1 - 1 <= n - 1
    BY <1>3
  <2>4. Insertsort(s) = ForUp(1, n - 1, s, body)
    BY <1>1 DEF Insertsort
  <2> HIDE DEF Inv, body, T
  <2>5. <<n - 1, ForUp(1, n - 1, s, body)>> \in Inv
    BY <2>1, <2>2, <2>3, ForUpRule
  <2>6. Insertsort(s) \in T /\ Good(n - 1, Insertsort(s))
    BY <2>4, <2>5 DEF Inv
  <2> QED BY <2>6 DEF T
<1> QED BY <1>2, <1>3

\* A round of Shellsort() for increment 1 does the same, the largest first.
LEMMA InsertSortsDown ==
  ASSUME NEW n \in Nat, NEW a \in [1 .. n -> Element], NEW i \in 1 .. n - 1, NEW b,
         b = Sink(a, i, 1, Less(a, i)), SortedDown(a, i)
  PROVE  SortedDown(b, i + 1)
<1>1. i \in 0 .. n - 1
  OBVIOUS
<1>2. \A x \in 1 .. n : a[x].key \in Int /\ a[x].id \in Nat
  BY ElementKey
<1>3. PICK to \in 0 .. i : Sunk(a, b, i, to, Less(a, i), n)
  BY <1>1, SinkByOne
<1> USE DEF Sunk
<1>4. \A x \in to + 1 .. i : a[x].key < a[i + 1].key
  <2>1. SUFFICES ASSUME NEW x \in to + 1 .. i PROVE a[x].key < a[i + 1].key
    OBVIOUS
  <2>2. PICK m \in to .. i - 1 : x = m + 1
    OBVIOUS
  <2> QED BY <1>3, <2>2 DEF Less
<1>5. \A x \in 1 .. to : a[x].key >= a[i + 1].key
  <2>1. SUFFICES ASSUME NEW x \in 1 .. to PROVE a[x].key >= a[i + 1].key
    OBVIOUS
  <2>2. to - 1 \in 0 .. i - 1 /\ to \in 1 .. i /\ to - 1 + 1 = to /\ to \in 1 .. n /\ x \in 1 .. n /\ i + 1 \in 1 .. n
    OBVIOUS
  <2>3. a[to].key >= a[i + 1].key
    BY <1>2, <1>3, <2>2 DEF Less
  <2>4. a[x].key >= a[to].key
    BY <1>2, <2>2 DEF SortedDown
  <2> QED BY <1>2, <2>2, <2>3, <2>4
<1>6. \A x \in 1 .. i + 1 : /\ x < to + 1 => x \in 1 .. to /\ b[x] = a[x]
                            /\ x = to + 1 => b[x] = a[i + 1]
                            /\ x > to + 1 => x - 1 \in to + 1 .. i /\ b[x] = a[x - 1]
  BY <1>3
<1>7. SortedDown(b, i + 1)
  <2>1. SUFFICES ASSUME NEW x \in 1 .. i + 1, NEW y \in 1 .. i + 1, x < y PROVE b[x].key >= b[y].key
    BY DEF SortedDown
  <2>2. \A v, w \in 1 .. i : v < w => a[v].key >= a[w].key
    BY DEF SortedDown
  <2>3. CASE y <= to
    BY <1>6, <2>1, <2>2, <2>3
  <2>4. CASE x <= to /\ to < y
    <3>1. b[x] = a[x] /\ x \in 1 .. to /\ x \in 1 .. i
      BY <1>6, <2>4
    <3>2. CASE y = to + 1
      BY <1>5, <1>6, <2>1, <3>1, <3>2
    <3>3. CASE y > to + 1
      <4>1. PICK w \in to + 1 .. i : w = y - 1 /\ b[y] = a[w] /\ w \in 1 .. i /\ x < w
        BY <1>6, <2>4, <3>3
      <4> QED BY <2>1, <2>2, <3>1, <4>1
    <3> QED BY <2>4, <3>2, <3>3
  <2>5. CASE to < x
    <3>1. PICK w \in to + 1 .. i : w = y - 1 /\ b[y] = a[w] /\ w \in 1 .. i
      BY <1>6, <2>1, <2>5
    <3>2. CASE x = to + 1
      <4>1. b[x] = a[i + 1] /\ a[w].key < a[i + 1].key /\ a[w].key \in Int /\ a[i + 1].key \in Int
        BY <1>2, <1>4, <1>6, <3>1, <3>2
      <4> QED BY <2>1, <3>1, <4>1
    <3>3. CASE x > to + 1
      <4>1. PICK v \in to + 1 .. i : v = x - 1 /\ b[x] = a[v] /\ v \in 1 .. i /\ v < w
        BY <1>6, <2>1, <3>1, <3>3
      <4> QED BY <2>1, <2>2, <3>1, <4>1
    <3> QED BY <2>5, <3>2, <3>3
  <2> QED BY <2>3, <2>4, <2>5
<1> QED BY <1>7


\* The loop over i keeps the elements, and orders them all if the increment is 1.
LEMMA ShellPassOrders ==
  ASSUME NEW n \in Nat, NEW s \in [1 .. n -> Element], NEW d \in Nat \ {0}
  PROVE  /\ ShellPass(s, d) \in [1 .. n -> Element] /\ Range(ShellPass(s, d)) = Range(s)
         /\ d = 1 => SortedDown(ShellPass(s, d), n)
<1>1. Len(s) = n /\ Array(s) = [1 .. n -> Element]
  BY ArrayOfN
<1>2. CASE n < d
  <2>1. ShellPass(s, d) = s
    BY <1>1, <1>2 DEF ShellPass, ForUp
  <2> QED BY <1>2, <2>1 DEF SortedDown
<1>3. CASE d <= n
  <2> DEFINE T == [1 .. n -> Element]
             body == [i \in d .. n - 1 |-> [a \in T |-> Sink(a, i, d, Less(a, i))]]
             Good(i, a) == Range(a) = Range(s) /\ (d = 1 => SortedDown(a, i + 1))
             Inv == {p \in Int \X T : Good(p[1], p[2])}
  <2>1. <<d - 1, s>> \in Inv
    <3>1. Good(d - 1, s)
      BY DEF SortedDown
    <3> HIDE DEF Good
    <3> QED BY <3>1
  <2>2. ASSUME NEW i \in d .. n - 1, NEW a \in T, <<i - 1, a>> \in Inv PROVE <<i, body[i][a]>> \in Inv
    <3> DEFINE b == Sink(a, i, d, Less(a, i))
    <3>1. body[i][a] = b
      OBVIOUS
    <3>2. Good(i - 1, a) /\ i - 1 + 1 = i /\ i \in 0 .. n - 1 /\ i \in Int
      BY <2>2
    <3>3. b \in T /\ Range(b) = Range(a)
      BY <3>2, SinkKeeps
    <3>4. d = 1 => SortedDown(b, i + 1)
      BY <3>2, InsertSortsDown
    <3> HIDE DEF b, body
    <3>5. Good(i, b)
      BY <3>2, <3>3, <3>4
    <3> HIDE DEF Good
    <3> QED BY <3>1, <3>2, <3>3, <3>5
  <2>3. Inv \in SUBSET (Int \X T) /\ d \in Int /\ n - 1 \in Int /\ d - 1 <= n - 1
    BY <1>3
  <2>4. ShellPass(s, d) = ForUp(d, n - 1, s, body)
    BY <1>1 DEF ShellPass
  <2> HIDE DEF Inv, body, T
  <2>5. <<n - 1, ForUp(d, n - 1, s, body)>> \in Inv
    BY <2>1, <2>2, <2>3, ForUpRule
  <2>6. ShellPass(s, d) \in T /\ Good(n - 1, ShellPass(s, d))
    BY <2>4, <2>5 DEF Inv
  <2> QED BY <2>6 DEF T
<1> QED BY <1>2, <1>3

\* Shellsort() orders every array, whatever the earlier increments did to it.
LEMMA ShellsortSorts ==
  ASSUME NEW n \in Nat, NEW s \in [1 .. n -> Element]
  PROVE  /\ Shellsort(s) \in [1 .. n -> Element] /\ Range(Shellsort(s)) = Range(s)
         /\ SortedDown(Shellsort(s), n)
<1>1. Len(s) = n /\ Array(s) = [1 .. n -> Element]
  BY ArrayOfN
<1> DEFINE A == [1 .. n -> Element]
           T == [array : A, increment : Nat]
           start == [array |-> s, increment |-> n \div 2]
           body == [k \in 1 .. n |-> [g \in T |->
                  IF g.increment > 0
                  THEN [array |-> ShellPass(g.array, g.increment), increment |-> g.increment \div 2]
                  ELSE g]]
           Good(k, g) == /\ Range(g.array) = Range(s)
                         /\ g.increment = 0 => SortedDown(g.array, n)
                         /\ g.increment <= n - k
           Inv == {p \in Int \X T : Good(p[1], p[2])}
<1>2. <<1 - 1, start>> \in Inv
  <2>1. n \div 2 \in Nat /\ n \div 2 <= n - 0 /\ (n \div 2 = 0 => n \in {0, 1})
    OBVIOUS
  <2>2. start \in T /\ start.array = s /\ start.increment = n \div 2
    BY <2>1
  <2> HIDE DEF start
  <2>3. Good(0, start)
    BY <2>1, <2>2 DEF SortedDown
  <2> HIDE DEF Good, T
  <2> QED BY <2>2, <2>3
<1>3. ASSUME NEW k \in 1 .. n, NEW g \in T, <<k - 1, g>> \in Inv PROVE <<k, body[k][g]>> \in Inv
  <2>1. Good(k - 1, g) /\ g.array \in A /\ g.increment \in Nat
    BY <1>3
  <2>2. CASE g.increment > 0
    <3> DEFINE h == [array |-> ShellPass(g.array, g.increment), increment |-> g.increment \div 2]
    <3>1. body[k][g] = h
      BY <2>2
    <3>2. PICK d \in Nat \ {0} : d = g.increment
      BY <2>1, <2>2
    <3>3. PICK a \in A : a = g.array
      BY <2>1
    <3>4. /\ ShellPass(a, d) \in A /\ Range(ShellPass(a, d)) = Range(a)
          /\ d = 1 => SortedDown(ShellPass(a, d), n)
      BY ShellPassOrders
    <3>5. d \div 2 \in Nat /\ (d \div 2 = 0 => d = 1) /\ d \div 2 <= d - 1
      OBVIOUS
    <3>6. h \in T /\ h.array = ShellPass(a, d) /\ h.increment = d \div 2
      BY <3>2, <3>3, <3>4, <3>5
    <3> HIDE DEF h, body
    <3>7. h.increment <= n - k
      BY <2>1, <3>2, <3>5, <3>6
    <3>8. Good(k, h)
      BY <2>1, <3>2, <3>3, <3>4, <3>5, <3>6, <3>7
    <3> HIDE DEF Good, T
    <3> QED BY <3>1, <3>6, <3>8
  <2>3. CASE ~ (g.increment > 0)
    <3>1. body[k][g] = g /\ g.increment = 0
      BY <2>1, <2>3
    <3>2. Good(k, g)
      BY <2>1, <3>1
    <3> HIDE DEF Good, T, body
    <3> QED BY <3>1, <3>2
  <2> QED BY <2>2, <2>3
<1>4. Inv \in SUBSET (Int \X T) /\ 1 \in Int /\ n \in Int /\ 1 - 1 <= n
  OBVIOUS
<1>5. Shellsort(s) = ForUp(1, n, start, body).array
  BY <1>1 DEF Shellsort
<1> HIDE DEF Inv, body, T, start
<1>6. <<n, ForUp(1, n, start, body)>> \in Inv
  BY <1>2, <1>3, <1>4, ForUpRule
<1>7. PICK g \in T : g = ForUp(1, n, start, body) /\ Good(n, g)
  BY <1>6 DEF Inv
<1>8. g.increment = 0 /\ g.array \in A
  BY <1>7 DEF T
<1> QED BY <1>5, <1>7, <1>8

\* The elements from the mth on are in their places.
SettledFrom(a, m, n) == \A x \in 1 .. n, y \in m .. n : x < y => a[x].key <= a[y].key

\* A comparison moves the larger of two neighbours up, and no equal ones.
LEMMA CompareMoves ==
  ASSUME NEW n \in Nat, NEW a \in [1 .. n -> Element], NEW j \in 0 .. n - 2, NEW b, b = CompareNext(a, j)
  PROVE  /\ b \in [1 .. n -> Element] /\ Range(b) = Range(a)
         /\ b[j + 1].key <= b[j + 2].key
         /\ \A x \in 1 .. n : x # j + 1 /\ x # j + 2 => b[x] = a[x]
         /\ \/ b[j + 1] = a[j + 1] /\ b[j + 2] = a[j + 2]
            \/ b[j + 1] = a[j + 2] /\ b[j + 2] = a[j + 1] /\ a[j + 1].key > a[j + 2].key
<1>1. j \in 0 .. n - 1 /\ j + 1 \in 0 .. n - 1 /\ j + 1 \in 1 .. n /\ j + 2 \in 1 .. n /\ j + 1 + 1 = j + 2
  OBVIOUS
<1>2. a[j + 1].key \in Int /\ a[j + 2].key \in Int
  BY <1>1, ElementKey
<1>3. CASE a[j + 1].key > a[j + 2].key
  <2>1. b = Swap(a, j, j + 1)
    BY <1>3 DEF CompareNext
  <2>2. PICK k \in 0 .. n - 1 : k = j + 1
    BY <1>1
  <2>3. /\ Swap(a, j, k) \in [1 .. n -> Element] /\ Range(Swap(a, j, k)) = Range(a)
        /\ \A x \in 1 .. n : Swap(a, j, k)[x] = IF x = k + 1 THEN a[j + 1]
                                                ELSE IF x = j + 1 THEN a[k + 1] ELSE a[x]
    BY <1>1, SwapKeeps
  <2>4. b[j + 1] = a[j + 2] /\ b[j + 2] = a[j + 1]
    BY <1>1, <2>1, <2>2, <2>3
  <2> QED BY <1>1, <1>2, <1>3, <2>1, <2>2, <2>3, <2>4
<1>4. CASE ~ (a[j + 1].key > a[j + 2].key)
  <2>1. b = a
    BY <1>4 DEF CompareNext
  <2> QED BY <1>2, <1>4, <2>1
<1> QED BY <1>3, <1>4

\* A comparison exchanges no two equal keys.
LEMMA CompareKeepsStable ==
  ASSUME NEW n \in Nat, NEW a \in [1 .. n -> Element], NEW j \in 0 .. n - 2, NEW b, b = CompareNext(a, j),
         StableTo(a, n)
  PROVE  StableTo(b, n)
<1>1. j + 1 \in 1 .. n /\ j + 2 \in 1 .. n
  OBVIOUS
<1>2. /\ \A x \in 1 .. n : x # j + 1 /\ x # j + 2 => b[x] = a[x]
      /\ \/ b[j + 1] = a[j + 1] /\ b[j + 2] = a[j + 2]
         \/ b[j + 1] = a[j + 2] /\ b[j + 2] = a[j + 1] /\ a[j + 1].key > a[j + 2].key
  BY CompareMoves
<1>3. \A x \in 1 .. n : a[x].key \in Int
  BY ElementKey
<1>4. SUFFICES ASSUME NEW x \in 1 .. n, NEW y \in 1 .. n, x < y, b[x].key = b[y].key PROVE b[x].id < b[y].id
  BY DEF StableTo
<1>5. \A v, w \in 1 .. n : v < w /\ a[v].key = a[w].key => a[v].id < a[w].id
  BY DEF StableTo
<1>6. CASE b[j + 1] = a[j + 1] /\ b[j + 2] = a[j + 2]
  <2>1. b[x] = a[x] /\ b[y] = a[y]
    BY <1>2, <1>6
  <2> QED BY <1>4, <1>5, <2>1
<1>7. CASE b[j + 1] = a[j + 2] /\ b[j + 2] = a[j + 1] /\ a[j + 1].key > a[j + 2].key
  <2> DEFINE from(z) == IF z = j + 1 THEN j + 2 ELSE IF z = j + 2 THEN j + 1 ELSE z
  <2>1. from(x) \in 1 .. n /\ from(y) \in 1 .. n /\ b[x] = a[from(x)] /\ b[y] = a[from(y)]
    BY <1>1, <1>2, <1>7
  <2>2. from(x) < from(y) \/ (x = j + 1 /\ y = j + 2)
    BY <1>4
  <2>3. ~ (x = j + 1 /\ y = j + 2)
    BY <1>1, <1>3, <1>4, <1>7
  <2> QED BY <1>4, <1>5, <2>1, <2>2, <2>3
<1> QED BY <1>2, <1>6, <1>7

\* The inner loop settles ori[i].
LEMMA BubblePassSettles ==
  ASSUME NEW n \in Nat, NEW s \in [1 .. n -> Element], NEW i \in 1 .. n - 1, SettledFrom(s, i + 2, n)
  PROVE  /\ BubblePass(s, i) \in [1 .. n -> Element] /\ Range(BubblePass(s, i)) = Range(s)
         /\ SettledFrom(BubblePass(s, i), i + 1, n)
         /\ StableTo(s, n) => StableTo(BubblePass(s, i), n)
<1>1. Array(s) = [1 .. n -> Element]
  BY ArrayOfN
<1> DEFINE T == [1 .. n -> Element]
           body == [j \in 0 .. i - 1 |-> [a \in T |-> CompareNext(a, j)]]
           Good(j, a) == /\ Range(a) = Range(s) /\ SettledFrom(a, i + 2, n)
                         /\ \A x \in 1 .. j + 2 : a[x].key <= a[j + 2].key
                         /\ StableTo(s, n) => StableTo(a, n)
           Inv == {p \in Int \X T : Good(p[1], p[2])}
<1>2. <<0 - 1, s>> \in Inv
  <2>1. s[1].key \in Int
    BY ElementKey
  <2>2. Good(0 - 1, s)
    BY <2>1
  <2> HIDE DEF Good
  <2> QED BY <2>2
<1>3. ASSUME NEW j \in 0 .. i - 1, NEW a \in T, <<j - 1, a>> \in Inv PROVE <<j, body[j][a]>> \in Inv
  <2> DEFINE b == CompareNext(a, j)
  <2>1. body[j][a] = b
    OBVIOUS
  <2>2. Good(j - 1, a) /\ j \in 0 .. n - 2 /\ j \in Int /\ j - 1 + 2 = j + 1
    <3>1. Good(j - 1, a)
      <4> HIDE DEF Good
      <4> QED BY <1>3
    <3>2. j \in 0 .. n - 2 /\ j \in Int /\ j - 1 + 2 = j + 1
      OBVIOUS
    <3> HIDE DEF Good
    <3> QED BY <3>1, <3>2
  <2>3. /\ b \in T /\ Range(b) = Range(a)
        /\ b[j + 1].key <= b[j + 2].key
        /\ \A x \in 1 .. n : x # j + 1 /\ x # j + 2 => b[x] = a[x]
        /\ \/ b[j + 1] = a[j + 1] /\ b[j + 2] = a[j + 2]
           \/ b[j + 1] = a[j + 2] /\ b[j + 2] = a[j + 1] /\ a[j + 1].key > a[j + 2].key
    BY <2>2, CompareMoves
  <2>4. StableTo(s, n) => StableTo(b, n)
    BY <2>2, CompareKeepsStable
  <2> HIDE DEF b, body
  <2>5. \A x \in 1 .. n : a[x].key \in Int /\ b[x].key \in Int
    BY <2>3, ElementKey
  <2>6. \A x \in 1 .. n : \E v \in 1 .. n : b[x] = a[v] /\ (x <= i + 1 => v <= i + 1) /\ (x > i + 1 => v = x)
    BY <2>2, <2>3
  <2>7. SettledFrom(b, i + 2, n)
    <3>1. SUFFICES ASSUME NEW x \in 1 .. n, NEW y \in i + 2 .. n, x < y PROVE b[x].key <= b[y].key
      BY DEF SettledFrom
    <3>2. b[y] = a[y]
      BY <2>3
    <3>3. PICK v \in 1 .. n : b[x] = a[v] /\ v < y
      BY <2>6, <3>1
    <3> QED BY <2>2, <3>2, <3>3 DEF SettledFrom
  <2>8. ASSUME NEW x \in 1 .. j + 2 PROVE b[x].key <= b[j + 2].key
    <3>1. j + 1 \in 1 .. n /\ j + 2 \in 1 .. n /\ x \in 1 .. n
      OBVIOUS
    <3>2. \A v \in 1 .. j + 1 : a[v].key <= a[j + 1].key
      BY <2>2
    <3>3. CASE x = j + 1 \/ x = j + 2
      BY <2>3, <2>5, <3>1, <3>3
    <3>4. CASE x < j + 1
      <4>1. b[x] = a[x] /\ a[x].key <= a[j + 1].key
        BY <2>3, <3>1, <3>2, <3>4
      <4> QED BY <2>3, <2>5, <3>1, <4>1
    <3> QED BY <3>3, <3>4
  <2>9. Good(j, b)
    BY <2>2, <2>3, <2>4, <2>7, <2>8
  <2> HIDE DEF Good
  <2> QED BY <2>1, <2>2, <2>3, <2>9
<1>4. Inv \in SUBSET (Int \X T) /\ 0 \in Int /\ i - 1 \in Int /\ 0 - 1 <= i - 1
  OBVIOUS
<1>5. BubblePass(s, i) = ForUp(0, i - 1, s, body)
  BY <1>1 DEF BubblePass
<1> HIDE DEF Inv, body, T
<1>6. <<i - 1, ForUp(0, i - 1, s, body)>> \in Inv
  BY <1>2, <1>3, <1>4, ForUpRule
<1>7. BubblePass(s, i) \in T /\ Good(i - 1, BubblePass(s, i)) /\ i - 1 + 2 = i + 1
  BY <1>5, <1>6 DEF Inv
<1>8. SettledFrom(BubblePass(s, i), i + 1, n)
  BY <1>7 DEF SettledFrom
<1> QED BY <1>7, <1>8 DEF T

\* Bubblesort() sorts every array, and keeps the order of equal elements.
LEMMA BubblesortSorts ==
  ASSUME NEW n \in Nat, NEW s \in [1 .. n -> Element]
  PROVE  /\ Bubblesort(s) \in [1 .. n -> Element] /\ Range(Bubblesort(s)) = Range(s)
         /\ Sorted(Bubblesort(s), n)
         /\ StableTo(s, n) => StableTo(Bubblesort(s), n)
<1>1. Len(s) = n /\ Array(s) = [1 .. n -> Element]
  BY ArrayOfN
<1>2. CASE n = 0
  <2>1. Bubblesort(s) = s
    BY <1>1, <1>2 DEF Bubblesort, ForDown
  <2> QED BY <1>2, <2>1 DEF Sorted
<1>3. CASE n # 0
  <2> DEFINE T == [1 .. n -> Element]
             body == [i \in 1 .. n - 1 |-> [a \in T |-> BubblePass(a, i)]]
             Good(i, a) == /\ Range(a) = Range(s) /\ SettledFrom(a, i + 1, n)
                           /\ StableTo(s, n) => StableTo(a, n)
             Inv == {p \in Int \X T : Good(p[1], p[2])}
  <2>1. <<n - 1 + 1, s>> \in Inv
    <3>1. Good(n - 1 + 1, s)
      BY DEF SettledFrom
    <3> HIDE DEF Good
    <3> QED BY <3>1
  <2>2. ASSUME NEW i \in 1 .. n - 1, NEW a \in T, <<i + 1, a>> \in Inv PROVE <<i, body[i][a]>> \in Inv
    <3> DEFINE b == BubblePass(a, i)
    <3>1. body[i][a] = b
      OBVIOUS
    <3>2. Good(i + 1, a) /\ i + 1 + 1 = i + 2
      BY <2>2
    <3>3. /\ b \in T /\ Range(b) = Range(a) /\ SettledFrom(b, i + 1, n)
          /\ StableTo(a, n) => StableTo(b, n)
      BY <3>2, BubblePassSettles
    <3> HIDE DEF b, body
    <3>4. Good(i, b)
      BY <3>2, <3>3
    <3> HIDE DEF Good
    <3> QED BY <3>1, <3>3, <3>4
  <2>3. Inv \in SUBSET (Int \X T) /\ 1 \in Int /\ n - 1 \in Int /\ 1 <= n - 1 + 1
    BY <1>3
  <2>4. Bubblesort(s) = ForDown(n - 1, 1, s, body)
    BY <1>1 DEF Bubblesort
  <2> HIDE DEF Inv, body, T
  <2>5. <<1, ForDown(n - 1, 1, s, body)>> \in Inv
    BY <2>1, <2>2, <2>3, ForDownRule
  <2>6. Bubblesort(s) \in T /\ Good(1, Bubblesort(s))
    BY <2>4, <2>5 DEF Inv
  <2>7. Sorted(Bubblesort(s), n)
    BY <2>6 DEF SettledFrom, Sorted
  <2> QED BY <2>6, <2>7 DEF T
<1> QED BY <1>2, <1>3

\* c is a child of i in a heap of len elements.
ChildOf(c, i, len) == c < len /\ (c = 2 * i + 1 \/ c = 2 * i + 2)

\* The nodes from p on are no smaller than their children, h excepted.
HeapBut(a, h, p, len) ==
  \A i \in p .. len - 1, c \in p .. len - 1 : i # h /\ ChildOf(c, i, len) => a[i + 1].key >= a[c + 1].key
HeapFrom(a, p, len) ==
  \A i \in p .. len - 1, c \in p .. len - 1 : ChildOf(c, i, len) => a[i + 1].key >= a[c + 1].key

\* The first len elements are no larger than v.
AtMost(a, len, v) == \A x \in 1 .. len : a[x].key <= v

\* What is true while perceDownMax() moves the hole, f being the array with tmp in it.
HeapHole(f, s, h, pos, len, n) ==
  /\ h \in pos .. len - 1
  /\ HeapBut(f, h, pos, len)
  /\ \A i, c \in pos .. len - 1 : ChildOf(h, i, len) /\ ChildOf(c, h, len) => f[i + 1].key >= f[c + 1].key
  /\ \A x \in len + 1 .. n : f[x] = s[x]
  /\ \A v \in Int : AtMost(s, len, v) => AtMost(f, len, v)

\* Child() is the larger child.
LEMMA ChildIsLarger ==
  ASSUME NEW n \in Nat, NEW a \in [1 .. n -> Element], NEW len \in 1 .. n, NEW i \in 0 .. len - 1,
         LeftChild(i) < len
  PROVE  /\ Child(a, i, len) \in i + 1 .. len - 1 /\ ChildOf(Child(a, i, len), i, len)
         /\ \A c \in 0 .. len - 1 : ChildOf(c, i, len) => a[c + 1].key <= a[Child(a, i, len) + 1].key
<1>1. \A x \in 1 .. n : a[x].key \in Int
  BY ElementKey
<1>2. PICK l \in 0 .. len - 1 : l = LeftChild(i) /\ l = 2 * i + 1
  BY DEF LeftChild
<1>3. Child(a, i, len) = IF l < len - 1 /\ a[l + 1].key < a[l + 2].key THEN l + 1 ELSE l
  BY <1>2 DEF Child
<1>4. l \in i + 1 .. len - 1 /\ \A c \in Int : ChildOf(c, i, len) <=> c < len /\ (c = l \/ c = l + 1)
  BY <1>2 DEF ChildOf
<1>5. a[l + 1].key \in Int /\ (l + 1 < len => a[l + 2].key \in Int)
  BY <1>1
<1>6. CASE l < len - 1 /\ a[l + 1].key < a[l + 2].key
  BY <1>3, <1>4, <1>5, <1>6
<1>7. CASE ~ (l < len - 1 /\ a[l + 1].key < a[l + 2].key)
  BY <1>3, <1>4, <1>5, <1>7
<1> QED BY <1>6, <1>7

\* Moving the hole to the larger child keeps HeapHole.
LEMMA HoleGoesDown ==
  ASSUME NEW n \in Nat, NEW s \in [1 .. n -> Element], NEW f \in [1 .. n -> Element],
         NEW len \in 1 .. n, NEW pos \in 0 .. len - 1, NEW h \in 0 .. n - 1, HeapHole(f, s, h, pos, len, n),
         NEW c \in h + 1 .. len - 1, ChildOf(c, h, len), f[h + 1].key < f[c + 1].key,
         \A d \in 0 .. len - 1 : ChildOf(d, h, len) => f[d + 1].key <= f[c + 1].key,
         NEW g, g = Swap(f, h, c)
  PROVE  HeapHole(g, s, c, pos, len, n)
<1>1. h \in pos .. len - 1 /\ c \in pos .. len - 1 /\ c \in 0 .. n - 1 /\ h + 1 \in 1 .. len /\ c + 1 \in 1 .. len
  BY DEF HeapHole
<1>2. /\ g \in [1 .. n -> Element]
      /\ \A x \in 1 .. n : g[x] = IF x = c + 1 THEN f[h + 1] ELSE IF x = h + 1 THEN f[c + 1] ELSE f[x]
  <2>1. PICK i \in 0 .. n - 1 : i = c
    BY <1>1
  <2>2. /\ Swap(f, h, i) \in [1 .. n -> Element]
        /\ \A x \in 1 .. n : Swap(f, h, i)[x] = IF x = i + 1 THEN f[h + 1]
                                                ELSE IF x = h + 1 THEN f[i + 1] ELSE f[x]
    BY SwapKeeps
  <2> QED BY <2>1, <2>2
<1>3. \A x \in 1 .. n : f[x].key \in Int
  BY ElementKey
<1>4. \A i \in pos .. len - 1 : /\ i + 1 \in 1 .. n
                                /\ i = c => g[i + 1] = f[h + 1]
                                /\ i = h => g[i + 1] = f[c + 1]
                                /\ i # h /\ i # c => g[i + 1] = f[i + 1]
  BY <1>1, <1>2
<1>5. HeapBut(g, c, pos, len)
  <2>1. SUFFICES ASSUME NEW i \in pos .. len - 1, NEW d \in pos .. len - 1, i # c, ChildOf(d, i, len)
                 PROVE  g[i + 1].key >= g[d + 1].key
    BY DEF HeapBut
  <2>2. i + 1 \in 1 .. n /\ d + 1 \in 1 .. n /\ d \in 0 .. len - 1 /\ d # i
    BY <2>1 DEF ChildOf
  <2>3. CASE i = h
    <3>1. g[i + 1] = f[c + 1] /\ f[d + 1].key <= f[c + 1].key
      BY <1>4, <2>1, <2>2, <2>3
    <3>2. g[d + 1] = f[h + 1] \/ g[d + 1] = f[d + 1]
      BY <1>4, <2>2, <2>3
    <3> QED BY <1>1, <1>3, <2>2, <3>1, <3>2
  <2>4. CASE i # h
    <3>1. g[i + 1] = f[i + 1]
      BY <1>4, <2>1, <2>4
    <3>2. d # c
      BY <1>1, <2>1, <2>4 DEF ChildOf
    <3>3. CASE d = h
      <4>1. f[i + 1].key >= f[c + 1].key
        BY <1>1, <2>1, <3>3 DEF HeapHole
      <4> QED BY <1>4, <3>1, <3>3, <4>1
    <3>4. CASE d # h
      <4>1. f[i + 1].key >= f[d + 1].key
        BY <2>1, <2>4 DEF HeapHole, HeapBut
      <4> QED BY <1>4, <3>1, <3>2, <3>4, <4>1
    <3> QED BY <3>3, <3>4
  <2> QED BY <2>3, <2>4
<1>6. ASSUME NEW i \in pos .. len - 1, NEW d \in pos .. len - 1, ChildOf(c, i, len), ChildOf(d, c, len)
      PROVE  g[i + 1].key >= g[d + 1].key
  <2>1. i = h /\ d # c /\ d # h
    BY <1>1, <1>6 DEF ChildOf
  <2>2. f[c + 1].key >= f[d + 1].key
    BY <1>1, <1>6 DEF HeapHole, HeapBut
  <2> QED BY <1>4, <2>1, <2>2
<1>7. \A x \in len + 1 .. n : g[x] = s[x]
  BY <1>1, <1>2 DEF HeapHole
<1>8. ASSUME NEW v \in Int, AtMost(s, len, v) PROVE AtMost(g, len, v)
  <2>1. AtMost(f, len, v)
    BY <1>8 DEF HeapHole
  <2>2. \A x \in 1 .. len : g[x] = f[x] \/ g[x] = f[h + 1] \/ g[x] = f[c + 1]
    BY <1>2
  <2> QED BY <1>1, <2>1, <2>2 DEF AtMost
<1> QED BY <1>1, <1>5, <1>6, <1>7, <1>8 DEF HeapHole

\* perceDownMax() makes a heap of the nodes from pos on if those after it are one,
\* and changes nothing outside the first len elements.
LEMMA PerceDownMakesHeap ==
  ASSUME NEW n \in Nat, NEW s \in [1 .. n -> Element], NEW len \in 1 .. n, NEW pos \in 0 .. len - 1,
         HeapFrom(s, pos + 1, len)
  PROVE  /\ PerceDownMax(s, pos, len) \in [1 .. n -> Element]
         /\ Range(PerceDownMax(s, pos, len)) = Range(s)
         /\ HeapFrom(PerceDownMax(s, pos, len), pos, len)
         /\ \A x \in len + 1 .. n : PerceDownMax(s, pos, len)[x] = s[x]
         /\ \A v \in Int : AtMost(s, len, v) => AtMost(PerceDownMax(s, pos, len), len, v)
<1> DEFINE e == s[pos + 1]
           start == [array |-> s, at |-> pos]
           round == [k \in 1 .. len |-> [h \in Hole(s) |-> PercDown(h, len, e)]]
           Goes(h) == LeftChild(h.at) < len /\ e.key < h.array[Child(h.array, h.at, len) + 1].key
           Good(k, h) == /\ HeapHole(FillHole(h, e), s, h.at, pos, len, n)
                         /\ Range(FillHole(h, e)) = Range(s)
                         /\ h.at >= k \/ ~ Goes(h)
           Inv == {p \in Int \X Hole(s) : Good(p[1], p[2])}
<1>1. e \in Element /\ start \in Hole(s) /\ e.key \in Int
  <2>1. e \in Element /\ start \in Hole(s)
    BY ArrayOfN DEF Hole
  <2> QED BY <2>1, ElementKey
<1>2. <<1 - 1, start>> \in Inv
  <2>1. FillHole(start, e) = s /\ start.at = pos
    BY DEF FillHole
  <2>2. HeapHole(s, s, pos, pos, len, n)
    <3>1. HeapBut(s, pos, pos, len)
      BY DEF HeapFrom, HeapBut, ChildOf
    <3>2. \A i, c \in pos .. len - 1 : ~ ChildOf(pos, i, len)
      BY DEF ChildOf
    <3> QED BY <3>1, <3>2 DEF HeapHole
  <2> HIDE DEF start, e
  <2>3. Good(1 - 1, start)
    BY <2>1, <2>2
  <2> HIDE DEF Good
  <2> QED BY <1>1, <2>3
<1>3. ASSUME NEW k \in 1 .. len, NEW h \in Hole(s), <<k - 1, h>> \in Inv PROVE <<k, round[k][h]>> \in Inv
  <2>1. Good(k - 1, h) /\ round[k][h] = PercDown(h, len, e)
    <3>1. Good(k - 1, h)
      <4> HIDE DEF Good
      <4> QED BY <1>3
    <3>2. round[k][h] = PercDown(h, len, e)
      OBVIOUS
    <3> HIDE DEF Good, round
    <3> QED BY <3>1, <3>2
  <2> HIDE DEF round, e
  <2>2. CASE Goes(h)
    <3> DEFINE c == Child(h.array, h.at, len)
               g == MoveFrom(h, c)
               f == FillHole(h, e)
    <3>1. h.array \in [1 .. n -> Element] /\ h.at \in 0 .. n - 1 /\ h.at \in pos .. len - 1 /\ h.at \in 0 .. len - 1
      BY <2>1, HoleOfN DEF HeapHole
    <3>2. /\ c \in h.at + 1 .. len - 1 /\ ChildOf(c, h.at, len)
          /\ \A d \in 0 .. len - 1 : ChildOf(d, h.at, len) => h.array[d + 1].key <= h.array[c + 1].key
      <4>1. PICK a \in [1 .. n -> Element], i \in 0 .. len - 1 : a = h.array /\ i = h.at
        BY <3>1
      <4>2. LeftChild(i) < len
        BY <2>2, <4>1
      <4>3. /\ Child(a, i, len) \in i + 1 .. len - 1 /\ ChildOf(Child(a, i, len), i, len)
            /\ \A d \in 0 .. len - 1 : ChildOf(d, i, len) => a[d + 1].key <= a[Child(a, i, len) + 1].key
        BY <4>2, ChildIsLarger
      <4> QED BY <4>1, <4>3
    <3>3. PercDown(h, len, e) = g
      BY <2>2 DEF PercDown
    <3>4. e.key < h.array[c + 1].key
      BY <2>2
    <3> HIDE DEF c
    <3>5. c \in 0 .. n - 1 /\ c # h.at /\ c \in Int
      BY <3>1, <3>2
    <3>6. /\ f \in [1 .. n -> Element]
          /\ \A x \in 1 .. n : f[x] = IF x = h.at + 1 THEN e ELSE h.array[x]
      <4>1. PICK t \in Element : t = e
        BY <1>1
      <4>2. /\ FillHole(h, t) \in [1 .. n -> Element]
            /\ \A x \in 1 .. n : FillHole(h, t)[x] = IF x = h.at + 1 THEN t ELSE h.array[x]
        <5>1. FillHole(h, t) \in [1 .. n -> Element]
          BY FilledHole
        <5>2. ASSUME NEW x \in 1 .. n PROVE FillHole(h, t)[x] = IF x = h.at + 1 THEN t ELSE h.array[x]
          BY FilledHole
        <5> QED BY <5>1, <5>2
      <4> QED BY <4>1, <4>2
    <3>7. /\ g \in Hole(s) /\ g.at = c
          /\ FillHole(g, e) = Swap(f, h.at, c)
          /\ Range(FillHole(g, e)) = Range(f)
      BY <1>1, <3>5, MoveKeeps
    <3> HIDE DEF f, g
    <3>8. f[h.at + 1] = e /\ f[c + 1] = h.array[c + 1]
      <4>1. h.at + 1 \in 1 .. n /\ c + 1 \in 1 .. n /\ c + 1 # h.at + 1
        BY <3>1, <3>2
      <4> QED BY <3>6, <4>1
    <3>9. \A d \in 0 .. len - 1 : ChildOf(d, h.at, len) => f[d + 1].key <= f[c + 1].key
      <4>1. \A d \in 0 .. len - 1 : ChildOf(d, h.at, len) => f[d + 1] = h.array[d + 1]
        BY <3>1, <3>6 DEF ChildOf
      <4> QED BY <3>2, <3>8, <4>1
    <3>10. HeapHole(Swap(f, h.at, c), s, c, pos, len, n)
      <4>1. HeapHole(f, s, h.at, pos, len, n)
        BY <2>1 DEF f
      <4>2. PICK i \in 0 .. n - 1 : i = h.at
        BY <3>1
      <4>3. /\ HeapHole(f, s, i, pos, len, n) /\ c \in i + 1 .. len - 1 /\ ChildOf(c, i, len)
            /\ f[i + 1].key < f[c + 1].key
            /\ \A d \in 0 .. len - 1 : ChildOf(d, i, len) => f[d + 1].key <= f[c + 1].key
        BY <3>2, <3>4, <3>8, <3>9, <4>1, <4>2
      <4>4. HeapHole(Swap(f, i, c), s, c, pos, len, n)
        BY <3>6, <4>3, HoleGoesDown
      <4> QED BY <4>2, <4>4
    <3>11. g.at >= k
      BY <2>1, <2>2, <3>1, <3>2, <3>7
    <3>12. Good(k, g)
      BY <2>1, <3>7, <3>10, <3>11 DEF f
    <3> HIDE DEF Good
    <3> QED BY <2>1, <3>3, <3>7, <3>12
  <2>3. CASE ~ Goes(h)
    <3>1. PercDown(h, len, e) = h
      BY <2>3 DEF PercDown
    <3>2. Good(k, h)
      BY <2>1, <2>3
    <3> HIDE DEF Good
    <3> QED BY <2>1, <3>1, <3>2
  <2> QED BY <2>2, <2>3
<1>4. Inv \in SUBSET (Int \X Hole(s)) /\ 1 \in Int /\ len \in Int /\ 1 - 1 <= len
  OBVIOUS
<1>5. PerceDownMax(s, pos, len) = FillHole(ForUp(1, len, start, round), e)
  BY DEF PerceDownMax
<1> HIDE DEF start, round, Inv, e
<1>6. <<len, ForUp(1, len, start, round)>> \in Inv
  BY <1>2, <1>3, <1>4, ForUpRule
<1>7. PICK h \in Hole(s) : h = ForUp(1, len, start, round) /\ Good(len, h)
  <2> HIDE DEF Good
  <2> QED BY <1>6 DEF Inv
<1> DEFINE f == FillHole(h, e)
<1>8. h.array \in [1 .. n -> Element] /\ h.at \in pos .. len - 1 /\ h.at \in 0 .. len - 1
  BY <1>7, HoleOfN DEF HeapHole
<1>9. f \in [1 .. n -> Element] /\ \A x \in 1 .. n : f[x] = IF x = h.at + 1 THEN e ELSE h.array[x]
  <2>1. f = [h.array EXCEPT ![h.at + 1] = e] /\ e \in Element
    BY <1>1 DEF FillHole
  <2> HIDE DEF f
  <2> QED BY <1>8, <2>1
<1>10. ~ Goes(h) /\ HeapHole(f, s, h.at, pos, len, n) /\ Range(f) = Range(s)
  BY <1>7, <1>8
<1>11. HeapFrom(f, pos, len)
  <2>1. SUFFICES ASSUME NEW i \in pos .. len - 1, NEW c \in pos .. len - 1, ChildOf(c, i, len)
                 PROVE  f[i + 1].key >= f[c + 1].key
    BY DEF HeapFrom
  <2>2. CASE i # h.at
    BY <1>10, <2>1, <2>2 DEF HeapHole, HeapBut
  <2>3. CASE i = h.at
    <3>1. PICK a \in [1 .. n -> Element] : a = h.array
      BY <1>8
    <3>2. LeftChild(i) < len
      BY <2>1 DEF ChildOf, LeftChild
    <3>3. i \in 0 .. len - 1 /\ c \in 0 .. len - 1 /\ c # i
      BY <2>1 DEF ChildOf
    <3>4. /\ Child(a, i, len) \in i + 1 .. len - 1
          /\ \A d \in 0 .. len - 1 : ChildOf(d, i, len) => a[d + 1].key <= a[Child(a, i, len) + 1].key
      BY <3>2, <3>3, ChildIsLarger
    <3>5. PICK d \in 0 .. len - 1 : d = Child(a, i, len)
      BY <3>4
    <3>6. ~ (e.key < a[d + 1].key) /\ a[c + 1].key <= a[d + 1].key
      BY <1>10, <2>1, <2>3, <3>1, <3>2, <3>3, <3>4, <3>5
    <3>7. a[d + 1].key \in Int /\ a[c + 1].key \in Int
      BY <3>3, ElementKey
    <3>8. f[i + 1] = e /\ f[c + 1] = a[c + 1]
      BY <1>9, <2>3, <3>1, <3>3
    <3> QED BY <1>1, <3>6, <3>7, <3>8
  <2> QED BY <2>2, <2>3
<1>12. PerceDownMax(s, pos, len) = f
  BY <1>5, <1>7
<1> HIDE DEF f
<1> QED BY <1>9, <1>10, <1>11, <1>12 DEF HeapHole

\* The root of a heap is its largest element.
LEMMA RootIsLargest ==
  ASSUME NEW n \in Nat, NEW a \in [1 .. n -> Element], NEW len \in 1 .. n, HeapFrom(a, 0, len)
  PROVE  AtMost(a, len, a[1].key)
<1> DEFINE P == {k \in Nat : k < len => a[k + 1].key <= a[1].key}
<1>1. \A x \in 1 .. n : a[x].key \in Int
  BY ElementKey
<1>2. ASSUME NEW k \in Nat, \A l \in Nat : l < k => l \in P PROVE k \in P
  <2>1. SUFFICES ASSUME k < len PROVE a[k + 1].key <= a[1].key
    OBVIOUS
  <2>2. CASE k = 0
    BY <1>1, <2>2
  <2>3. CASE k # 0
    <3>1. PICK l \in Nat : l = (k - 1) \div 2 /\ (k = 2 * l + 1 \/ k = 2 * l + 2)
      BY <2>3
    <3>2. l < k /\ l \in 0 .. len - 1 /\ k \in 0 .. len - 1 /\ ChildOf(k, l, len)
      BY <2>1, <3>1 DEF ChildOf
    <3>3. a[l + 1].key >= a[k + 1].key
      BY <3>2 DEF HeapFrom
    <3>4. a[l + 1].key <= a[1].key
      BY <1>2, <3>2
    <3> QED BY <1>1, <3>2, <3>3, <3>4
  <2> QED BY <2>2, <2>3
<1>3. \A k \in Nat : k \in P
  <2>1. P \in SUBSET Nat
    OBVIOUS
  <2> HIDE DEF P
  <2> QED BY <1>2, <2>1, CompleteInduction
<1>4. ASSUME NEW x \in 1 .. len PROVE a[x].key <= a[1].key
  <2>1. x - 1 \in P /\ x - 1 < len /\ x - 1 + 1 = x
    BY <1>3
  <2> QED BY <2>1
<1> QED BY <1>4 DEF AtMost

\* Each round of a loop that counts down keeps Inv.
KeepsDown(a, b, T, body, Inv) ==
  /\ b <= a + 1 /\ Inv \in SUBSET (Int \X T)
  /\ \A i \in b .. a, u \in T : <<i + 1, u>> \in Inv => <<i, body[i][u]>> \in Inv
\* The rule for loops that count down, in terms of KeepsDown.
LEMMA ForDownKeeps ==
  ASSUME NEW a \in Int, NEW b \in Int, NEW T, NEW t, NEW body, NEW Inv,
         KeepsDown(a, b, T, body, Inv), <<a + 1, t>> \in Inv
  PROVE  <<b, ForDown(a, b, t, body)>> \in Inv
BY ForDownRule DEF KeepsDown

\* The first loop of Heapsort() makes a heap of the array.
LEMMA BuildHeapMakesHeap ==
  ASSUME NEW n \in Nat, n # 0, NEW s \in [1 .. n -> Element]
  PROVE  /\ BuildHeap(s) \in [1 .. n -> Element] /\ Range(BuildHeap(s)) = Range(s)
         /\ HeapFrom(BuildHeap(s), 0, n)
<1>1. Len(s) = n /\ Array(s) = [1 .. n -> Element]
  BY ArrayOfN
<1>2. PICK m \in 0 .. n - 1 : m = n \div 2 /\ 2 * m + 1 >= n
  OBVIOUS
<1> DEFINE T == [1 .. n -> Element]
           body == [i \in 0 .. m |-> [a \in T |-> PerceDownMax(a, i, n)]]
           Good(i, a) == Range(a) = Range(s) /\ HeapFrom(a, i, n)
           Inv == {p \in Int \X T : Good(p[1], p[2])}
<1>3. <<m + 1, s>> \in Inv
  <2>1. HeapFrom(s, m + 1, n)
    BY <1>2 DEF HeapFrom, ChildOf
  <2>2. Good(m + 1, s)
    BY <2>1
  <2> HIDE DEF Good
  <2> QED BY <2>2
<1>4. ASSUME NEW i \in 0 .. m, NEW a \in T, <<i + 1, a>> \in Inv PROVE <<i, body[i][a]>> \in Inv
  <2> DEFINE b == PerceDownMax(a, i, n)
  <2>1. body[i][a] = b
    OBVIOUS
  <2>2. Good(i + 1, a)
    <3> HIDE DEF Good
    <3> QED BY <1>4
  <2>3. i \in 0 .. n - 1 /\ n \in 1 .. n /\ n \in Nat /\ i \in Int
    OBVIOUS
  <2>4. b \in T /\ Range(b) = Range(a) /\ HeapFrom(b, i, n)
    BY <2>2, <2>3, PerceDownMakesHeap
  <2> HIDE DEF b, body
  <2>5. Good(i, b)
    BY <2>2, <2>4
  <2> HIDE DEF Good
  <2> QED BY <2>1, <2>3, <2>4, <2>5
<1>5. Inv \in SUBSET (Int \X T) /\ 0 \in Int /\ m \in Int /\ 0 <= m + 1
  OBVIOUS
<1>6. BuildHeap(s) = ForDown(m, 0, s, body)
  BY <1>1, <1>2 DEF BuildHeap
<1> HIDE DEF Inv, body, T
<1>7. <<0, ForDown(m, 0, s, body)>> \in Inv
  <2>1. PICK a \in Int, b \in Int, t \in {s} : a = m /\ b = 0 /\ t = s
    BY <1>5
  <2>2. b <= a + 1
    BY <1>5, <2>1
  <2>3. Inv \in SUBSET (Int \X T)
    BY <1>5
  <2>4. <<a + 1, t>> \in Inv
    BY <1>3, <2>1
  <2>5. \A i \in b .. a, u \in T : <<i + 1, u>> \in Inv => <<i, body[i][u]>> \in Inv
    BY <1>4, <2>1
  <2>6. <<b, ForDown(a, b, t, body)>> \in Inv
    <3>1. KeepsDown(a, b, T, body, Inv)
      BY <2>2, <2>3, <2>5 DEF KeepsDown
    <3> QED BY <2>4, <3>1, ForDownKeeps
  <2> QED BY <2>1, <2>6
<1>8. BuildHeap(s) \in T /\ Good(0, BuildHeap(s))
  BY <1>6, <1>7 DEF Inv
<1> QED BY <1>8 DEF T

\* A round of the second loop moves the root to ori[i], its place.
LEMMA RootSettles ==
  ASSUME NEW n \in Nat, NEW a \in [1 .. n -> Element], NEW i \in 1 .. n - 1,
         HeapFrom(a, 0, i + 1), SettledFrom(a, i + 2, n),
         NEW r, r = PerceDownMax(Swap(a, 0, i), 0, i)
  PROVE  /\ r \in [1 .. n -> Element] /\ Range(r) = Range(a)
         /\ HeapFrom(r, 0, i) /\ SettledFrom(r, i + 1, n)
<1>1. 0 \in 0 .. n - 1 /\ i \in 0 .. n - 1 /\ i \in 1 .. n /\ i + 1 \in 1 .. n /\ 0 \in 0 .. i - 1 /\ 1 \in 1 .. n
  OBVIOUS
<1>2. PICK b : b = Swap(a, 0, i)
  OBVIOUS
<1>3. /\ b \in [1 .. n -> Element] /\ Range(b) = Range(a)
      /\ \A x \in 1 .. n : b[x] = IF x = i + 1 THEN a[1] ELSE IF x = 1 THEN a[i + 1] ELSE a[x]
  <2>1. /\ Swap(a, 0, i) \in [1 .. n -> Element] /\ Range(Swap(a, 0, i)) = Range(a)
        /\ \A x \in 1 .. n : Swap(a, 0, i)[x] = IF x = i + 1 THEN a[0 + 1]
                                                ELSE IF x = 0 + 1 THEN a[i + 1] ELSE a[x]
    <3>1. PICK k \in 0 .. n - 1, j \in 0 .. n - 1 : k = 0 /\ j = i
      BY <1>1
    <3>2. /\ Swap(a, k, j) \in [1 .. n -> Element] /\ Range(Swap(a, k, j)) = Range(a)
          /\ \A x \in 1 .. n : Swap(a, k, j)[x] = IF x = j + 1 THEN a[k + 1]
                                                  ELSE IF x = k + 1 THEN a[j + 1] ELSE a[x]
      BY SwapKeeps
    <3> QED BY <3>1, <3>2
  <2> QED BY <1>2, <2>1
<1>4. \A x \in 1 .. n : a[x].key \in Int /\ b[x].key \in Int
  BY <1>3, ElementKey
<1>5. AtMost(a, i + 1, a[1].key)
  BY <1>1, RootIsLargest
<1>6. HeapFrom(b, 0 + 1, i)
  <2>1. SUFFICES ASSUME NEW k \in 1 .. i - 1, NEW c \in 1 .. i - 1, ChildOf(c, k, i)
                 PROVE  b[k + 1].key >= b[c + 1].key
    BY DEF HeapFrom
  <2>2. b[k + 1] = a[k + 1] /\ b[c + 1] = a[c + 1]
    BY <1>3
  <2>3. k \in 0 .. i + 1 - 1 /\ c \in 0 .. i + 1 - 1 /\ ChildOf(c, k, i + 1)
    BY <2>1 DEF ChildOf
  <2>4. a[k + 1].key >= a[c + 1].key
    BY <2>3 DEF HeapFrom
  <2> QED BY <2>2, <2>4
<1>7. /\ r \in [1 .. n -> Element] /\ Range(r) = Range(b) /\ HeapFrom(r, 0, i)
      /\ \A x \in i + 1 .. n : r[x] = b[x]
      /\ \A v \in Int : AtMost(b, i, v) => AtMost(r, i, v)
  <2>1. r = PerceDownMax(b, 0, i)
    BY <1>2
  <2> QED BY <1>1, <1>3, <1>6, <2>1, PerceDownMakesHeap
<1>8. SettledFrom(r, i + 1, n)
  <2>1. SUFFICES ASSUME NEW x \in 1 .. n, NEW y \in i + 1 .. n, x < y PROVE r[x].key <= r[y].key
    BY DEF SettledFrom
  <2>2. y \in 1 .. n /\ r[y] = b[y]
    BY <1>7
  <2>3. \A v \in 1 .. n, w \in i + 2 .. n : v < w => a[v].key <= a[w].key
    BY DEF SettledFrom
  <2>4. CASE x > i
    <3>1. r[x] = b[x] /\ y \in i + 2 .. n /\ b[y] = a[y]
      BY <1>3, <1>7, <2>1, <2>4
    <3>2. b[x] = a[1] \/ b[x] = a[x]
      BY <1>3, <2>4
    <3>3. 1 < y
      BY <2>1
    <3> QED BY <1>1, <2>1, <2>2, <2>3, <3>1, <3>2, <3>3
  <2>5. CASE x <= i
    <3>1. AtMost(b, i, b[y].key)
      <4>1. SUFFICES ASSUME NEW z \in 1 .. i PROVE b[z].key <= b[y].key
        BY DEF AtMost
      <4>2. PICK v \in 1 .. i + 1 : b[z] = a[v]
        BY <1>3
      <4>3. CASE y = i + 1
        <5>1. b[y] = a[1]
          BY <1>3, <4>3
        <5> QED BY <1>5, <4>2, <5>1 DEF AtMost
      <4>4. CASE y # i + 1
        <5>1. b[y] = a[y] /\ y \in i + 2 .. n /\ v \in 1 .. n /\ v < y
          BY <1>3, <4>4
        <5> QED BY <2>3, <4>2, <5>1
      <4> QED BY <4>3, <4>4
    <3>2. AtMost(r, i, b[y].key)
      BY <1>4, <1>7, <2>2, <3>1
    <3> QED BY <2>2, <2>5, <3>2 DEF AtMost
  <2> QED BY <2>4, <2>5
<1> QED BY <1>3, <1>7, <1>8

\* Heapsort() sorts every array.
LEMMA HeapsortSorts ==
  ASSUME NEW n \in Nat \ {0}, NEW s \in [1 .. n -> Element]
  PROVE  /\ Heapsort(s) \in [1 .. n -> Element] /\ Range(Heapsort(s)) = Range(s)
         /\ Sorted(Heapsort(s), n)
<1>1. Len(s) = n /\ Array(s) = [1 .. n -> Element]
  BY ArrayOfN
<1> DEFINE T == [1 .. n -> Element]
           t == BuildHeap(s)
           body == [i \in 1 .. n - 1 |-> [a \in T |-> PerceDownMax(Swap(a, 0, i), 0, i)]]
           Good(i, a) == Range(a) = Range(s) /\ HeapFrom(a, 0, i) /\ SettledFrom(a, i + 1, n)
           Inv == {p \in Int \X T : Good(p[1], p[2])}
<1>2. <<n - 1 + 1, t>> \in Inv
  <2>1. t \in T /\ Range(t) = Range(s) /\ HeapFrom(t, 0, n)
    BY BuildHeapMakesHeap
  <2>2. SettledFrom(t, n + 1, n)
    BY DEF SettledFrom
  <2>3. n - 1 + 1 = n
    OBVIOUS
  <2> HIDE DEF t
  <2>4. Good(n - 1 + 1, t)
    BY <2>1, <2>2, <2>3
  <2> HIDE DEF Good
  <2> QED BY <2>1, <2>4
<1>3. ASSUME NEW i \in 1 .. n - 1, NEW a \in T, <<i + 1, a>> \in Inv PROVE <<i, body[i][a]>> \in Inv
  <2> DEFINE b == PerceDownMax(Swap(a, 0, i), 0, i)
  <2>1. body[i][a] = b
    OBVIOUS
  <2>2. Good(i + 1, a)
    <3> HIDE DEF Good
    <3> QED BY <1>3
  <2>3. i + 1 + 1 = i + 2 /\ n \in Nat
    OBVIOUS
  <2>4. /\ b \in T /\ Range(b) = Range(a)
        /\ HeapFrom(b, 0, i) /\ SettledFrom(b, i + 1, n)
    BY <2>2, <2>3, RootSettles
  <2> HIDE DEF b, body
  <2>5. Good(i, b)
    BY <2>2, <2>4
  <2> HIDE DEF Good
  <2> QED BY <2>1, <2>4, <2>5
<1>4. Inv \in SUBSET (Int \X T) /\ 1 \in Int /\ n - 1 \in Int /\ 1 <= n - 1 + 1
  OBVIOUS
<1>5. Heapsort(s) = ForDown(n - 1, 1, t, body)
  BY <1>1 DEF Heapsort
<1> HIDE DEF Inv, body, T, t
<1>6. <<1, ForDown(n - 1, 1, t, body)>> \in Inv
  BY <1>2, <1>3, <1>4, ForDownRule
<1>7. Heapsort(s) \in T /\ Good(1, Heapsort(s))
  BY <1>5, <1>6 DEF Inv
<1>8. Sorted(Heapsort(s), n)
  BY <1>7 DEF SettledFrom, Sorted
<1> QED BY <1>7, <1>8 DEF T

\* What Merge() has done after k elements: they are those it took from both sides.
Taken(l, r, m, k) ==
  /\ m.left + m.right = k /\ Len(m.tmpA) = k
  /\ \A x \in 1 .. k : \/ \E y \in 1 .. m.left : m.tmpA[x] = l[y]
                       \/ \E y \in 1 .. m.right : m.tmpA[x] = r[y]
  /\ \A y \in 1 .. m.left : \E x \in 1 .. k : m.tmpA[x] = l[y]
  /\ \A y \in 1 .. m.right : \E x \in 1 .. k : m.tmpA[x] = r[y]

\* The order in which Merge() leaves elements: by key, and of equal keys the later first.
Before(e, f) == e.key < f.key \/ (e.key = f.key /\ e.id > f.id)
Ordered(a, m) == \A x, y \in 1 .. m : x < y => Before(a[x], a[y])

\* Both halves are in this order, and the elements of l were in front of those of r.
Mergeable(l, r) ==
  /\ Ordered(l, Len(l)) /\ Ordered(r, Len(r))
  /\ \A x \in 1 .. Len(l), y \in 1 .. Len(r) : l[x].id < r[y].id

\* What was taken comes before what is left.
InFront(q, k, l, from) == \A x \in 1 .. k, y \in from + 1 .. Len(l) : Before(q[x], l[y])
\* What is in tmpA is in order, and before what is left in either half.
TakenInOrder(l, r, m, k) ==
  Ordered(m.tmpA, k) /\ InFront(m.tmpA, k, l, m.left) /\ InFront(m.tmpA, k, r, m.right)

\* The order is transitive.
LEMMA BeforeTransitive ==
  ASSUME NEW d \in Element, NEW e \in Element, NEW f \in Element, Before(d, e), Before(e, f)
  PROVE  Before(d, f)
<1>1. d.key \in Int /\ e.key \in Int /\ f.key \in Int
  BY ElementKey
<1>2. d.id \in Int /\ e.id \in Int /\ f.id \in Int
  BY DEF Element
<1> QED BY <1>1, <1>2 DEF Before

\* One more element, from l; r is the other side.
LEMMA TakeAppends ==
  ASSUME NEW l \in Seq(Element), NEW i \in 0 .. Len(l) - 1, NEW q \in Seq(Element), NEW k \in Nat, Len(q) = k
  PROVE  LET p == Append(q, l[i + 1]) IN
         p \in Seq(Element) /\ Len(p) = k + 1 /\ p[k + 1] = l[i + 1] /\ \A x \in 1 .. k : p[x] = q[x]
<1>1. i + 1 \in 1 .. Len(l) /\ l[i + 1] \in Element
  OBVIOUS
<1> QED BY <1>1

\* It comes before what is left if it comes before the first of the other side.
LEMMA TakeOrders ==
  ASSUME NEW l \in Seq(Element), NEW r \in Seq(Element), NEW i \in 0 .. Len(l) - 1, NEW j \in 0 .. Len(r),
         NEW q \in Seq(Element), NEW k \in Nat, Len(q) = k, NEW p, p[k + 1] = l[i + 1],
         \A x \in 1 .. k : p[x] = q[x],
         Ordered(q, k), InFront(q, k, l, i), InFront(q, k, r, j), Ordered(l, Len(l)), Ordered(r, Len(r)),
         j < Len(r) => Before(l[i + 1], r[j + 1])
  PROVE  Ordered(p, k + 1) /\ InFront(p, k + 1, l, i + 1) /\ InFront(p, k + 1, r, j)
<1>0. i + 1 \in 1 .. Len(l)
  OBVIOUS
<1>1. /\ \A x \in 1 .. Len(l) : l[x] \in Element
      /\ \A x \in 1 .. Len(r) : r[x] \in Element
  OBVIOUS
<1>2. \A x \in 1 .. k + 1 : x = k + 1 \/ (x \in 1 .. k /\ p[x] = q[x])
  OBVIOUS
<1>3. \A x \in 1 .. k : Before(q[x], l[i + 1])
  BY <1>0 DEF InFront
<1>4. Ordered(p, k + 1)
  <2>1. SUFFICES ASSUME NEW x \in 1 .. k + 1, NEW y \in 1 .. k + 1, x < y PROVE Before(p[x], p[y])
    BY DEF Ordered
  <2>2. x \in 1 .. k /\ p[x] = q[x]
    BY <1>2, <2>1
  <2>3. CASE y = k + 1
    BY <1>3, <2>2, <2>3
  <2>4. CASE y # k + 1
    BY <1>2, <2>1, <2>2, <2>4 DEF Ordered
  <2> QED BY <2>3, <2>4
<1>5. InFront(p, k + 1, l, i + 1)
  <2>1. SUFFICES ASSUME NEW x \in 1 .. k + 1, NEW y \in i + 1 + 1 .. Len(l) PROVE Before(p[x], l[y])
    BY DEF InFront
  <2>2. y \in i + 1 .. Len(l) /\ i + 1 < y /\ y \in 1 .. Len(l)
    OBVIOUS
  <2>3. CASE x = k + 1
    BY <1>0, <2>2, <2>3 DEF Ordered
  <2>4. CASE x # k + 1
    BY <1>2, <2>2, <2>4 DEF InFront
  <2> QED BY <2>3, <2>4
<1>6. InFront(p, k + 1, r, j)
  <2>1. SUFFICES ASSUME NEW x \in 1 .. k + 1, NEW y \in j + 1 .. Len(r) PROVE Before(p[x], r[y])
    BY DEF InFront
  <2>2. j < Len(r) /\ j + 1 \in 1 .. Len(r) /\ y \in 1 .. Len(r)
    OBVIOUS
  <2>3. CASE x = k + 1
    <3>1. Before(l[i + 1], r[j + 1])
      BY <2>2
    <3>2. y = j + 1 \/ Before(r[j + 1], r[y])
      BY <2>2 DEF Ordered
    <3>3. l[i + 1] \in Element /\ r[j + 1] \in Element /\ r[y] \in Element
      BY <1>0, <1>1, <2>2
    <3>4. Before(l[i + 1], r[y])
      BY <3>1, <3>2, <3>3, BeforeTransitive
    <3> QED BY <2>3, <3>4
  <2>4. CASE x # k + 1
    BY <1>2, <2>4 DEF InFront
  <2> QED BY <2>3, <2>4
<1> QED BY <1>4, <1>5, <1>6

\* Merge() puts all elements of both sides in order, equal ones reversed, if both sides are.
LEMMA MergeSorts ==
  ASSUME NEW l \in Seq(Element), NEW r \in Seq(Element)
  PROVE  /\ Merge(l, r) \in Seq(Element) /\ Len(Merge(l, r)) = Len(l) + Len(r)
         /\ Range(Merge(l, r)) = Range(l) \cup Range(r)
         /\ Mergeable(l, r) => Ordered(Merge(l, r), Len(l) + Len(r))
<1> DEFINE T == [left : 0 .. Len(l), right : 0 .. Len(r), tmpA : Seq(Element)]
           n == Len(l) + Len(r)
           body == [k \in 1 .. n |-> [m \in T |->
                  IF m.left < Len(l)
                     /\ (m.right = Len(r) \/ l[m.left + 1].key < r[m.right + 1].key)
                  THEN [m EXCEPT !.left = @ + 1, !.tmpA = Append(@, l[m.left + 1])]
                  ELSE [m EXCEPT !.right = @ + 1, !.tmpA = Append(@, r[m.right + 1])]]]
           start == [left |-> 0, right |-> 0, tmpA |-> << >>]
           Good(k, m) == /\ Taken(l, r, m, k)
                         /\ Mergeable(l, r) => TakenInOrder(l, r, m, k)
           Inv == {p \in Int \X T : Good(p[1], p[2])}
<1>1. Len(l) \in Nat /\ Len(r) \in Nat /\ n \in Nat
  OBVIOUS
<1>2. <<1 - 1, start>> \in Inv
  <2>1. start \in T /\ start.left = 0 /\ start.right = 0 /\ start.tmpA = << >>
    BY <1>1
  <2> HIDE DEF start
  <2>2. Taken(l, r, start, 0)
    BY <2>1 DEF Taken
  <2>3. TakenInOrder(l, r, start, 0)
    BY <2>1 DEF TakenInOrder, Ordered, InFront
  <2>4. Good(1 - 1, start)
    BY <2>2, <2>3
  <2> HIDE DEF Good, T
  <2> QED BY <2>1, <2>4
<1>3. ASSUME NEW k \in 1 .. n, NEW m \in T, <<k - 1, m>> \in Inv PROVE <<k, body[k][m]>> \in Inv
  <2>1. Good(k - 1, m)
    <3> HIDE DEF Good
    <3> QED BY <1>3
  <2>2. /\ m.left \in 0 .. Len(l) /\ m.right \in 0 .. Len(r) /\ m.tmpA \in Seq(Element)
        /\ k - 1 \in Nat /\ m.left + m.right = k - 1 /\ Len(m.tmpA) = k - 1 /\ k - 1 + 1 = k
    BY <2>1 DEF Taken
  <2>3. PICK i \in 0 .. Len(l), j \in 0 .. Len(r), q \in Seq(Element), c \in Nat :
          i = m.left /\ j = m.right /\ q = m.tmpA /\ c = k - 1 /\ Len(q) = c /\ i + j = c /\ c + 1 = k
    BY <2>2
  <2>4. /\ Mergeable(l, r) => Ordered(q, c) /\ InFront(q, c, l, i) /\ InFront(q, c, r, j)
        /\ \A x \in 1 .. c : (\E y \in 1 .. i : q[x] = l[y]) \/ (\E y \in 1 .. j : q[x] = r[y])
        /\ \A y \in 1 .. i : \E x \in 1 .. c : q[x] = l[y]
        /\ \A y \in 1 .. j : \E x \in 1 .. c : q[x] = r[y]
    BY <2>1, <2>3 DEF Taken, TakenInOrder
  <2>5. CASE i < Len(l) /\ (j = Len(r) \/ l[i + 1].key < r[j + 1].key)
    <3> DEFINE p == Append(q, l[i + 1])
               g == body[k][m]
    <3>1. g = [m EXCEPT !.left = i + 1, !.tmpA = p]
      BY <2>3, <2>5
    <3>2. l[i + 1].key \in Int /\ (j < Len(r) => r[j + 1].key \in Int) /\ i \in 0 .. Len(l) - 1 /\ i + 1 \in 0 .. Len(l)
      BY <2>5, ElementKey
    <3>3. j < Len(r) => l[i + 1].key < r[j + 1].key
      BY <2>5, <3>2
    <3>4. /\ p \in Seq(Element) /\ Len(p) = c + 1 /\ p[c + 1] = l[i + 1] /\ \A x \in 1 .. c : p[x] = q[x]
          /\ Mergeable(l, r) =>
               Ordered(p, c + 1) /\ InFront(p, c + 1, l, i + 1) /\ InFront(p, c + 1, r, j)
      <4>1. p \in Seq(Element) /\ Len(p) = c + 1 /\ p[c + 1] = l[i + 1] /\ \A x \in 1 .. c : p[x] = q[x]
        BY <2>3, <3>2, TakeAppends
      <4> HIDE DEF p
      <4>2. ASSUME Mergeable(l, r)
            PROVE  Ordered(p, c + 1) /\ InFront(p, c + 1, l, i + 1) /\ InFront(p, c + 1, r, j)
        <5>1. Ordered(q, c) /\ InFront(q, c, l, i) /\ InFront(q, c, r, j) /\ Len(q) = c
          BY <2>3, <2>4, <4>2
        <5>2. Ordered(l, Len(l)) /\ Ordered(r, Len(r))
          BY <4>2 DEF Mergeable
        <5>3. j < Len(r) => Before(l[i + 1], r[j + 1])
          BY <3>3 DEF Before
        <5> QED BY <3>2, <4>1, <5>1, <5>2, <5>3, TakeOrders
      <4> QED BY <4>1, <4>2
    <3> HIDE DEF p, body
    <3>5. g \in T /\ g.left = i + 1 /\ g.right = j /\ g.tmpA = p
      BY <2>3, <3>1, <3>2, <3>4
    <3> HIDE DEF g
    <3>6. ASSUME NEW x \in 1 .. k
          PROVE  (\E y \in 1 .. i + 1 : p[x] = l[y]) \/ (\E y \in 1 .. j : p[x] = r[y])
      <4>1. CASE x = c + 1
        <5>1. p[x] = l[i + 1] /\ i + 1 \in 1 .. i + 1
          BY <3>2, <3>4, <4>1
        <5> QED BY <5>1
      <4>2. CASE x \in 1 .. c
        <5>1. p[x] = q[x]
          BY <3>4, <4>2
        <5>2. (\E y \in 1 .. i : q[x] = l[y]) \/ (\E y \in 1 .. j : q[x] = r[y])
          BY <2>4, <4>2
        <5>3. CASE \E y \in 1 .. j : q[x] = r[y]
          BY <5>1, <5>3
        <5>4. CASE \E y \in 1 .. i : q[x] = l[y]
          <6>1. PICK y \in 1 .. i : q[x] = l[y]
            BY <5>4
          <6>2. y \in 1 .. i + 1
            OBVIOUS
          <6> QED BY <5>1, <6>1, <6>2
        <5> QED BY <5>2, <5>3, <5>4
      <4> QED BY <2>3, <4>1, <4>2
    <3>7. \A y \in 1 .. i + 1 : \E x \in 1 .. k : p[x] = l[y]
      <4>1. SUFFICES ASSUME NEW y \in 1 .. i + 1 PROVE \E x \in 1 .. k : p[x] = l[y]
        OBVIOUS
      <4>2. CASE y = i + 1
        BY <2>3, <3>4, <4>2
      <4>3. CASE y \in 1 .. i
        BY <2>3, <2>4, <3>4, <4>3
      <4> QED BY <4>2, <4>3
    <3>8. \A y \in 1 .. j : \E x \in 1 .. k : p[x] = r[y]
      BY <2>3, <2>4, <3>4
    <3>9. Taken(l, r, g, k)
      <4>1. g.left + g.right = k /\ Len(g.tmpA) = k
        BY <2>3, <3>4, <3>5
      <4>2. \A x \in 1 .. k : \/ \E y \in 1 .. g.left : g.tmpA[x] = l[y]
                             \/ \E y \in 1 .. g.right : g.tmpA[x] = r[y]
        BY <3>5, <3>6
      <4>3. /\ \A y \in 1 .. g.left : \E x \in 1 .. k : g.tmpA[x] = l[y]
            /\ \A y \in 1 .. g.right : \E x \in 1 .. k : g.tmpA[x] = r[y]
        BY <3>5, <3>7, <3>8
      <4> QED BY <4>1, <4>2, <4>3 DEF Taken
    <3>10. Mergeable(l, r) => TakenInOrder(l, r, g, k)
      BY <2>3, <3>4, <3>5 DEF TakenInOrder
    <3>11. Good(k, g) /\ k \in Int
      BY <3>9, <3>10
    <3> HIDE DEF Good, T
    <3> QED BY <3>5, <3>11 DEF g
  <2>6. CASE ~ (i < Len(l) /\ (j = Len(r) \/ l[i + 1].key < r[j + 1].key))
    <3> DEFINE p == Append(q, r[j + 1])
               g == body[k][m]
    <3>1. g = [m EXCEPT !.right = j + 1, !.tmpA = p]
      BY <2>3, <2>6
    <3>2. j \in 0 .. Len(r) - 1 /\ j + 1 \in 0 .. Len(r)
      BY <2>3, <2>6
    <3>3. i < Len(l) => r[j + 1].key <= l[i + 1].key
      <4>1. r[j + 1].key \in Int /\ (i < Len(l) => l[i + 1].key \in Int)
        BY <3>2, ElementKey
      <4> QED BY <2>6, <4>1
    <3>4. /\ p \in Seq(Element) /\ Len(p) = c + 1 /\ p[c + 1] = r[j + 1] /\ \A x \in 1 .. c : p[x] = q[x]
          /\ Mergeable(l, r) =>
               Ordered(p, c + 1) /\ InFront(p, c + 1, r, j + 1) /\ InFront(p, c + 1, l, i)
      <4>1. p \in Seq(Element) /\ Len(p) = c + 1 /\ p[c + 1] = r[j + 1] /\ \A x \in 1 .. c : p[x] = q[x]
        BY <2>3, <3>2, TakeAppends
      <4> HIDE DEF p
      <4>2. ASSUME Mergeable(l, r)
            PROVE  Ordered(p, c + 1) /\ InFront(p, c + 1, r, j + 1) /\ InFront(p, c + 1, l, i)
        <5>1. Ordered(q, c) /\ InFront(q, c, l, i) /\ InFront(q, c, r, j) /\ Len(q) = c
          BY <2>3, <2>4, <4>2
        <5>2. Ordered(l, Len(l)) /\ Ordered(r, Len(r))
          BY <4>2 DEF Mergeable
        <5>3. i < Len(l) => Before(r[j + 1], l[i + 1])
          <6>1. SUFFICES ASSUME i < Len(l) PROVE Before(r[j + 1], l[i + 1])
            OBVIOUS
          <6>2. r[j + 1].key <= l[i + 1].key /\ r[j + 1].key \in Int /\ l[i + 1].key \in Int
            BY <3>2, <3>3, <6>1, ElementKey
          <6>3. l[i + 1].id < r[j + 1].id /\ l[i + 1].id \in Int /\ r[j + 1].id \in Int
            <7>1. i + 1 \in 1 .. Len(l) /\ j + 1 \in 1 .. Len(r)
              BY <3>2, <6>1
            <7>2. l[i + 1] \in Element /\ r[j + 1] \in Element
              BY <7>1
            <7> QED BY <4>2, <7>1, <7>2 DEF Mergeable, Element
          <6> QED BY <6>2, <6>3 DEF Before
        <5> QED BY <3>2, <4>1, <5>1, <5>2, <5>3, TakeOrders
      <4> QED BY <4>1, <4>2
    <3> HIDE DEF p, body
    <3>5. g \in T /\ g.left = i /\ g.right = j + 1 /\ g.tmpA = p
      BY <2>3, <3>1, <3>2, <3>4
    <3> HIDE DEF g
    <3>6. ASSUME NEW x \in 1 .. k
          PROVE  (\E y \in 1 .. i : p[x] = l[y]) \/ (\E y \in 1 .. j + 1 : p[x] = r[y])
      <4>1. CASE x = c + 1
        <5>1. p[x] = r[j + 1] /\ j + 1 \in 1 .. j + 1
          BY <3>2, <3>4, <4>1
        <5> QED BY <5>1
      <4>2. CASE x \in 1 .. c
        <5>1. p[x] = q[x]
          BY <3>4, <4>2
        <5>2. (\E y \in 1 .. i : q[x] = l[y]) \/ (\E y \in 1 .. j : q[x] = r[y])
          BY <2>4, <4>2
        <5>3. CASE \E y \in 1 .. i : q[x] = l[y]
          BY <5>1, <5>3
        <5>4. CASE \E y \in 1 .. j : q[x] = r[y]
          <6>1. PICK y \in 1 .. j : q[x] = r[y]
            BY <5>4
          <6>2. y \in 1 .. j + 1
            OBVIOUS
          <6> QED BY <5>1, <6>1, <6>2
        <5> QED BY <5>2, <5>3, <5>4
      <4> QED BY <2>3, <4>1, <4>2
    <3>7. \A y \in 1 .. j + 1 : \E x \in 1 .. k : p[x] = r[y]
      <4>1. SUFFICES ASSUME NEW y \in 1 .. j + 1 PROVE \E x \in 1 .. k : p[x] = r[y]
        OBVIOUS
      <4>2. CASE y = j + 1
        BY <2>3, <3>4, <4>2
      <4>3. CASE y \in 1 .. j
        BY <2>3, <2>4, <3>4, <4>3
      <4> QED BY <4>2, <4>3
    <3>8. \A y \in 1 .. i : \E x \in 1 .. k : p[x] = l[y]
      BY <2>3, <2>4, <3>4
    <3>9. Taken(l, r, g, k)
      <4>1. g.left + g.right = k /\ Len(g.tmpA) = k
        BY <2>3, <3>4, <3>5
      <4>2. \A x \in 1 .. k : \/ \E y \in 1 .. g.left : g.tmpA[x] = l[y]
                             \/ \E y \in 1 .. g.right : g.tmpA[x] = r[y]
        BY <3>5, <3>6
      <4>3. /\ \A y \in 1 .. g.left : \E x \in 1 .. k : g.tmpA[x] = l[y]
            /\ \A y \in 1 .. g.right : \E x \in 1 .. k : g.tmpA[x] = r[y]
        BY <3>5, <3>7, <3>8
      <4> QED BY <4>1, <4>2, <4>3 DEF Taken
    <3>10. Mergeable(l, r) => TakenInOrder(l, r, g, k)
      BY <2>3, <3>4, <3>5 DEF TakenInOrder
    <3>11. Good(k, g) /\ k \in Int
      BY <3>9, <3>10
    <3> HIDE DEF Good, T
    <3> QED BY <3>5, <3>11 DEF g
  <2> QED BY <2>5, <2>6
<1>4. Inv \in SUBSET (Int \X T) /\ 1 \in Int /\ n \in Int /\ 1 - 1 <= n
  BY <1>1
<1>5. Merge(l, r) = ForUp(1, n, start, body).tmpA
  BY DEF Merge
<1> HIDE DEF Inv, body, T, start
<1>6. <<n, ForUp(1, n, start, body)>> \in Inv
  <2> HIDE DEF n
  <2> QED BY <1>2, <1>3, <1>4, ForUpRule
<1>7. PICK m \in T : m = ForUp(1, n, start, body) /\ Good(n, m)
  <2> HIDE DEF Good
  <2> QED BY <1>6 DEF Inv
<1>8. m.left = Len(l) /\ m.right = Len(r) /\ m.tmpA \in Seq(Element) /\ Len(m.tmpA) = n
  BY <1>1, <1>7 DEF T, Taken
<1>9. PICK q \in Seq(Element) : q = Merge(l, r) /\ q = m.tmpA /\ Len(q) = n
  BY <1>5, <1>7, <1>8
<1>10. Range(q) = Range(l) \cup Range(r)
  <2>1. DOMAIN q = 1 .. n /\ DOMAIN l = 1 .. Len(l) /\ DOMAIN r = 1 .. Len(r)
    BY <1>9
  <2>2. /\ \A x \in 1 .. n : (\E y \in 1 .. Len(l) : q[x] = l[y]) \/ (\E y \in 1 .. Len(r) : q[x] = r[y])
        /\ \A y \in 1 .. Len(l) : \E x \in 1 .. n : q[x] = l[y]
        /\ \A y \in 1 .. Len(r) : \E x \in 1 .. n : q[x] = r[y]
    <3>1. Taken(l, r, m, n)
      BY <1>7
    <3>2. /\ \A x \in 1 .. n : \/ \E y \in 1 .. m.left : m.tmpA[x] = l[y]
                              \/ \E y \in 1 .. m.right : m.tmpA[x] = r[y]
          /\ \A y \in 1 .. m.left : \E x \in 1 .. n : m.tmpA[x] = l[y]
          /\ \A y \in 1 .. m.right : \E x \in 1 .. n : m.tmpA[x] = r[y]
      BY <3>1 DEF Taken
    <3> HIDE DEF n
    <3> QED BY <1>8, <1>9, <3>2
  <2>3. /\ Range(q) = {q[x] : x \in 1 .. n} /\ Range(l) = {l[x] : x \in 1 .. Len(l)}
        /\ Range(r) = {r[x] : x \in 1 .. Len(r)}
    BY <2>1 DEF Range
  <2> HIDE DEF n
  <2>4. ASSUME NEW e PROVE e \in Range(q) <=> e \in Range(l) \cup Range(r)
    BY <2>2, <2>3
  <2> QED BY <2>4
<1> QED BY <1>7, <1>8, <1>9, <1>10 DEF TakenInOrder

\* A part of an array.
LEMMA PartOf ==
  ASSUME NEW q \in Seq(Element), NEW a \in 1 .. Len(q) + 1, NEW b \in a - 1 .. Len(q)
  PROVE  /\ SubSeq(q, a, b) \in Seq(Element) /\ Len(SubSeq(q, a, b)) = b - a + 1
         /\ \A x \in 1 .. b - a + 1 : SubSeq(q, a, b)[x] = q[x + a - 1]
         /\ Range(SubSeq(q, a, b)) = {q[x] : x \in a .. b}
<1> DEFINE p == SubSeq(q, a, b)
<1>1. p \in Seq(Element) /\ Len(p) = b - a + 1
  <2>1. CASE a <= b
    BY <2>1
  <2>2. CASE b < a
    BY <2>2
  <2> QED BY <2>1, <2>2
<1>2. \A x \in 1 .. b - a + 1 : p[x] = q[x + a - 1]
  OBVIOUS
<1>3. DOMAIN p = 1 .. b - a + 1
  BY <1>1
<1> HIDE DEF p
<1>4. Range(p) = {p[x] : x \in 1 .. b - a + 1}
  BY <1>3 DEF Range
<1>5. ASSUME NEW x \in 1 .. b - a + 1 PROVE p[x] \in {q[y] : y \in a .. b}
  <2>1. x + a - 1 \in a .. b /\ p[x] = q[x + a - 1]
    BY <1>2
  <2> QED BY <2>1
<1>6. ASSUME NEW y \in a .. b PROVE q[y] \in {p[x] : x \in 1 .. b - a + 1}
  <2>1. y - a + 1 \in 1 .. b - a + 1 /\ y - a + 1 + a - 1 = y
    OBVIOUS
  <2>2. p[y - a + 1] = q[y]
    BY <1>2, <2>1
  <2> QED BY <2>1, <2>2
<1>7. Range(p) = {q[x] : x \in a .. b}
  BY <1>4, <1>5, <1>6
<1> QED BY <1>1, <1>2, <1>7 DEF p

\* Msort() divides an array in two shorter ones.
Half(q, k) == IF k = 1 THEN SubSeq(q, 1, (Len(q) - 1) \div 2 + 1) ELSE SubSeq(q, (Len(q) - 1) \div 2 + 2, Len(q))

\* The elements are as the caller had them: each with a greater id than the one before.
IdsAscend(q) == \A x, y \in 1 .. Len(q) : x < y => q[x].id < q[y].id

\* The halves of an array of two or more are shorter than it and have its elements.
LEMMA TwoHalves ==
  ASSUME NEW q \in Seq(Element), Len(q) > 1
  PROVE  /\ \A k \in {1, 2} : Half(q, k) \in Seq(Element) /\ Len(Half(q, k)) < Len(q)
         /\ Len(Half(q, 1)) + Len(Half(q, 2)) = Len(q)
         /\ Range(Half(q, 1)) \cup Range(Half(q, 2)) = Range(q)
         /\ IdsAscend(q) => /\ IdsAscend(Half(q, 1)) /\ IdsAscend(Half(q, 2))
                            /\ \A d \in Range(Half(q, 1)), e \in Range(Half(q, 2)) : d.id < e.id
<1>1. PICK n \in Nat : n = Len(q) /\ n > 1
  OBVIOUS
<1>2. PICK c \in 0 .. n - 2 : c = (n - 1) \div 2
  BY <1>1
<1>3. 1 \in 1 .. n + 1 /\ c + 1 \in 1 - 1 .. n /\ c + 2 \in 1 .. n + 1 /\ n \in c + 2 - 1 .. n
  OBVIOUS
<1>4. Half(q, 1) = SubSeq(q, 1, c + 1) /\ Half(q, 2) = SubSeq(q, c + 2, n)
  BY <1>1, <1>2 DEF Half
<1>5. /\ SubSeq(q, 1, c + 1) \in Seq(Element) /\ Len(SubSeq(q, 1, c + 1)) = c + 1 - 1 + 1
      /\ Range(SubSeq(q, 1, c + 1)) = {q[x] : x \in 1 .. c + 1}
      /\ \A x \in 1 .. c + 1 - 1 + 1 : SubSeq(q, 1, c + 1)[x] = q[x + 1 - 1]
  <2>1. PICK d \in 1 .. Len(q) + 1, e \in Nat : d = 1 /\ e = c + 1 /\ e \in d - 1 .. Len(q)
    BY <1>1, <1>3
  <2>2. /\ SubSeq(q, d, e) \in Seq(Element) /\ Len(SubSeq(q, d, e)) = e - d + 1
        /\ Range(SubSeq(q, d, e)) = {q[x] : x \in d .. e}
        /\ \A x \in 1 .. e - d + 1 : SubSeq(q, d, e)[x] = q[x + d - 1]
    BY <2>1, PartOf
  <2> QED BY <2>1, <2>2
<1>6. /\ SubSeq(q, c + 2, n) \in Seq(Element) /\ Len(SubSeq(q, c + 2, n)) = n - (c + 2) + 1
      /\ Range(SubSeq(q, c + 2, n)) = {q[x] : x \in c + 2 .. n}
      /\ \A x \in 1 .. n - (c + 2) + 1 : SubSeq(q, c + 2, n)[x] = q[x + (c + 2) - 1]
  <2>1. PICK d \in 1 .. Len(q) + 1 : d = c + 2 /\ n \in d - 1 .. Len(q)
    BY <1>1, <1>3
  <2>2. /\ SubSeq(q, d, n) \in Seq(Element) /\ Len(SubSeq(q, d, n)) = n - d + 1
        /\ Range(SubSeq(q, d, n)) = {q[x] : x \in d .. n}
        /\ \A x \in 1 .. n - d + 1 : SubSeq(q, d, n)[x] = q[x + d - 1]
    BY <2>1, PartOf
  <2> QED BY <2>1, <2>2
<1>7. Range(q) = {q[x] : x \in 1 .. n}
  BY <1>1 DEF Range
<1>8. {q[x] : x \in 1 .. n} = {q[x] : x \in 1 .. c + 1} \cup {q[x] : x \in c + 2 .. n}
  <2>1. ASSUME NEW x \in 1 .. n PROVE x \in 1 .. c + 1 \/ x \in c + 2 .. n
    OBVIOUS
  <2>2. ASSUME NEW x \in Int, x \in 1 .. c + 1 \/ x \in c + 2 .. n PROVE x \in 1 .. n
    BY <2>2
  <2> QED BY <2>1, <2>2
<1>9. Range(Half(q, 1)) \cup Range(Half(q, 2)) = Range(q)
  BY <1>4, <1>5, <1>6, <1>7, <1>8
<1>10. /\ Half(q, 1) \in Seq(Element) /\ Half(q, 2) \in Seq(Element)
       /\ Len(Half(q, 1)) = c + 1 /\ Len(Half(q, 2)) = n - c - 1
  <2>1. c + 1 - 1 + 1 = c + 1 /\ n - (c + 2) + 1 = n - c - 1
    OBVIOUS
  <2>2. /\ Half(q, 1) \in Seq(Element) /\ Half(q, 2) \in Seq(Element)
        /\ Len(Half(q, 1)) = c + 1 - 1 + 1 /\ Len(Half(q, 2)) = n - (c + 2) + 1
    BY <1>4, <1>5, <1>6
  <2> QED BY <2>1, <2>2
<1>11. ASSUME IdsAscend(q)
       PROVE  /\ IdsAscend(Half(q, 1)) /\ IdsAscend(Half(q, 2))
              /\ \A d \in Range(Half(q, 1)), e \in Range(Half(q, 2)) : d.id < e.id
  <2>1. \A x, y \in 1 .. n : x < y => q[x].id < q[y].id
    BY <1>1, <1>11 DEF IdsAscend
  <2>2. IdsAscend(Half(q, 1))
    <3>1. SUFFICES ASSUME NEW x \in 1 .. c + 1, NEW y \in 1 .. c + 1, x < y
                   PROVE  Half(q, 1)[x].id < Half(q, 1)[y].id
      BY <1>10 DEF IdsAscend
    <3>2. x \in 1 .. c + 1 - 1 + 1 /\ x + 1 - 1 = x /\ y \in 1 .. c + 1 - 1 + 1 /\ y + 1 - 1 = y
      OBVIOUS
    <3>3. Half(q, 1)[x] = q[x] /\ Half(q, 1)[y] = q[y]
      BY <1>4, <1>5, <3>2
    <3>4. x \in 1 .. n /\ y \in 1 .. n
      OBVIOUS
    <3> QED BY <2>1, <3>1, <3>3, <3>4
  <2>3. IdsAscend(Half(q, 2))
    <3>1. SUFFICES ASSUME NEW x \in 1 .. n - c - 1, NEW y \in 1 .. n - c - 1, x < y
                   PROVE  Half(q, 2)[x].id < Half(q, 2)[y].id
      BY <1>10 DEF IdsAscend
    <3>2. x \in 1 .. n - (c + 2) + 1 /\ y \in 1 .. n - (c + 2) + 1
      OBVIOUS
    <3>3. Half(q, 2)[x] = q[x + (c + 2) - 1] /\ Half(q, 2)[y] = q[y + (c + 2) - 1]
      BY <1>4, <1>6, <3>2
    <3>4. /\ x + (c + 2) - 1 \in 1 .. n /\ y + (c + 2) - 1 \in 1 .. n
          /\ x + (c + 2) - 1 < y + (c + 2) - 1
      BY <3>1
    <3> QED BY <2>1, <3>3, <3>4
  <2>4. ASSUME NEW d \in Range(Half(q, 1)), NEW e \in Range(Half(q, 2)) PROVE d.id < e.id
    <3>1. PICK x \in 1 .. c + 1 : d = q[x]
      BY <1>4, <1>5
    <3>2. PICK y \in c + 2 .. n : e = q[y]
      BY <1>4, <1>6
    <3>3. x \in 1 .. n /\ y \in 1 .. n /\ x < y
      OBVIOUS
    <3> QED BY <2>1, <3>1, <3>2, <3>3
  <2> QED BY <2>2, <2>3, <2>4
<1> QED BY <1>1, <1>9, <1>10, <1>11

\* The function exists, so that the definition says what it is.
LEMMA MsortIs ==
  ASSUME NEW q \in Seq(Element)
  PROVE  Msort[q] = IF Len(q) > 1 THEN Merge(Msort[Half(q, 1)], Msort[Half(q, 2)]) ELSE q
<1> DEFINE S == Seq(Element)
           B == {p \in S : ~ (Len(p) > 1)}
           base == [p \in S |-> p]
           pred1 == [p \in S |-> IF Len(p) > 1 THEN Half(p, 1) ELSE p]
           pred2 == [p \in S |-> IF Len(p) > 1 THEN Half(p, 2) ELSE p]
           step == [t \in S \X S \X S |-> Merge(t[2], t[3])]
           m == [p \in S |-> Len(p)]
           Eq(f, p) == f[p] = IF Len(p) > 1 THEN Merge(f[Half(p, 1)], f[Half(p, 2)]) ELSE p
           F(f) == [p \in S |-> IF Len(p) > 1 THEN Merge(f[Half(p, 1)], f[Half(p, 2)]) ELSE p]
<1>1. \A p \in S : Len(p) > 1 => Half(p, 1) \in S /\ Half(p, 2) \in S
                                 /\ Len(Half(p, 1)) < Len(p) /\ Len(Half(p, 2)) < Len(p)
  BY TwoHalves
<1>2. B \in SUBSET S /\ base \in [S -> S] /\ m \in [S -> Nat]
  OBVIOUS
<1>3. pred1 \in [S -> S] /\ pred2 \in [S -> S]
  BY <1>1
<1>4. step \in [S \X S \X S -> S]
  <2>1. \A a, b \in S : Merge(a, b) \in S
    BY MergeSorts
  <2> QED BY <2>1
<1>5. \A p \in S \ B : m[pred1[p]] < m[p] /\ m[pred2[p]] < m[p]
  BY <1>1
<1>6. \A p \in S : base[p] = p /\ (p \in B <=> ~ (Len(p) > 1))
                   /\ (Len(p) > 1 => pred1[p] = Half(p, 1) /\ pred2[p] = Half(p, 2))
  OBVIOUS
<1>7. \A p, a, b \in S : step[<<p, a, b>>] = Merge(a, b)
  OBVIOUS
<1> HIDE DEF B, base, pred1, pred2, step, m, S
<1>8. PICK f \in [S -> S] : \A p \in S : TwoFollow(f, B, base, pred1, pred2, step, p)
  BY <1>2, <1>3, <1>4, <1>5, TwoRecursion
<1>9. ASSUME NEW p \in S PROVE Eq(f, p)
  <2>1. CASE Len(p) > 1
    <3>1. f[p] = step[<<p, f[Half(p, 1)], f[Half(p, 2)]>>]
      BY <1>6, <1>8, <2>1 DEF TwoFollow
    <3>2. f[Half(p, 1)] \in S /\ f[Half(p, 2)] \in S
      BY <1>1, <1>8, <2>1
    <3> QED BY <1>7, <2>1, <3>1, <3>2
  <2>2. CASE ~ (Len(p) > 1)
    BY <1>6, <1>8, <2>2 DEF TwoFollow
  <2> QED BY <2>1, <2>2
<1>10. f = F(f)
  BY <1>8, <1>9
<1>11. Msort = CHOOSE g : g = F(g)
  BY DEF Msort, S, Half
<1>12. Msort = F(Msort)
  <2> HIDE DEF F
  <2> QED BY <1>10, <1>11
<1> QED BY <1>12 DEF S

\* Mergesort() sorts every array, and reverses equal elements.
LEMMA MsortSorts ==
  ASSUME NEW s \in Seq(Element)
  PROVE  /\ Msort[s] \in Seq(Element) /\ Len(Msort[s]) = Len(s) /\ Range(Msort[s]) = Range(s)
         /\ IdsAscend(s) => Ordered(Msort[s], Len(s))
<1> DEFINE Good(q) == /\ Msort[q] \in Seq(Element) /\ Len(Msort[q]) = Len(q) /\ Range(Msort[q]) = Range(q)
                      /\ IdsAscend(q) => Ordered(Msort[q], Len(q))
           P == {k \in Nat : \A q \in Seq(Element) : Len(q) = k => Good(q)}
<1>1. ASSUME NEW k \in Nat, \A l \in Nat : l < k => l \in P PROVE k \in P
  <2>1. SUFFICES ASSUME NEW q \in Seq(Element), Len(q) = k PROVE Good(q)
    OBVIOUS
  <2>2. CASE Len(q) > 1
    <3>1. PICK a \in Seq(Element), b \in Seq(Element) :
            /\ a = Half(q, 1) /\ b = Half(q, 2) /\ Len(a) < k /\ Len(b) < k
            /\ Len(a) + Len(b) = Len(q) /\ Range(a) \cup Range(b) = Range(q)
            /\ IdsAscend(q) => /\ IdsAscend(a) /\ IdsAscend(b)
                               /\ \A d \in Range(a), e \in Range(b) : d.id < e.id
      BY <2>1, <2>2, TwoHalves
    <3>2. Good(a) /\ Good(b)
      <4>1. Len(a) \in Nat /\ Len(b) \in Nat
        OBVIOUS
      <4>2. Len(a) \in P /\ Len(b) \in P
        BY <1>1, <3>1, <4>1
      <4> HIDE DEF Good
      <4> QED BY <4>2
    <3>3. PICK x \in Seq(Element), y \in Seq(Element) : x = Msort[a] /\ y = Msort[b]
      BY <3>2
    <3>4. /\ Merge(x, y) \in Seq(Element) /\ Len(Merge(x, y)) = Len(x) + Len(y)
          /\ Range(Merge(x, y)) = Range(x) \cup Range(y)
          /\ Mergeable(x, y) => Ordered(Merge(x, y), Len(x) + Len(y))
      BY MergeSorts
    <3>5. Msort[q] = Merge(x, y)
      BY <2>2, <3>1, <3>3, MsortIs
    <3>6. /\ Len(x) = Len(a) /\ Len(y) = Len(b) /\ Range(x) = Range(a) /\ Range(y) = Range(b)
          /\ IdsAscend(a) => Ordered(x, Len(x))
          /\ IdsAscend(b) => Ordered(y, Len(y))
      BY <3>2, <3>3
    <3>7. ASSUME IdsAscend(q) PROVE Mergeable(x, y)
      <4>1. ASSUME NEW i \in 1 .. Len(x), NEW j \in 1 .. Len(y) PROVE x[i].id < y[j].id
        <5>1. x[i] \in Range(x) /\ y[j] \in Range(y)
          BY DEF Range
        <5> QED BY <3>1, <3>6, <3>7, <5>1
      <4> QED BY <3>1, <3>6, <3>7, <4>1 DEF Mergeable
    <3>8. IdsAscend(q) => Ordered(Msort[q], Len(q))
      BY <3>1, <3>4, <3>5, <3>6, <3>7
    <3> QED BY <3>1, <3>4, <3>5, <3>6, <3>8
  <2>3. CASE ~ (Len(q) > 1)
    <3>1. Msort[q] = q
      BY <2>3, MsortIs
    <3>2. Ordered(q, Len(q))
      BY <2>3 DEF Ordered
    <3> QED BY <3>1, <3>2
  <2> QED BY <2>2, <2>3
<1>2. \A k \in Nat : k \in P
  <2>1. P \in SUBSET Nat
    OBVIOUS
  <2> HIDE DEF P
  <2> QED BY <1>1, <2>1, CompleteInduction
<1>3. Len(s) \in P
  <2> HIDE DEF P
  <2> QED BY <1>2
<1> QED BY <1>3

\* The least and the greatest of some places.
LEMMA LeastPlace ==
  ASSUME NEW n \in Nat, NEW Q \in SUBSET (0 .. n), Q # {}
  PROVE  Min(Q) \in Q /\ \A y \in Q : Min(Q) <= y
<1>1. Q \in SUBSET Nat
  OBVIOUS
<1>2. \E x \in Q : \A y \in Q : x <= y
  BY <1>1, LeastNatural
<1> QED BY <1>2 DEF Min

\* A nonempty set of places has a greatest one.
LEMMA GreatestPlace ==
  ASSUME NEW n \in Nat, NEW Q \in SUBSET (0 .. n), Q # {}
  PROVE  Max(Q) \in Q /\ \A y \in Q : Max(Q) >= y
<1> DEFINE R == {x \in Nat : x <= n /\ n - x \in Q}
<1>1. R \in SUBSET Nat /\ R # {}
  <2>1. PICK y \in Q : TRUE
    OBVIOUS
  <2>2. n - y \in Nat /\ n - y <= n /\ n - (n - y) = y
    OBVIOUS
  <2>3. n - y \in R
    BY <2>2
  <2> QED BY <2>3
<1>2. PICK x \in R : \A y \in R : x <= y
  <2> HIDE DEF R
  <2> QED BY <1>1, LeastNatural
<1>3. n - x \in Q
  BY <1>2
<1>4. ASSUME NEW y \in Q PROVE n - x >= y
  <2>1. y \in 0 .. n /\ n - y \in Nat /\ n - y <= n /\ n - (n - y) = y
    OBVIOUS
  <2>2. n - y \in R
    BY <2>1
  <2>3. x <= n - y /\ x \in Nat
    BY <1>2, <2>2
  <2> QED BY <2>1, <2>3
<1> QED BY <1>3, <1>4 DEF Max

\* w is s with two elements exchanged.
Exchanged(s, w, i, j, n) ==
  \A x \in 1 .. n : w[x] = IF x = j + 1 THEN s[i + 1] ELSE IF x = i + 1 THEN s[j + 1] ELSE s[x]

\* What Swap() does, in terms of Exchanged.
LEMMA SwapExchanges ==
  ASSUME NEW n \in Nat, NEW s \in [1 .. n -> Element], NEW i \in 0 .. n - 1, NEW j \in 0 .. n - 1
  PROVE  /\ Swap(s, i, j) \in [1 .. n -> Element] /\ Range(Swap(s, i, j)) = Range(s)
         /\ Exchanged(s, Swap(s, i, j), i, j, n)
BY SwapKeeps DEF Exchanged

\* A conditional exchange loses no element.
LEMMA SwapIfKeeps ==
  ASSUME NEW n \in Nat, NEW s \in [1 .. n -> Element], NEW c, NEW i \in 0 .. n - 1, NEW j \in 0 .. n - 1
  PROVE  /\ SwapIf(s, c, i, j) \in [1 .. n -> Element] /\ Range(SwapIf(s, c, i, j)) = Range(s)
BY SwapExchanges DEF SwapIf

\* median3() leaves an element at left that is no larger than the pivot, at right - 1.
LEMMA Median3Bounds ==
  ASSUME NEW n \in Nat, n >= 4, NEW s \in [1 .. n -> Element], NEW q, q = Median3(s, 0, n - 1)
  PROVE  q \in [1 .. n -> Element] /\ Range(q) = Range(s) /\ q[1].key <= q[n - 1].key
<1>1. PICK c \in 1 .. n - 2 : c = (0 + (n - 1)) \div 2
  OBVIOUS
<1> DEFINE T == [1 .. n -> Element]
           s1 == SwapIf(s, s[c + 1].key < s[0 + 1].key, 0, n - 1)
           s2 == SwapIf(s1, s1[n - 1 + 1].key < s1[c + 1].key, n - 1, c)
           s3 == SwapIf(s2, s2[c + 1].key < s2[0 + 1].key, c, 0)
<1>2. 0 \in 0 .. n - 1 /\ n - 1 \in 0 .. n - 1 /\ c \in 0 .. n - 1 /\ n - 1 - 1 \in 0 .. n - 1
  BY <1>1
<1>3. q = Swap(s3, c, n - 1 - 1)
  BY <1>1 DEF Median3
<1>4. PICK l \in 0 .. n - 1, r \in 0 .. n - 1, m \in 0 .. n - 1, p \in 0 .. n - 1 :
         l = 0 /\ r = n - 1 /\ m = c /\ p = n - 1 - 1
  BY <1>2
<1>5. s1 \in T /\ Range(s1) = Range(s)
  <2>1. PICK b : b = (s[c + 1].key < s[0 + 1].key)
    OBVIOUS
  <2>2. SwapIf(s, b, l, r) \in T /\ Range(SwapIf(s, b, l, r)) = Range(s)
    BY SwapIfKeeps
  <2> QED BY <1>4, <2>1, <2>2
<1> HIDE DEF s1
<1>6. s2 \in T /\ Range(s2) = Range(s)
  <2>1. PICK b : b = (s1[n - 1 + 1].key < s1[c + 1].key)
    OBVIOUS
  <2>2. SwapIf(s1, b, r, m) \in T /\ Range(SwapIf(s1, b, r, m)) = Range(s1)
    BY <1>5, SwapIfKeeps
  <2> QED BY <1>4, <1>5, <2>1, <2>2
<1> HIDE DEF s2
<1>7. s3 \in T /\ Range(s3) = Range(s) /\ s3[1].key <= s3[c + 1].key
  <2>1. PICK t \in T : t = s2
    BY <1>6
  <2>2. t[c + 1].key \in Int /\ t[1].key \in Int /\ 1 \in 1 .. n /\ c + 1 \in 1 .. n
    BY <1>1, ElementKey
  <2>3. CASE t[c + 1].key < t[1].key
    <3>1. s3 = Swap(t, m, l)
      BY <1>4, <2>1, <2>3 DEF SwapIf
    <3>2. /\ Swap(t, m, l) \in T /\ Range(Swap(t, m, l)) = Range(t)
          /\ Exchanged(t, Swap(t, m, l), m, l, n)
      BY SwapExchanges
    <3>3. s3[1] = t[c + 1] /\ s3[c + 1] = t[1]
      <4>1. PICK w \in T : w = s3 /\ Exchanged(t, w, m, l, n)
        BY <3>1, <3>2
      <4>2. w[1] = t[m + 1]
        <5>1. l + 1 = 1 /\ 1 \in 1 .. n
          BY <1>4, <2>2
        <5> QED BY <4>1, <5>1 DEF Exchanged
      <4>3. w[c + 1] = t[l + 1]
        BY <1>1, <1>4, <2>2, <4>1 DEF Exchanged
      <4> QED BY <1>4, <4>1, <4>2, <4>3
    <3> QED BY <1>6, <2>1, <2>2, <2>3, <3>1, <3>2, <3>3
  <2>4. CASE ~ (t[c + 1].key < t[1].key)
    <3>1. s3 = t
      BY <2>1, <2>4 DEF SwapIf
    <3> QED BY <1>6, <2>1, <2>2, <2>4, <3>1
  <2> QED BY <2>3, <2>4
<1> HIDE DEF s3
<1>8. PICK t \in T : t = s3
  BY <1>7
<1>9. /\ Swap(t, m, p) \in T /\ Range(Swap(t, m, p)) = Range(t)
      /\ Exchanged(t, Swap(t, m, p), m, p, n)
  BY SwapExchanges
<1>10. q = Swap(t, m, p)
  BY <1>3, <1>4, <1>8
<1>11. q[1] = t[1] /\ q[n - 1] = t[c + 1]
  BY <1>1, <1>4, <1>9, <1>10 DEF Exchanged
<1> QED BY <1>7, <1>8, <1>9, <1>10, <1>11

\* What the scans of Qsort() rely on: what is at left, and the pivot at right - 1.
Bounded(a, n) == a[1].key <= a[n - 1].key

\* Both scans stop inside the array.
LEMMA ScansStop ==
  ASSUME NEW n \in Nat, n >= 4, NEW a \in [1 .. n -> Element], Bounded(a, n),
         NEW i \in 0 .. n - 1, NEW j \in 0 .. n - 1, i < j, j <= n - 2,
         NEW ups, ups = {k \in (i + 1) .. n - 1 : a[k + 1].key >= a[n - 1].key},
         NEW downs, downs = {k \in 0 .. (j - 1) : a[k + 1].key <= a[n - 1].key}
  PROVE  /\ ups # {} /\ downs # {}
         /\ Min(ups) \in i + 1 .. n - 2 /\ Max(downs) \in 0 .. j - 1
<1>1. a[n - 1].key \in Int /\ a[1].key \in Int
  BY ElementKey
<1>2. n - 2 \in ups
  <2>1. n - 2 \in i + 1 .. n - 1 /\ n - 2 + 1 = n - 1
    OBVIOUS
  <2> QED BY <1>1, <2>1
<1>3. 0 \in downs
  <2>1. 0 \in 0 .. j - 1 /\ 0 + 1 = 1
    OBVIOUS
  <2> QED BY <1>1, <2>1 DEF Bounded
<1>4. ups \in SUBSET (0 .. n) /\ downs \in SUBSET (0 .. n)
  OBVIOUS
<1>5. Min(ups) \in ups /\ Min(ups) <= n - 2
  BY <1>2, <1>4, LeastPlace
<1>6. Max(downs) \in downs
  BY <1>3, <1>4, GreatestPlace
<1> QED BY <1>2, <1>3, <1>5, <1>6

\* Partition() ends, inside the array, and keeps its elements.
LEMMA PartitionEnds ==
  ASSUME NEW n \in Nat, n >= 4, NEW s \in [1 .. n -> Element], Bounded(s, n),
         NEW p, p = Partition(s, 0, n - 1)
  PROVE  /\ p.at = "break" /\ p.i \in 1 .. n - 2
         /\ p.array \in [1 .. n -> Element] /\ Range(p.array) = Range(s)
<1>1. Len(s) = n /\ Array(s) = [1 .. n -> Element]
  BY ArrayOfN
<1> DEFINE A == [1 .. n -> Element]
           T == [array : A, i : 0 .. n - 1, j : 0 .. n - 1, at : {"scan", "outside", "break"}]
           body == [k \in 1 .. n |-> [u \in T |-> Scan(u, 0, n - 1)]]
           start == [array |-> s, i |-> 0, j |-> n - 1 - 1, at |-> "scan"]
           Good(k, u) == /\ Range(u.array) = Range(s)
                         /\ \/ /\ u.at = "scan" /\ Bounded(u.array, n)
                               /\ u.i < u.j /\ u.j <= n - 2 /\ u.i >= k
                            \/ u.at = "break" /\ u.i \in 1 .. n - 2
           Inv == {v \in Int \X T : Good(v[1], v[2])}
<1>2. <<1 - 1, start>> \in Inv
  <2>1. start \in T /\ start.array = s /\ start.i = 0 /\ start.j = n - 2 /\ start.at = "scan"
    OBVIOUS
  <2> HIDE DEF start
  <2>2. Good(1 - 1, start)
    BY <2>1
  <2> HIDE DEF Good, T
  <2> QED BY <2>1, <2>2
<1>3. ASSUME NEW k \in 1 .. n, NEW u \in T, <<k - 1, u>> \in Inv PROVE <<k, body[k][u]>> \in Inv
  <2>1. Good(k - 1, u) /\ body[k][u] = Scan(u, 0, n - 1)
    <3>1. Good(k - 1, u)
      <4> HIDE DEF Good, T
      <4> QED BY <1>3
    <3>2. body[k][u] = Scan(u, 0, n - 1)
      OBVIOUS
    <3> HIDE DEF Good, body
    <3> QED BY <3>1, <3>2
  <2> HIDE DEF body
  <2>2. CASE u.at = "break"
    <3>1. Scan(u, 0, n - 1) = u
      BY <2>2 DEF Scan
    <3>2. Good(k, u)
      BY <2>1, <2>2
    <3> HIDE DEF Good, T
    <3> QED BY <2>1, <3>1, <3>2
  <2>3. CASE u.at = "scan"
    <3>1. PICK a \in A, i \in 0 .. n - 1, j \in 0 .. n - 1 :
            /\ a = u.array /\ i = u.i /\ j = u.j
            /\ Range(a) = Range(s) /\ Bounded(a, n) /\ i < j /\ j <= n - 2 /\ i >= k - 1
      BY <2>1, <2>3
    <3> DEFINE ups == {x \in (i + 1) .. n - 1 : a[x + 1].key >= a[n - 1].key}
               downs == {x \in 0 .. (j - 1) : a[x + 1].key <= a[n - 1].key}
               g == Scan(u, 0, n - 1)
    <3>2. ups # {} /\ downs # {} /\ Min(ups) \in i + 1 .. n - 2 /\ Max(downs) \in 0 .. j - 1
      BY <3>1, ScansStop
    <3>3. g = IF Min(ups) < Max(downs)
              THEN [u EXCEPT !.array = Swap(a, Min(ups), Max(downs)), !.i = Min(ups), !.j = Max(downs)]
              ELSE [u EXCEPT !.array = Swap(a, Min(ups), n - 1 - 1), !.i = Min(ups), !.at = "break"]
      BY <2>3, <3>1, <3>2 DEF Scan
    <3> HIDE DEF ups, downs, g
    <3>4. PICK x \in i + 1 .. n - 2, y \in 0 .. j - 1 : x = Min(ups) /\ y = Max(downs)
      BY <3>2
    <3>5. PICK v \in 0 .. n - 1, w \in 0 .. n - 1, e \in 0 .. n - 1 : v = x /\ w = y /\ e = n - 1 - 1
      OBVIOUS
    <3>6. CASE x < y
      <4>1. /\ Swap(a, v, w) \in A /\ Range(Swap(a, v, w)) = Range(a)
            /\ Exchanged(a, Swap(a, v, w), v, w, n)
        BY SwapExchanges
      <4>2. Bounded(Swap(a, v, w), n)
        <5>1. PICK b \in A : b = Swap(a, v, w) /\ Exchanged(a, b, v, w, n)
          BY <4>1
        <5>2. v + 1 # 1 /\ w + 1 # 1 /\ v + 1 # n - 1 /\ w + 1 # n - 1 /\ 1 \in 1 .. n /\ n - 1 \in 1 .. n
          BY <3>1, <3>4, <3>5, <3>6
        <5>3. b[1] = a[1]
          BY <5>1, <5>2 DEF Exchanged
        <5>4. b[n - 1] = a[n - 1]
          BY <5>1, <5>2 DEF Exchanged
        <5> QED BY <3>1, <5>1, <5>3, <5>4 DEF Bounded
      <4>3. g = [u EXCEPT !.array = Swap(a, v, w), !.i = v, !.j = w]
        BY <3>3, <3>4, <3>5, <3>6
      <4>4. g \in T /\ g.array = Swap(a, v, w) /\ g.i = v /\ g.j = w /\ g.at = "scan"
        BY <2>3, <4>1, <4>3
      <4>5. v < w /\ w <= n - 2 /\ v >= k
        BY <3>1, <3>4, <3>5, <3>6
      <4>6. Good(k, g) /\ k \in Int
        BY <3>1, <4>1, <4>2, <4>4, <4>5
      <4> HIDE DEF Good, T
      <4> QED BY <2>1, <4>4, <4>6 DEF g
    <3>7. CASE ~ (x < y)
      <4>1. Swap(a, v, e) \in A /\ Range(Swap(a, v, e)) = Range(a)
        BY SwapExchanges
      <4>2. g = [u EXCEPT !.array = Swap(a, v, e), !.i = v, !.at = "break"]
        BY <3>3, <3>4, <3>5, <3>7
      <4>3. g \in T /\ g.array = Swap(a, v, e) /\ g.i = v /\ g.at = "break"
        BY <4>1, <4>2
      <4>4. v \in 1 .. n - 2
        BY <3>4, <3>5
      <4>5. Good(k, g) /\ k \in Int
        BY <3>1, <4>1, <4>3, <4>4
      <4> HIDE DEF Good, T
      <4> QED BY <2>1, <4>3, <4>5 DEF g
    <3> QED BY <3>6, <3>7
  <2> QED BY <2>1, <2>2, <2>3
<1>4. Inv \in SUBSET (Int \X T) /\ 1 \in Int /\ n \in Int /\ 1 - 1 <= n
  OBVIOUS
<1>5. p = ForUp(1, n, start, body)
  BY <1>1 DEF Partition, Partitions
<1> HIDE DEF Inv, body, T, start
<1>6. <<n, ForUp(1, n, start, body)>> \in Inv
  BY <1>2, <1>3, <1>4, ForUpRule
<1>7. p \in T /\ Good(n, p)
  <2> HIDE DEF Good
  <2> QED BY <1>5, <1>6 DEF Inv
<1>8. p.i \in 0 .. n - 1 /\ p.j \in 0 .. n - 1 /\ p.array \in A
  BY <1>7 DEF T
<1> QED BY <1>7, <1>8

\* Qsort() of an array above the cutoff: the partition, and what it recurs on.
Parted(q) == Partition(Median3(q, 0, Len(q) - 1), 0, Len(q) - 1)
Long(q) == 0 + CUTOFF <= Len(q) - 1
Below(q) == SubSeq(Parted(q).array, 1, Parted(q).i)
Middle(q) == Parted(q).array[Parted(q).i + 1]
Above(q) == SubSeq(Parted(q).array, Parted(q).i + 2, Len(q))

\* The partition ends in a break, and with the pivot in place it splits the array in
\* two shorter ones.
LEMMA Parts ==
  ASSUME NEW q \in Seq(Element), Long(q)
  PROVE  /\ Parted(q).at = "break"
         /\ Below(q) \in Seq(Element) /\ Middle(q) \in Element /\ Above(q) \in Seq(Element)
         /\ Len(Below(q)) < Len(q) /\ Len(Above(q)) < Len(q)
         /\ Len(Below(q)) + 1 + Len(Above(q)) = Len(q)
         /\ Range(Below(q)) \cup {Middle(q)} \cup Range(Above(q)) = Range(q)
<1>1. PICK n \in Nat : n = Len(q) /\ n >= 4
  BY DEF Long, CUTOFF
<1>2. q \in [1 .. n -> Element]
  BY <1>1
<1>3. PICK s : s = Median3(q, 0, n - 1)
  OBVIOUS
<1>4. s \in [1 .. n -> Element] /\ Range(s) = Range(q) /\ s[1].key <= s[n - 1].key
  BY <1>1, <1>2, <1>3, Median3Bounds
<1>5. Bounded(s, n)
  BY <1>4 DEF Bounded
<1>6. PICK p : p = Partition(s, 0, n - 1)
  OBVIOUS
<1>7. /\ p.at = "break" /\ p.i \in 1 .. n - 2
      /\ p.array \in [1 .. n -> Element] /\ Range(p.array) = Range(s)
  BY <1>1, <1>4, <1>5, <1>6, PartitionEnds
<1>8. Parted(q) = p
  BY <1>1, <1>3, <1>6 DEF Parted
<1>9. PICK a \in Seq(Element), i \in 1 .. n - 2 :
        /\ a = p.array /\ i = p.i /\ Len(a) = n /\ Range(a) = Range(q) /\ DOMAIN a = 1 .. n
  <2>1. p.array \in Seq(Element) /\ Len(p.array) = n /\ DOMAIN p.array = 1 .. n
    BY <1>7, ArrayOfN
  <2> QED BY <1>4, <1>7, <2>1
<1>10. Below(q) = SubSeq(a, 1, i) /\ Middle(q) = a[i + 1] /\ Above(q) = SubSeq(a, i + 2, n)
  BY <1>1, <1>8, <1>9 DEF Below, Middle, Above
<1>11. 1 \in 1 .. Len(a) + 1 /\ i \in 1 - 1 .. Len(a) /\ i + 2 \in 1 .. Len(a) + 1 /\ n \in i + 2 - 1 .. Len(a)
  BY <1>9
<1>12. /\ SubSeq(a, 1, i) \in Seq(Element) /\ Len(SubSeq(a, 1, i)) = i - 1 + 1
       /\ Range(SubSeq(a, 1, i)) = {a[x] : x \in 1 .. i}
  BY <1>11, PartOf
<1>13. /\ SubSeq(a, i + 2, n) \in Seq(Element) /\ Len(SubSeq(a, i + 2, n)) = n - (i + 2) + 1
       /\ Range(SubSeq(a, i + 2, n)) = {a[x] : x \in i + 2 .. n}
  BY <1>11, PartOf
<1>14. a[i + 1] \in Element /\ i - 1 + 1 = i /\ n - (i + 2) + 1 = n - i - 1 /\ i < n /\ n - i - 1 < n
       /\ i + 1 + (n - i - 1) = n
  <2>1. i + 1 \in 1 .. n
    OBVIOUS
  <2>2. a[i + 1] \in Element
    BY <1>9, <2>1
  <2>3. i - 1 + 1 = i /\ n - (i + 2) + 1 = n - i - 1
    OBVIOUS
  <2>4. i < n /\ n - i - 1 < n /\ i + 1 + (n - i - 1) = n
    OBVIOUS
  <2> QED BY <2>2, <2>3, <2>4
<1>15. Range(a) = {a[x] : x \in 1 .. n}
  BY <1>9 DEF Range
<1>16. {a[x] : x \in 1 .. n} = {a[x] : x \in 1 .. i} \cup {a[i + 1]} \cup {a[x] : x \in i + 2 .. n}
  <2>1. ASSUME NEW x \in 1 .. n PROVE x \in 1 .. i \/ x = i + 1 \/ x \in i + 2 .. n
    OBVIOUS
  <2>2. ASSUME NEW x \in Int, x \in 1 .. i \/ x = i + 1 \/ x \in i + 2 .. n PROVE x \in 1 .. n
    BY <2>2
  <2>3. \A x \in Int : x \in 1 .. n <=> x \in 1 .. i \/ x = i + 1 \/ x \in i + 2 .. n
    BY <2>1, <2>2
  <2> QED BY <2>3
<1>17. Range(Below(q)) \cup {Middle(q)} \cup Range(Above(q)) = Range(q)
  BY <1>9, <1>10, <1>12, <1>13, <1>15, <1>16
<1>18. /\ Below(q) \in Seq(Element) /\ Middle(q) \in Element /\ Above(q) \in Seq(Element)
       /\ Len(Below(q)) = i /\ Len(Above(q)) = n - i - 1
  BY <1>10, <1>12, <1>13, <1>14
<1>19. Parted(q).at = "break"
  BY <1>7, <1>8
<1>20. Len(Below(q)) < Len(q) /\ Len(Above(q)) < Len(q) /\ Len(Below(q)) + 1 + Len(Above(q)) = Len(q)
  BY <1>1, <1>14, <1>18
<1> QED BY <1>17, <1>18, <1>19, <1>20

\* The function exists, so that the definition says what it is.
LEMMA QsortIs ==
  ASSUME NEW q \in Seq(Element)
  PROVE  Qsort[q] = IF Long(q) THEN Qsort[Below(q)] \o <<Middle(q)>> \o Qsort[Above(q)] ELSE Insertsort(q)
<1> DEFINE S == Seq(Element)
           B == {p \in S : ~ Long(p)}
           base == [p \in S |-> Insertsort(p)]
           pred1 == [p \in S |-> IF Long(p) THEN Below(p) ELSE p]
           pred2 == [p \in S |-> IF Long(p) THEN Above(p) ELSE p]
           step == [t \in S \X S \X S |-> IF Long(t[1]) THEN t[2] \o <<Middle(t[1])>> \o t[3] ELSE t[1]]
           m == [p \in S |-> Len(p)]
           F(f) == [p \in S |-> IF Long(p)
                                THEN IF Parted(p).at # "break" THEN Outside
                                     ELSE f[Below(p)] \o <<Middle(p)>> \o f[Above(p)]
                                ELSE Insertsort(p)]
<1>1. \A p \in S : Long(p) => /\ Below(p) \in S /\ Above(p) \in S /\ Middle(p) \in Element
                              /\ Len(Below(p)) < Len(p) /\ Len(Above(p)) < Len(p) /\ Parted(p).at = "break"
  BY Parts
<1>2. \A p \in S : Insertsort(p) \in S
  <2>1. SUFFICES ASSUME NEW p \in S PROVE Insertsort(p) \in S
    OBVIOUS
  <2>2. PICK n \in Nat : p \in [1 .. n -> Element]
    <3>1. Len(p) \in Nat /\ p \in [1 .. Len(p) -> Element]
      OBVIOUS
    <3> QED BY <3>1
  <2>3. Insertsort(p) \in [1 .. n -> Element]
    BY <2>2, InsertsortSorts
  <2> QED BY <2>3, ArrayOfN
<1>3. B \in SUBSET S /\ base \in [S -> S] /\ m \in [S -> Nat]
  BY <1>2
<1>4. pred1 \in [S -> S] /\ pred2 \in [S -> S]
  BY <1>1
<1>5. step \in [S \X S \X S -> S]
  <2>1. ASSUME NEW a \in S, NEW b \in S, NEW e \in Element PROVE a \o <<e>> \o b \in S
    OBVIOUS
  <2> QED BY <1>1, <2>1
<1>6. \A p \in S \ B : m[pred1[p]] < m[p] /\ m[pred2[p]] < m[p]
  BY <1>1
<1>7. \A p \in S : base[p] = Insertsort(p) /\ (p \in B <=> ~ Long(p))
                   /\ (Long(p) => pred1[p] = Below(p) /\ pred2[p] = Above(p))
  OBVIOUS
<1>8. \A p, a, b \in S : Long(p) => step[<<p, a, b>>] = a \o <<Middle(p)>> \o b
  OBVIOUS
<1>9. ASSUME NEW f PROVE F(f) = [p \in S |-> IF Long(p) THEN f[Below(p)] \o <<Middle(p)>> \o f[Above(p)]
                                            ELSE Insertsort(p)]
  <2> HIDE DEF S
  <2> QED BY <1>1
<1>10. Qsort = CHOOSE g : g = F(g)
  BY DEF Qsort, S, Long, Below, Middle, Above, Parted
<1> HIDE DEF B, base, pred1, pred2, step, m, S, F
<1>11. PICK f \in [S -> S] : \A p \in S : TwoFollow(f, B, base, pred1, pred2, step, p)
  BY <1>3, <1>4, <1>5, <1>6, TwoRecursion
<1>12. ASSUME NEW p \in S
       PROVE  f[p] = IF Long(p) THEN f[Below(p)] \o <<Middle(p)>> \o f[Above(p)] ELSE Insertsort(p)
  <2>1. CASE Long(p)
    <3>1. f[p] = step[<<p, f[Below(p)], f[Above(p)]>>]
      BY <1>7, <1>11, <2>1 DEF TwoFollow
    <3>2. f[Below(p)] \in S /\ f[Above(p)] \in S
      BY <1>1, <1>11, <2>1
    <3> QED BY <1>8, <2>1, <3>1, <3>2
  <2>2. CASE ~ Long(p)
    BY <1>7, <1>11, <2>2 DEF TwoFollow
  <2> QED BY <2>1, <2>2
<1>13. f = F(f)
  BY <1>9, <1>11, <1>12
<1>14. Qsort = F(Qsort)
  BY <1>10, <1>13
<1> QED BY <1>9, <1>14 DEF S

\* Qsort() never leaves its array, and loses no element.
LEMMA QsortKeeps ==
  ASSUME NEW s \in Seq(Element)
  PROVE  Qsort[s] \in Seq(Element) /\ Len(Qsort[s]) = Len(s) /\ Range(Qsort[s]) = Range(s)
<1> DEFINE Good(q) == Qsort[q] \in Seq(Element) /\ Len(Qsort[q]) = Len(q) /\ Range(Qsort[q]) = Range(q)
           P == {k \in Nat : \A q \in Seq(Element) : Len(q) = k => Good(q)}
<1>1. ASSUME NEW k \in Nat, \A l \in Nat : l < k => l \in P PROVE k \in P
  <2>1. SUFFICES ASSUME NEW q \in Seq(Element), Len(q) = k PROVE Good(q)
    OBVIOUS
  <2>2. CASE Long(q)
    <3>1. PICK a \in Seq(Element), b \in Seq(Element), e \in Element :
            /\ a = Below(q) /\ b = Above(q) /\ e = Middle(q) /\ Len(a) < k /\ Len(b) < k
            /\ Len(a) + 1 + Len(b) = Len(q) /\ Range(a) \cup {e} \cup Range(b) = Range(q)
      <4>1. /\ Below(q) \in Seq(Element) /\ Middle(q) \in Element /\ Above(q) \in Seq(Element)
            /\ Len(Below(q)) < Len(q) /\ Len(Above(q)) < Len(q)
            /\ Len(Below(q)) + 1 + Len(Above(q)) = Len(q)
            /\ Range(Below(q)) \cup {Middle(q)} \cup Range(Above(q)) = Range(q)
        BY <2>2, Parts
      <4> QED BY <2>1, <4>1
    <3>2. Good(a) /\ Good(b)
      <4>1. Len(a) \in Nat /\ Len(b) \in Nat
        OBVIOUS
      <4>2. Len(a) \in P /\ Len(b) \in P
        BY <1>1, <3>1, <4>1
      <4> HIDE DEF Good
      <4> QED BY <4>2
    <3>3. PICK x \in Seq(Element), y \in Seq(Element) : x = Qsort[a] /\ y = Qsort[b]
      BY <3>2
    <3>4. PICK r : r = x \o <<e>> \o y
      OBVIOUS
    <3>5. /\ r \in Seq(Element) /\ Len(r) = Len(x) + 1 + Len(y)
          /\ \A z \in 1 .. Len(x) : r[z] = x[z]
          /\ r[Len(x) + 1] = e
          /\ \A z \in Len(x) + 2 .. Len(x) + 1 + Len(y) : r[z] = y[z - Len(x) - 1]
      BY <3>4
    <3>6. Range(r) = Range(x) \cup {e} \cup Range(y)
      <4>1. PICK n \in Nat, l \in Nat : n = Len(x) /\ l = Len(y)
        OBVIOUS
      <4>2. /\ Range(x) = {x[z] : z \in 1 .. n} /\ Range(y) = {y[z] : z \in 1 .. l}
            /\ Range(r) = {r[z] : z \in 1 .. n + 1 + l}
        <5>1. DOMAIN x = 1 .. n /\ DOMAIN y = 1 .. l /\ DOMAIN r = 1 .. n + 1 + l
          BY <3>5, <4>1
        <5> QED BY <5>1 DEF Range
      <4>3. ASSUME NEW z \in 1 .. n + 1 + l PROVE r[z] \in Range(x) \cup {e} \cup Range(y)
        <5>1. CASE z \in 1 .. n
          BY <3>5, <4>1, <4>2, <5>1
        <5>2. CASE z = n + 1
          BY <3>5, <4>1, <5>2
        <5>3. CASE z \in n + 2 .. n + 1 + l
          <6>1. z - n - 1 \in 1 .. l /\ r[z] = y[z - n - 1]
            BY <3>5, <4>1, <5>3
          <6> QED BY <4>2, <6>1
        <5> QED BY <5>1, <5>2, <5>3
      <4>4. ASSUME NEW z \in 1 .. n PROVE x[z] \in Range(r)
        <5>1. z \in 1 .. n + 1 + l /\ r[z] = x[z]
          BY <3>5, <4>1
        <5> QED BY <4>2, <5>1
      <4>5. e \in Range(r)
        <5>1. n + 1 \in 1 .. n + 1 + l /\ r[n + 1] = e
          BY <3>5, <4>1
        <5> QED BY <4>2, <5>1
      <4>6. ASSUME NEW z \in 1 .. l PROVE y[z] \in Range(r)
        <5>1. z + n + 1 \in 1 .. n + 1 + l /\ z + n + 1 \in n + 2 .. n + 1 + l /\ z + n + 1 - n - 1 = z
          OBVIOUS
        <5>2. r[z + n + 1] = y[z]
          BY <3>5, <4>1, <5>1
        <5> QED BY <4>2, <5>1, <5>2
      <4> QED BY <4>2, <4>3, <4>4, <4>5, <4>6
    <3>7. Qsort[q] = r
      BY <2>2, <3>1, <3>3, <3>4, QsortIs
    <3> QED BY <3>1, <3>2, <3>3, <3>5, <3>6, <3>7
  <2>3. CASE ~ Long(q)
    <3>1. Qsort[q] = Insertsort(q)
      BY <2>3, QsortIs
    <3>2. PICK n \in Nat : n = Len(q) /\ q \in [1 .. n -> Element]
      <4>1. Len(q) \in Nat /\ q \in [1 .. Len(q) -> Element]
        OBVIOUS
      <4> QED BY <4>1
    <3>3. Insertsort(q) \in [1 .. n -> Element] /\ Range(Insertsort(q)) = Range(q)
      BY <3>2, InsertsortSorts
    <3>4. Insertsort(q) \in Seq(Element) /\ Len(Insertsort(q)) = n
      BY <3>3, ArrayOfN
    <3> QED BY <3>1, <3>2, <3>3, <3>4
  <2> QED BY <2>2, <2>3
<1>2. \A k \in Nat : k \in P
  <2>1. P \in SUBSET Nat
    OBVIOUS
  <2> HIDE DEF P
  <2> QED BY <1>1, <2>1, CompleteInduction
<1>3. Len(s) \in P
  <2> HIDE DEF P
  <2> QED BY <1>2
<1> QED BY <1>3

-----------------------------------------------------------------------------
\* The array a caller has, and that every call has given its result.
CsInv ==
  /\ \/ input = << >> /\ sort = "none"
     \/ /\ Len(input) # 0 /\ input \in Seq(Element)
        /\ \A i \in DOMAIN input : input[i].id = i
  /\ sort \in Sorts \cup {"none", "no_memory"}
  /\ sort \in Sorts => output = Apply(sort, input)

\* A caller fills its array.
LEMMA FillKeeps == CsInv /\ Fill => CsInv'
<1>1. SUFFICES ASSUME CsInv, Fill PROVE CsInv'
  OBVIOUS
<1>len. PICK len \in 1 .. MaxArray :
          \E keys \in [1 .. len -> Keys] : input' = [i \in 1 .. len |-> [key |-> keys[i], id |-> i]]
  BY <1>1 DEF Fill
<1>2. PICK keys \in [1 .. len -> Keys] : input' = [i \in 1 .. len |-> [key |-> keys[i], id |-> i]]
  BY <1>len
<1>3. input' \in [1 .. len -> Element] /\ \A i \in 1 .. len : input'[i].id = i
  BY <1>2, CsortAssumption DEF Element
<1>4. input' \in Seq(Element) /\ Len(input') = len /\ DOMAIN input' = 1 .. len /\ len # 0
  BY <1>3, CsortAssumption
<1>5. sort' = sort /\ sort = "none"
  BY <1>1 DEF Fill, CsInv
<1> QED BY <1>3, <1>4, <1>5 DEF CsInv, Sorts

\* CsInv is inductive.
LEMMA CsStep == CsInv /\ [CsortNext]_csVars => CsInv'
<1>1. CsInv /\ Fill => CsInv'
  BY FillKeeps
<1>2. ASSUME NEW f \in Sorts PROVE CsInv /\ Call(f) => CsInv'
  BY DEF CsInv, Call
<1>3. CsInv /\ MergesortNoMemory => CsInv'
  BY DEF CsInv, MergesortNoMemory, Sorts
<1>4. CsInv /\ UNCHANGED csVars => CsInv'
  BY DEF CsInv, csVars
<1> QED BY <1>1, <1>2, <1>3, <1>4 DEF CsortNext

\* What the results are, for an array of any length.
LEMMA CsInvImplies == CsInv => CsortInv
<1>1. SUFFICES ASSUME CsInv, sort \in Sorts PROVE CsortInv
  BY DEF CsInv, CsortInv, AscendingSorts, StableSorts, MergesortReversesTies, ShellsortOrders, QuicksortStaysInside, Sorts
<1>2. PICK n \in Nat \ {0} : n = Len(input) /\ input \in [1 .. n -> Element] /\ input \in Seq(Element)
                             /\ \A i \in 1 .. n : input[i].id = i
  BY <1>1 DEF CsInv, Sorts
<1>3. PICK s \in [1 .. n -> Element] : s = input /\ s \in Seq(Element) /\ Len(s) = n
  BY <1>2
<1>4. FreshFrom(s, 1, n) /\ StableTo(s, n)
  BY <1>2, <1>3 DEF FreshFrom, StableTo
<1>5. output = Apply(sort, s)
  BY <1>1, <1>3 DEF CsInv
<1>6. ASSUME NEW a \in [1 .. n -> Element], a = output, Range(a) = Range(s)
      PROVE  /\ IsPermutation /\ output # Outside
             /\ Sorted(a, n) => Ascending
             /\ SortedDown(a, n) => Descending
             /\ StableTo(a, n) => Stable
  <2>1. Len(output) = n /\ DOMAIN output = 1 .. n
    BY <1>6
  <2>2. IsPermutation
    BY <1>2, <1>3, <1>6, <2>1 DEF IsPermutation
  <2>3. output # Outside
    BY <2>1 DEF Outside
  <2>4. Sorted(a, n) => Ascending
    BY <1>6, <2>1 DEF Sorted, Ascending
  <2>5. SortedDown(a, n) => Descending
    BY <1>6, <2>1 DEF SortedDown, Descending
  <2>6. StableTo(a, n) => Stable
    BY <1>6, <2>1 DEF StableTo, Stable
  <2> QED BY <2>2, <2>3, <2>4, <2>5, <2>6
<1> USE DEF CsortInv, AscendingSorts, StableSorts, MergesortReversesTies, ShellsortOrders, QuicksortStaysInside
<1>7. CASE sort = "Insertsort"
  <2>1. output = Insertsort(s)
    BY <1>5, <1>7 DEF Apply
  <2>2. output \in [1 .. n -> Element] /\ Range(output) = Range(s) /\ Sorted(output, n) /\ StableTo(output, n)
    BY <1>4, <2>1, InsertsortSorts
  <2> QED BY <1>6, <1>7, <2>2
<1>8. CASE sort = "Shellsort"
  <2>1. output = Shellsort(s)
    BY <1>5, <1>8 DEF Apply
  <2>2. output \in [1 .. n -> Element] /\ Range(output) = Range(s) /\ SortedDown(output, n)
    BY <2>1, ShellsortSorts
  <2> QED BY <1>6, <1>8, <2>2
<1>9. CASE sort = "Bubblesort"
  <2>1. output = Bubblesort(s)
    BY <1>5, <1>9 DEF Apply
  <2>2. output \in [1 .. n -> Element] /\ Range(output) = Range(s) /\ Sorted(output, n) /\ StableTo(output, n)
    BY <1>4, <2>1, BubblesortSorts
  <2> QED BY <1>6, <1>9, <2>2
<1>10. CASE sort = "Heapsort"
  <2>1. output = Heapsort(s)
    BY <1>5, <1>10 DEF Apply
  <2>2. output \in [1 .. n -> Element] /\ Range(output) = Range(s) /\ Sorted(output, n)
    BY <2>1, HeapsortSorts
  <2> QED BY <1>6, <1>10, <2>2
<1>11. CASE sort = "Mergesort"
  <2>1. output = Msort[s]
    BY <1>5, <1>11 DEF Apply, Mergesort
  <2>2. output \in Seq(Element) /\ Len(output) = n /\ Range(output) = Range(s)
    BY <1>3, <2>1, MsortSorts
  <2>3. output \in [1 .. n -> Element]
    BY <2>2
  <2>4. IdsAscend(s)
    BY <1>2, <1>3 DEF IdsAscend
  <2>5. Ordered(output, n)
    BY <1>3, <2>1, <2>4, MsortSorts
  <2>6. Sorted(output, n)
    <3>1. SUFFICES ASSUME NEW x \in 1 .. n, NEW y \in 1 .. n, x < y PROVE output[x].key <= output[y].key
      BY DEF Sorted
    <3>2. output[x].key \in Int /\ output[y].key \in Int
      BY <2>3, ElementKey
    <3>3. Before(output[x], output[y])
      BY <2>5, <3>1 DEF Ordered
    <3> QED BY <3>2, <3>3 DEF Before
  <2>7. MergesortReversesTies
    <3>1. SUFFICES ASSUME NEW x \in 1 .. n, NEW y \in 1 .. n, x < y, output[x].key = output[y].key
                   PROVE  output[x].id > output[y].id
      BY <2>2 DEF MergesortReversesTies
    <3>2. output[x].key \in Int /\ output[y].key \in Int
      BY <2>3, ElementKey
    <3>3. Before(output[x], output[y])
      BY <2>5, <3>1 DEF Ordered
    <3> QED BY <3>1, <3>2, <3>3 DEF Before
  <2> QED BY <1>6, <1>11, <2>3, <2>2, <2>6, <2>7
<1>12. CASE sort = "Quicksort"
  <2>1. output = Qsort[s]
    BY <1>5, <1>12 DEF Apply, Quicksort
  <2>2. output \in Seq(Element) /\ Len(output) = n /\ Range(output) = Range(s)
    BY <1>3, <2>1, QsortKeeps
  <2>3. output \in [1 .. n -> Element]
    BY <2>2
  <2> QED BY <1>6, <1>12, <2>2, <2>3
<1> QED BY <1>1, <1>7, <1>8, <1>9, <1>10, <1>11, <1>12 DEF Sorts

\* For arrays of any length over any keys: Insertsort(), Bubblesort(), Heapsort() and
\* Mergesort() return the elements they were given in ascending order, the first two
\* with equal ones in the order they had, Mergesort() with equal ones in reverse, so
\* that it is never stable where a key comes twice (against Mergesort.c:73);
\* Shellsort() returns them in descending order (against Shellsort.c:10); and the
\* unguarded scans of Qsort() never leave the array, nor does it lose an element.
THEOREM SortsKeepTheirPromises == CsortSpec => []CsortInv
<1>1. CsortInit => CsInv
  BY DEF CsortInit, CsInv, Sorts
<1> QED BY <1>1, CsStep, CsInvImplies, PTL DEF CsortSpec
=============================================================================
