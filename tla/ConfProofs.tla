------------------------------- MODULE ConfProofs -------------------------------
(***************************************************************************)
(* Proofs about the configuration reader and the log library's use of it:  *)
(* ConfCore, IriConf.                                                      *)
(***************************************************************************)
EXTENDS IriConf, FirstOrderInduction, FiniteSetTheorems, SequenceTheorems, TLAPS

-----------------------------------------------------------------------------
(* Freed memory *)

AllLines == UtilsLines \cup LogLines

\* conf is a record of these fields.
ManagerShape(m) ==
  m = [tab |-> m.tab, entries |-> m.entries, count |-> m.count, init |-> m.init, switch |-> m.switch]

\* The table is destroyed, with its pointer kept, only by a zero switch.
CloseInv ==
  /\ file \in Seq(AllLines) /\ ManagerShape(conf)
  /\ conf.tab = "dead" => HasZeroSwitch(file)

\* A zero switch in the file is there after another line, and a line may be one.
LEMMA ZeroSwitchStays ==
  ASSUME NEW f \in Seq(AllLines), NEW l \in AllLines
  PROVE  /\ Append(f, l) \in Seq(AllLines)
         /\ HasZeroSwitch(f) => HasZeroSwitch(Append(f, l))
         /\ l.kind = "switch" /\ l.digit = 0 => HasZeroSwitch(Append(f, l))
<1>1. /\ Append(f, l) \in Seq(AllLines) /\ Len(Append(f, l)) = Len(f) + 1 /\ Append(f, l)[Len(f) + 1] = l
      /\ \A i \in 1 .. Len(f) : Append(f, l)[i] = f[i]
  BY AppendProperties
<1>2. DOMAIN f = 1 .. Len(f) /\ Len(f) \in Nat /\ DOMAIN Append(f, l) = 1 .. (Len(f) + 1)
  BY <1>1, LenProperties
<1>3. 1 .. Len(f) \subseteq 1 .. (Len(f) + 1) /\ Len(f) + 1 \in 1 .. (Len(f) + 1)
  BY <1>2
<1> QED BY <1>1, <1>2, <1>3 DEF HasZeroSwitch

\* No table is destroyed at first.
LEMMA CloseInitially == Init => CloseInv
  BY EmptySeq DEF Init, CoreInit, CloseInv, NullManager, ManagerShape

\* A line that was read: what is left to show.
LEMMA LineKeepsClose ==
  ASSUME CloseInv, NEW l \in AllLines, file' = Append(file, l), ManagerShape(conf'),
         conf'.tab = "dead" => conf.tab = "dead" \/ (l.kind = "switch" /\ l.digit = 0)
  PROVE  CloseInv'
BY ZeroSwitchStays DEF CloseInv

\* Every step of the reader and of its interface keeps CloseInv,
LEMMA CoreKeepsClose ==
  ASSUME CloseInv, process = "running",
         \/ OpenFile \/ RepeatInit \/ EndOfFile
         \/ \E l \in Lines : ReadLine(l) \/ RestOfFile(l)
         \/ DestroyGlobalConfig \/ GetFreed
  PROVE  CloseInv'
<1>1. CASE OpenFile
  BY <1>1, EmptySeq DEF OpenFile, CloseInv, FreshManager, ManagerShape
<1>2. CASE RepeatInit
  BY <1>2 DEF RepeatInit, CloseInv, ManagerShape
<1>3. CASE EndOfFile
  <2>1. conf' = conf /\ UNCHANGED <<file, process>>
    BY <1>3 DEF EndOfFile, Exit
  <2> QED BY <2>1 DEF CloseInv, ManagerShape
<1>4. CASE DestroyGlobalConfig
  BY <1>4 DEF DestroyGlobalConfig, ClearedManager, NullManager, CloseInv, ManagerShape
<1>5. CASE GetFreed
  BY <1>5 DEF GetFreed, CloseInv, ManagerShape
<1>6. ASSUME NEW l \in Lines,
             ReadLine(l) \/ RestOfFile(l)
      PROVE  CloseInv'
  <2>1. l \in AllLines /\ file' = Append(file, l)
    BY <1>6 DEF Lines, AllLines, ReadLine, ReadPlain, ReadSwitch, ReadStart, ReadEnd, ReadEndUndefined,
                ReadEndError, RestOfFile, ReadsLine
  <2>2. CASE ReadPlain(l) \/ ReadStart(l) \/ ReadEndUndefined(l) \/ RestOfFile(l)
    BY <2>1, <2>2, LineKeepsClose DEF ReadPlain, ReadStart, ReadEndUndefined, RestOfFile, CloseInv, ManagerShape
  <2>3. CASE ReadSwitch(l)
    <3>1. ManagerShape(conf)
      BY DEF CloseInv
    <3>2. ManagerShape(Switched(l.digit)) /\ Switched(l.digit).tab = conf.tab
      BY <3>1 DEF ManagerShape, Switched
    <3>3. ManagerShape(Switched(0)) /\ Switched(0).tab = conf.tab
      BY <3>1 DEF ManagerShape, Switched
    <3>4. CASE l.digit = 0 /\ Exit(CONF_CLOSE_ALL, Switched(0))
      <4>1. ManagerShape(conf')
        BY <3>3, <3>4 DEF Exit, ManagerShape
      <4> QED BY <2>1, <2>3, <3>4, <4>1, LineKeepsClose DEF ReadSwitch
    <3>5. CASE conf' = Switched(l.digit)
      BY <2>1, <3>2, <3>5, LineKeepsClose
    <3> QED BY <2>3, <3>4, <3>5 DEF ReadSwitch
  <2>4. CASE ReadEnd(l)
    <3>1. ManagerShape(conf') /\ conf'.tab = conf.tab
      <4>1. CASE conf' = conf
        BY <2>4, <4>1 DEF CloseInv, ManagerShape, ReadEnd
      <4>2. CASE \E e, n : conf' = [conf EXCEPT !.entries = e, !.count = n]
        BY <2>4, <4>2 DEF CloseInv, ManagerShape, ReadEnd
      <4> QED BY <2>4, <4>1, <4>2 DEF ReadEnd
    <3> QED BY <2>1, <3>1, LineKeepsClose
  <2>5. CASE ReadEndError(l)
    <3>1. conf' = conf
      BY <2>5 DEF ReadEndError, Exit
    <3> QED BY <2>1, <3>1, LineKeepsClose DEF CloseInv, ManagerShape
  <2> QED BY <1>6, <2>2, <2>3, <2>4, <2>5 DEF ReadLine
<1> QED BY <1>1, <1>2, <1>3, <1>4, <1>5, <1>6

\* and so do the steps of the log library.
LEMMA CloseStep == CloseInv /\ [Next]_vars => CloseInv'
<1> SUFFICES ASSUME CloseInv, [Next]_vars PROVE CloseInv'
  OBVIOUS
<1>1. CASE CoreNext
  <2>1. process = "running"
    BY <1>1 DEF CoreNext, OpenFile, RepeatInit, EndOfFile, ReadPlain, ReadSwitch, ReadStart, ReadEnd,
                ReadEndUndefined, ReadEndError, ReadLine, RestOfFile, ReadsLine, DestroyGlobalConfig, GetFreed
  <2> QED BY <1>1, <2>1, CoreKeepsClose DEF CoreNext
<1>2. CASE LogOpens
  BY <1>2, CoreKeepsClose DEF LogOpens, OpenFile
<1>3. CASE LogReads
  <2>1. process = "running"
    BY <1>3 DEF LogReads, EndOfFile, ReadLine, ReadPlain, ReadSwitch, ReadStart, ReadEnd, ReadEndUndefined,
                ReadEndError, ReadsLine
  <2> QED BY <1>3, <2>1, CoreKeepsClose DEF LogReads
<1>4. CASE LogFinishes
  BY <1>4 DEF LogFinishes, CloseInv, NullManager, ManagerShape
<1>5. CASE LogConfInfosDestroy \/ UNCHANGED vars
  BY <1>5 DEF LogConfInfosDestroy, vars, coreVars, CloseInv, ManagerShape
<1>6. CASE \E i \in todo : FillLogConfInfos(i) \/ FillFreedKey(i)
  <2>1. UNCHANGED <<conf, file>>
    BY <1>6 DEF FillLogConfInfos, FillFreedKey
  <2> QED BY <2>1 DEF CloseInv, ManagerShape
<1> QED BY <1>1, <1>2, <1>3, <1>4, <1>5, <1>6 DEF Next

-----------------------------------------------------------------------------
(* The array of the log library *)

\* n entries, for which there is room, and ids below n.
HasEntries(i, n) ==
  /\ DOMAIN i.sinfo = 0 .. (n - 1) /\ n <= i.alloc
  /\ \A k \in DOMAIN i.names : i.names[k] \in 0 .. (n - 1)

InfosShape(i) == i = [alloc |-> i.alloc, sinfo |-> i.sinfo, names |-> i.names] /\ i.alloc \in Nat

\* Strengthening of ArrayHasRoom: while sections are visited the three entries that
\* do not come from an ordinary section are there.
ArrayInv ==
  /\ InfosShape(infos)
  /\ \E n \in Nat : /\ HasEntries(infos, n)
                    /\ stage \in {"reading", "filling", "done"} => n >= INFOS_ID_START

\* The number of entries of the array.
LEMMA CountOfEntries ==
  ASSUME NEW n \in Nat
  PROVE  Cardinality(0 .. (n - 1)) = n
<1>1. CASE n = 0
  <2>1. 0 .. (n - 1) = {}
    BY <1>1
  <2> QED BY <1>1, <2>1, FS_EmptySet
<1>2. CASE n > 0
  <2>1. Cardinality(0 .. (n - 1)) = (n - 1) - 0 + 1
    BY <1>2, FS_Interval
  <2> QED BY <1>2, <2>1
<1> QED BY <1>1, <1>2

\* log_conf_infos_destroy() leaves no entry.
LEMMA EmptyArray == HasEntries(NoInfos, 0) /\ InfosShape(NoInfos)
<1>1. DOMAIN << >> = {} /\ 0 .. (0 - 1) = {}
  OBVIOUS
<1> QED BY <1>1 DEF HasEntries, InfosShape, NoInfos

\* log_conf_infos_init() makes three.
LEMMA FirstEntries == HasEntries(InitialInfos, 3) /\ InfosShape(InitialInfos)
<1>2. DOMAIN InitialInfos.sinfo = {0, 1, 2}
  BY DEF InitialInfos, INFOS_ID_CTL, INFOS_ID_TOTAL_SWITCH, INFOS_ID_DEFAULT
<1>3. \A k \in DOMAIN InitialInfos.names : InitialInfos.names[k] = 2
  BY DEF InitialInfos, INFOS_ID_DEFAULT
<1>4. InitialInfos.alloc \in Nat /\ 3 <= InitialInfos.alloc
  BY IriConfAssumption DEF InitialInfos
<1>5. {0, 1, 2} = 0 .. (3 - 1)
  OBVIOUS
<1>6. InfosShape(InitialInfos)
  BY <1>4 DEF InitialInfos, InfosShape
<1> QED BY <1>2, <1>3, <1>4, <1>5, <1>6 DEF HasEntries

\* lci_add_info(): an ordinary section, and the total switch.
LEMMA AddKeepsArray ==
  ASSUME ArrayInv, NEW info, NEW n \in Nat, HasEntries(infos, n), n >= INFOS_ID_START,
         NEW special \in {INFOS_ID_START, INFOS_ID_TOTAL_SWITCH}
  PROVE  InfosShape(AddInfo(info, special)) /\ \E m \in Nat : m >= n /\ HasEntries(AddInfo(info, special), m)
<1>1. NumInfos = n
  BY CountOfEntries DEF NumInfos, HasEntries
<1> DEFINE id == IF special >= INFOS_ID_START THEN NumInfos ELSE special
           new == AddInfo(info, special)
           m == IF special >= INFOS_ID_START THEN n + 1 ELSE n
<1>2. new = [alloc |-> Grown, sinfo |-> With(infos.sinfo, id, info), names |-> With(infos.names, info.name, id)]
  BY DEF AddInfo
<1>3. id \in 0 .. (m - 1) /\ {id} \cup 0 .. (n - 1) = 0 .. (m - 1) /\ m \in Nat /\ m >= n /\ m <= n + 1
      /\ 0 .. (n - 1) \subseteq 0 .. (m - 1)
  BY <1>1 DEF INFOS_ID_START, INFOS_ID_TOTAL_SWITCH
<1>4. infos.alloc \in Nat /\ n <= infos.alloc
  BY DEF ArrayInv, InfosShape, HasEntries
<1>5. Grown \in Nat /\ n + 1 <= Grown
  BY <1>1, <1>4, IriConfAssumption DEF Grown, MustGrow
<1> HIDE DEF id, m
<1>6. /\ new.alloc = Grown /\ new.sinfo = With(infos.sinfo, id, info)
      /\ new.names = With(infos.names, info.name, id)
      /\ new = [alloc |-> new.alloc, sinfo |-> new.sinfo, names |-> new.names]
  BY <1>2
<1> HIDE DEF new
<1>7. DOMAIN new.sinfo = 0 .. (m - 1)
  BY <1>3, <1>6 DEF HasEntries, With
<1>8. \A k \in DOMAIN new.names : new.names[k] \in 0 .. (m - 1)
  <2>1. DOMAIN new.names = {info.name} \cup DOMAIN infos.names
    BY <1>6 DEF With
  <2>2. \A k \in DOMAIN new.names : new.names[k] = IF k = info.name THEN id ELSE infos.names[k]
    BY <1>6 DEF With
  <2> QED BY <1>3, <2>1, <2>2 DEF HasEntries
<1>9. m <= new.alloc
  BY <1>3, <1>5, <1>6
<1>10. InfosShape(new)
  BY <1>5, <1>6 DEF InfosShape
<1> QED BY <1>3, <1>7, <1>8, <1>9, <1>10 DEF HasEntries, new

\* Writing to a field of the control entry.
LEMMA FieldKeepsArray ==
  ASSUME InfosShape(infos), NEW n \in Nat, HasEntries(infos, n), NEW e
  PROVE  LET new == [infos EXCEPT !.sinfo[INFOS_ID_CTL] = e] IN InfosShape(new) /\ HasEntries(new, n)
<1> DEFINE new == [infos EXCEPT !.sinfo[INFOS_ID_CTL] = e]
<1>1. /\ new.alloc = infos.alloc /\ new.names = infos.names
      /\ new.sinfo = [infos.sinfo EXCEPT ![INFOS_ID_CTL] = e]
      /\ new = [alloc |-> new.alloc, sinfo |-> new.sinfo, names |-> new.names]
  BY DEF InfosShape
<1>2. DOMAIN new.sinfo = DOMAIN infos.sinfo
  BY <1>1
<1> HIDE DEF new
<1> QED BY <1>1, <1>2 DEF InfosShape, HasEntries, new

\* ArrayInv is inductive.
LEMMA ArrayStep == ArrayInv /\ [Next]_vars => ArrayInv'
<1> SUFFICES ASSUME ArrayInv, [Next]_vars PROVE ArrayInv'
  OBVIOUS
<1>1. PICK n \in Nat : HasEntries(infos, n) /\ (stage \in {"reading", "filling", "done"} => n >= INFOS_ID_START)
  BY DEF ArrayInv
<1>2. InfosShape(infos)
  BY DEF ArrayInv
<1>3. CASE UNCHANGED <<infos, stage>>
  BY <1>1, <1>2, <1>3 DEF ArrayInv, HasEntries, InfosShape
<1>4. CASE LogOpens
  <2>1. infos' = InitialInfos
    BY <1>4 DEF LogOpens
  <2> QED BY <2>1, FirstEntries DEF ArrayInv, INFOS_ID_START
<1>5. CASE LogReads
  <2>1. stage = "reading" /\ stage' \in {"reading", "filling"}
    BY <1>5 DEF LogReads
  <2>2. CASE infos' = infos
    BY <1>1, <1>2, <2>1, <2>2 DEF ArrayInv
  <2>3. CASE infos' = [infos EXCEPT !.sinfo[INFOS_ID_CTL].log_switch = conf.switch]
    <3>1. \E e : infos' = [infos EXCEPT !.sinfo[INFOS_ID_CTL] = e]
      BY <2>3
    <3> QED BY <1>1, <1>2, <2>1, <3>1, FieldKeepsArray DEF ArrayInv
  <2> QED BY <1>5, <2>2, <2>3 DEF LogReads
<1>6. CASE LogFinishes
  <2>1. stage = "filling" /\ stage' = "done"
        /\ infos' = [infos EXCEPT !.sinfo[INFOS_ID_CTL].is_valid = infos.sinfo[INFOS_ID_TOTAL_SWITCH].is_valid]
    BY <1>6 DEF LogFinishes
  <2>2. \E e : infos' = [infos EXCEPT !.sinfo[INFOS_ID_CTL] = e]
    BY <2>1
  <2> QED BY <1>1, <1>2, <2>1, <2>2, FieldKeepsArray DEF ArrayInv
<1>7. CASE LogConfInfosDestroy
  <2>1. infos' = NoInfos /\ stage' = "destroyed"
    BY <1>7 DEF LogConfInfosDestroy
  <2> QED BY <2>1, EmptyArray DEF ArrayInv
<1>8. ASSUME NEW i \in todo, FillLogConfInfos(i) PROVE ArrayInv'
  <2>1. stage = "filling" /\ stage' = stage /\ n >= INFOS_ID_START
    BY <1>1, <1>8 DEF FillLogConfInfos
  <2>2. \/ infos' = infos
        \/ \E info : infos' = AddInfo(info, INFOS_ID_START)
        \/ \E info : infos' = AddInfo(info, INFOS_ID_TOTAL_SWITCH)
    BY <1>8 DEF FillLogConfInfos
  <2>3. CASE infos' = infos
    BY <1>1, <1>2, <2>1, <2>3 DEF ArrayInv
  <2>4. ASSUME NEW info, NEW special \in {INFOS_ID_START, INFOS_ID_TOTAL_SWITCH},
               infos' = AddInfo(info, special)
        PROVE  ArrayInv'
    <3>1. PICK m \in Nat : m >= n /\ HasEntries(infos', m)
      BY <1>1, <2>1, <2>4, AddKeepsArray
    <3>2. m >= INFOS_ID_START
      BY <2>1, <3>1 DEF INFOS_ID_START
    <3>3. InfosShape(infos')
      BY <1>1, <2>1, <2>4, AddKeepsArray
    <3> QED BY <3>1, <3>2, <3>3 DEF ArrayInv
  <2> QED BY <2>2, <2>3, <2>4
<1> QED BY <1>3, <1>4, <1>5, <1>6, <1>7, <1>8 DEF Next, vars, FillFreedKey

\* iridiumlog_conf.c: with any number of sections, visited in any order, the array
\* sinfo is grown before it is written to, and every id that names holds is in it.
THEOREM IdsStayValid == Spec => []ArrayHasRoom
<1>1. Init => ArrayInv
  BY EmptyArray DEF Init, ArrayInv
<1>2. ArrayInv => ArrayHasRoom
  <2> SUFFICES ASSUME ArrayInv PROVE ArrayHasRoom
    OBVIOUS
  <2>1. PICK n \in Nat : HasEntries(infos, n)
    BY DEF ArrayInv
  <2>2. NumInfos = n
    BY <2>1, CountOfEntries DEF NumInfos, HasEntries
  <2>3. ASSUME NEW k \in DOMAIN infos.names PROVE GetLogConfInfo(infos.names[k]) # {}
    <3>1. infos.names[k] \in 0 .. (n - 1)
      BY <2>1 DEF HasEntries
    <3>2. ~ (infos.names[k] < 0 \/ infos.names[k] >= NumInfos)
      BY <2>2, <3>1
    <3> QED BY <3>2 DEF GetLogConfInfo
  <2> QED BY <2>1, <2>2, <2>3 DEF ArrayHasRoom, HasEntries
<1>3. Spec => []ArrayInv
  BY <1>1, ArrayStep, PTL DEF Spec
<1> QED BY <1>2, <1>3, PTL

-----------------------------------------------------------------------------
(* What the file says: the lines of a section *)

\* The least member of a set of numbers.
LEMMA MinIs ==
  ASSUME NEW T \in SUBSET Nat, T # {}
  PROVE  Min(T) \in T /\ \A y \in T : Min(T) <= y
BY LeastNatural DEF Min

\* It is the only one that no other is below.
LEMMA MinUnique ==
  ASSUME NEW T \in SUBSET Nat, NEW m \in T, \A y \in T : m <= y
  PROVE  Min(T) = m
<1>1. Min(T) \in T /\ Min(T) <= m
  BY MinIs
<1>2. m <= Min(T) /\ m \in Nat /\ Min(T) \in Nat
  BY <1>1
<1> QED BY <1>1, <1>2

\* The loop of handle_conf_block() over the lines of b.
Kept(b) ==
  LET kept[i \in 0 .. Len(b)] ==
        IF i = 0 THEN << >>
        ELSE IF IsComment(b[i]) THEN kept[i - 1] ELSE Append(kept[i - 1], b[i])
  IN  kept

\* What one line does.
KeptLine(c, l) == IF IsComment(l) THEN c ELSE Append(c, l)

\* The recursive function of NoComments() is what it says: its value line by line.
LEMMA KeptIs ==
  ASSUME NEW b \in Seq(AllLines)
  PROVE  /\ Kept(b)[0] = << >>
         /\ \A i \in 1 .. Len(b) : Kept(b)[i] = KeptLine(Kept(b)[i - 1], b[i])
<1>0. PICK len \in Nat : len = Len(b) /\ \A i \in 1 .. len : b[i] \in AllLines
  OBVIOUS
<1> DEFINE T == Seq(AllLines)
           step == [p \in (1 .. len) \X T |-> KeptLine(p[2], b[p[1]])]
<1>1. step \in [(1 .. len) \X T -> T]
  <2>1. \A c \in T, l \in AllLines : KeptLine(c, l) \in T
    BY DEF KeptLine
  <2> QED BY <1>0, <2>1
<1>2. \A i \in 1 .. len, c \in T : step[<<i, c>>] = KeptLine(c, b[i])
  OBVIOUS
<1>3. PICK f \in [0 .. len -> T] : ListFollows(f, len, << >>, step)
  <2>1. << >> \in T
    OBVIOUS
  <2> HIDE DEF step, T
  <2> QED BY <1>1, <2>1, ListRecursion
<1>4. \A i \in 1 .. len : i \in 0 .. len /\ i - 1 \in 0 .. len /\ i # 0
  OBVIOUS
<1>5. f[0] = << >> /\ \A i \in 1 .. len : f[i] = KeptLine(f[i - 1], b[i])
  <2> HIDE DEF step, T
  <2> QED BY <1>2, <1>3, <1>4 DEF ListFollows
<1>6. \A i \in 0 .. len : i = 0 \/ i \in 1 .. len
  OBVIOUS
<1>7. f = [n \in 0 .. len |-> IF n = 0 THEN << >> ELSE KeptLine(f[n - 1], b[n])]
  <2> HIDE DEF T
  <2> QED BY <1>3, <1>5, <1>6
<1> DEFINE v == Kept(b)
<1>8. v = [n \in 0 .. len |-> IF n = 0 THEN << >> ELSE KeptLine(v[n - 1], b[n])]
  BY <1>0, <1>7 DEF Kept, KeptLine
<1> HIDE DEF v
<1>9. v[0] = << >> /\ \A i \in 1 .. len : v[i] = KeptLine(v[i - 1], b[i])
  BY <1>4, <1>8
<1> QED BY <1>0, <1>9 DEF v

\* g lists the members of K, n of them, in their order.
Enumerates(g, n, K) ==
  /\ g \in [1 .. n -> K]
  /\ \A x, y \in 1 .. n : x < y => g[x] < g[y]
  /\ \A k \in K : \E x \in 1 .. n : g[x] = k

\* A list with one more, larger, member at its end.
LEMMA ListsMore ==
  ASSUME NEW n \in Nat, NEW K \in SUBSET Nat, NEW g, Enumerates(g, n, K), NEW k \in Nat,
         \A j \in K : j < k
  PROVE  Enumerates([x \in 1 .. (n + 1) |-> IF x = n + 1 THEN k ELSE g[x]], n + 1, K \cup {k})
<1>1. \A x \in 1 .. (n + 1) : x = n + 1 \/ (x \in 1 .. n /\ x # n + 1)
  OBVIOUS
<1>2. \A x \in 1 .. n : x \in 1 .. (n + 1) /\ x # n + 1 /\ g[x] \in K /\ g[x] \in Nat
  <2>1. g \in [1 .. n -> K]
    BY DEF Enumerates
  <2>2. \A x \in 1 .. n : x \in 1 .. (n + 1) /\ x # n + 1
    OBVIOUS
  <2> QED BY <2>1, <2>2
<1> DEFINE h == [x \in 1 .. (n + 1) |-> IF x = n + 1 THEN k ELSE g[x]]
<1>3. n + 1 \in 1 .. (n + 1) /\ h[n + 1] = k
  OBVIOUS
<1>4. \A x \in 1 .. n : h[x] = g[x]
  BY <1>2
<1>5. h \in [1 .. (n + 1) -> K \cup {k}]
  BY <1>1, <1>2
<1> HIDE DEF h
<1>6. ASSUME NEW x \in 1 .. (n + 1), NEW y \in 1 .. (n + 1), x < y PROVE h[x] < h[y]
  <2>1. x \in 1 .. n
    BY <1>1, <1>6
  <2>2. CASE y = n + 1
    BY <1>2, <1>3, <1>4, <2>1, <2>2
  <2>3. CASE y \in 1 .. n
    BY <1>4, <1>6, <2>1, <2>3 DEF Enumerates
  <2> QED BY <1>1, <2>2, <2>3
<1>7. ASSUME NEW j \in K \cup {k} PROVE \E x \in 1 .. (n + 1) : h[x] = j
  <2>1. CASE j = k
    BY <1>3, <2>1
  <2>2. CASE j \in K
    <3>1. PICK x \in 1 .. n : g[x] = j
      BY <2>2 DEF Enumerates
    <3> QED BY <1>2, <1>4, <3>1
  <2> QED BY <2>1, <2>2
<1>8. Enumerates(h, n + 1, K \cup {k})
  BY <1>5, <1>6, <1>7 DEF Enumerates
<1> QED BY <1>8 DEF h

\* The lines of b up to the i-th that are no comments.
Text(b, i) == {j \in 1 .. i : ~ IsComment(b[j])}

\* c has these lines in their order.
Selects(c, b, i) == \E g : Enumerates(g, Len(c), Text(b, i)) /\ \A x \in 1 .. Len(c) : c[x] = b[g[x]]

\* NoComments(b) has the lines of b that are no comments, in their order.
LEMMA NoCommentsSelects ==
  ASSUME NEW b \in Seq(AllLines)
  PROVE  NoComments(b) \in Seq(AllLines) /\ Selects(NoComments(b), b, Len(b))
<1>0. PICK len \in Nat : len = Len(b) /\ \A i \in 1 .. len : b[i] \in AllLines
  OBVIOUS
<1> DEFINE v == Kept(b)
<1>1. v[0] = << >> /\ \A i \in 1 .. len : v[i] = KeptLine(v[i - 1], b[i])
  BY <1>0, KeptIs
<1> HIDE DEF v
<1> DEFINE P == {i \in Nat : v[i] \in Seq(AllLines) /\ Selects(v[i], b, i)}
<1>2. 0 \in P
  <2>1. Len(v[0]) = 0 /\ v[0] \in Seq(AllLines)
    BY <1>1
  <2>2. Text(b, 0) = {}
    BY DEF Text
  <2> DEFINE g == [x \in 1 .. 0 |-> 0]
  <2>3. Enumerates(g, 0, {})
    BY DEF Enumerates
  <2> HIDE DEF g
  <2>4. Selects(v[0], b, 0)
    BY <2>1, <2>2, <2>3 DEF Selects
  <2> QED BY <2>1, <2>4
<1>3. ASSUME NEW i \in 1 .. len, i - 1 \in P PROVE i \in P
  <2>1. PICK c \in Seq(AllLines) : c = v[i - 1] /\ Selects(c, b, i - 1)
    BY <1>3
  <2>2. PICK n \in Nat : n = Len(c)
    OBVIOUS
  <2>3. PICK g : Enumerates(g, n, Text(b, i - 1)) /\ \A x \in 1 .. n : c[x] = b[g[x]]
    BY <2>1, <2>2 DEF Selects
  <2>4. CASE IsComment(b[i])
    <3>1. Text(b, i) = Text(b, i - 1)
      BY <2>4 DEF Text
    <3>2. v[i] = c
      BY <1>1, <2>1, <2>4 DEF KeptLine
    <3> QED BY <2>1, <3>1, <3>2 DEF Selects
  <2>5. CASE ~ IsComment(b[i])
    <3>1. Text(b, i) = Text(b, i - 1) \cup {i} /\ Text(b, i - 1) \in SUBSET Nat
          /\ \A j \in Text(b, i - 1) : j < i
      BY <2>5 DEF Text
    <3>2. PICK d \in Seq(AllLines) : d = v[i] /\ d = Append(c, b[i])
      <4>1. PICK l \in AllLines : l = b[i]
        BY <1>0
      <4>2. v[i] = Append(c, l)
        BY <1>1, <2>1, <2>5, <4>1 DEF KeptLine
      <4>3. Append(c, l) \in Seq(AllLines)
        OBVIOUS
      <4> HIDE DEF P
      <4> QED BY <4>1, <4>2, <4>3, Zenon
    <3>3. Len(d) = n + 1 /\ d[n + 1] = b[i] /\ \A x \in 1 .. n : d[x] = c[x]
      BY <2>2, <3>2
    <3> DEFINE h == [x \in 1 .. (n + 1) |-> IF x = n + 1 THEN i ELSE g[x]]
    <3>4. Enumerates(h, n + 1, Text(b, i))
      BY <2>3, <3>1, ListsMore
    <3>5. \A x \in 1 .. (n + 1) : d[x] = b[h[x]]
      <4>1. \A x \in 1 .. (n + 1) : x = n + 1 \/ (x \in 1 .. n /\ x # n + 1)
        OBVIOUS
      <4> QED BY <2>3, <3>3, <4>1
    <3> HIDE DEF h
    <3>6. Selects(d, b, i)
      BY <3>3, <3>4, <3>5 DEF Selects
    <3>7. i \in Nat
      OBVIOUS
    <3> QED BY <3>2, <3>6, <3>7
  <2> QED BY <2>4, <2>5
<1>4. \A i \in 0 .. len : i \in P
  <2>1. P \in SUBSET Nat
    OBVIOUS
  <2> HIDE DEF P
  <2> QED BY <1>2, <1>3, <2>1, ListInduction
<1>5. NoComments(b) = v[len]
  BY <1>0 DEF NoComments, v, Kept
<1>6. len \in P
  BY <1>4
<1> QED BY <1>0, <1>5, <1>6

\* The block that is closed by line Len(f) + 1 of a file: it began with line a.
InBlock(f, a, b) ==
  /\ f \in Seq(AllLines) /\ a \in 1 .. Len(f)
  /\ \A d \in Dashes(f) : d <= a
  /\ b = SubSeq(f, a, Len(f))

\* The lines of a block in the file; only the first is a dash.
LEMMA BlockLines ==
  ASSUME NEW f, NEW a, NEW b, InBlock(f, a, b), NEW n, n = Len(f)
  PROVE  /\ n \in Nat /\ a \in 1 .. n
         /\ b \in Seq(AllLines) /\ Len(b) = n - a + 1
         /\ \A j \in 1 .. (n - a + 1) : b[j] = f[a + j - 1] /\ (b[j].kind = "dash" => j = 1)
<1>1. f \in Seq(AllLines) /\ n \in Nat /\ a \in 1 .. n /\ DOMAIN f = 1 .. n /\ b = SubSeq(f, a, n)
  BY DEF InBlock
<1>2. \A i \in a .. n : f[i] \in AllLines
  BY <1>1
<1>3. /\ b \in Seq(AllLines) /\ Len(b) = n - a + 1
      /\ \A j \in 1 .. (n - a + 1) : b[j] = f[a + j - 1]
  BY <1>1, <1>2, SubSeqProperties
<1>4. ASSUME NEW j \in 1 .. (n - a + 1), b[j].kind = "dash" PROVE j = 1
  <2>1. PICK i \in 1 .. n : i = a + j - 1
    BY <1>1
  <2>2. i \in Dashes(f)
    BY <1>1, <1>3, <1>4, <2>1 DEF Dashes
  <2>3. i <= a
    BY <2>2 DEF InBlock
  <2> QED BY <1>1, <2>1, <2>3
<1> QED BY <1>1, <1>3, <1>4

\* g, the file with its next line, has the section s that consists of the block.
Closes(f, a, b, g, s) ==
  /\ InBlock(f, a, b) /\ f[a].kind = "dash"
  /\ \E l \in AllLines : g = Append(f, l)
  /\ s = <<a, Len(f) + 1>>

\* The lines that may head a section, in Title.
Named(g, s) == {i \in s[1] .. (s[2] - 1) : g[i].kind # "comment" /\ ~ (i = s[1] /\ g[i].name = "")}

\* The lines that may head the section are lines of the block.
LEMMA NamedLines ==
  ASSUME NEW f, NEW a, NEW b, NEW g, NEW s, Closes(f, a, b, g, s), NEW n, n = Len(f),
         NEW j \in 1 .. (n - a + 1)
  PROVE  /\ a + j - 1 \in 1 .. n /\ g[a + j - 1] = b[j]
         /\ a + j - 1 \in Named(g, s) <=> ~ IsComment(b[j])
<1>1. /\ n \in Nat /\ a \in 1 .. n
      /\ b[j] = f[a + j - 1] /\ (b[j].kind = "dash" => j = 1)
  BY BlockLines DEF Closes
<1>2. PICK i \in 1 .. n : i = a + j - 1
  BY <1>1
<1>3. f \in Seq(AllLines) /\ s = <<a, n + 1>> /\ f[a].kind = "dash"
  BY DEF Closes, InBlock
<1>4. g[i] = f[i]
  <2>1. PICK l \in AllLines : g = Append(f, l)
    BY DEF Closes
  <2> QED BY <1>3, <1>2, <2>1, AppendProperties
<1>5. i \in a .. n /\ (j = 1 <=> i = a) /\ s[1] = a /\ s[2] - 1 = n
  BY <1>1, <1>2, <1>3
<1>6. j = 1 => b[j].kind = "dash"
  BY <1>1, <1>2, <1>3, <1>5
<1>7. IsComment(b[j]) <=> b[j].kind = "comment" \/ (j = 1 /\ b[j].name = "")
  BY <1>1, <1>6 DEF IsComment
<1>8. i \in Named(g, s) <=> g[i].kind # "comment" /\ ~ (i = a /\ g[i].name = "")
  BY <1>5 DEF Named
<1>9. g[i] = b[j]
  BY <1>1, <1>2, <1>4
<1>10. i \in Named(g, s) <=> ~ IsComment(b[j])
  BY <1>5, <1>7, <1>8, <1>9
<1> QED BY <1>2, <1>9, <1>10

\* The title is the first line of the block that is no comment.
LEMMA TitleOfBlock ==
  ASSUME NEW f, NEW a, NEW b, NEW g, NEW s, Closes(f, a, b, g, s)
  PROVE  /\ Text(b, Len(b)) = {} => Title(g, s) = 0
         /\ \A k \in Text(b, Len(b)) : (\A j \in Text(b, Len(b)) : k <= j) =>
              /\ Title(g, s) = a + k - 1 /\ Title(g, s) # 0 /\ a + k - 1 \in Nat
              /\ g[a + k - 1] = b[k] /\ TitleName(g, s) = ModeName(b[k])
<1>n. PICK n : n = Len(f)
  OBVIOUS
<1>0. n \in Nat /\ a \in 1 .. n /\ Len(b) = n - a + 1
  BY <1>n, BlockLines DEF Closes
<1>1. Title(g, s) = IF Named(g, s) = {} THEN 0 ELSE Min(Named(g, s))
  BY DEF Title, Named
<1>2. \A i \in Named(g, s) : i \in a .. n
  <2>1. s = <<a, n + 1>>
    BY <1>n DEF Closes
  <2>2. s[1] = a /\ s[2] - 1 = n
    BY <1>0, <2>1
  <2> QED BY <2>2 DEF Named
<1>3. \A i \in Named(g, s) : i - a + 1 \in Text(b, Len(b))
  <2> SUFFICES ASSUME NEW i \in Named(g, s) PROVE i - a + 1 \in Text(b, Len(b))
    OBVIOUS
  <2>0. i \in a .. n
    BY <1>2
  <2>1. PICK j \in 1 .. (n - a + 1) : j = i - a + 1 /\ i = a + j - 1
    BY <1>0, <2>0
  <2>2. a + j - 1 \in Named(g, s) <=> ~ IsComment(b[j])
    BY <1>n, NamedLines
  <2> QED BY <1>0, <2>1, <2>2 DEF Text
<1>4. \A k \in Text(b, Len(b)) : k \in 1 .. (n - a + 1) /\ a + k - 1 \in Named(g, s) /\ g[a + k - 1] = b[k]
  <2> SUFFICES ASSUME NEW k \in Text(b, Len(b))
               PROVE  k \in 1 .. (n - a + 1) /\ a + k - 1 \in Named(g, s) /\ g[a + k - 1] = b[k]
    OBVIOUS
  <2>1. k \in 1 .. (n - a + 1) /\ ~ IsComment(b[k])
    BY <1>0 DEF Text
  <2> QED BY <1>n, <2>1, NamedLines
<1>5. Text(b, Len(b)) = {} => Title(g, s) = 0
  BY <1>1, <1>3
<1>6. ASSUME NEW k \in Text(b, Len(b)), \A j \in Text(b, Len(b)) : k <= j
      PROVE  /\ Title(g, s) = a + k - 1 /\ Title(g, s) # 0 /\ a + k - 1 \in Nat
             /\ g[a + k - 1] = b[k] /\ TitleName(g, s) = ModeName(b[k])
  <2>1. PICK i \in Nat : i = a + k - 1 /\ i # 0 /\ i \in Named(g, s) /\ g[i] = b[k]
    <3>1. k \in 1 .. (n - a + 1) /\ a + k - 1 \in Named(g, s) /\ g[a + k - 1] = b[k]
      BY <1>4
    <3>2. a + k - 1 \in Nat /\ a + k - 1 # 0
      BY <1>0, <3>1
    <3> QED BY <3>1, <3>2
  <2>2. ASSUME NEW y \in Named(g, s) PROVE i <= y
    <3>1. k <= y - a + 1
      BY <1>3, <1>6
    <3>2. y \in a .. n /\ k \in 1 .. (n - a + 1)
      BY <1>2, <1>4
    <3> QED BY <1>0, <2>1, <3>1, <3>2
  <2>3. Named(g, s) \in SUBSET Nat
    BY <1>0, <1>2
  <2>4. Min(Named(g, s)) = i
    BY <2>1, <2>2, <2>3, MinUnique
  <2>5. Title(g, s) = i
    BY <1>1, <2>1, <2>4
  <2> QED BY <2>1, <2>5 DEF TitleName
<1> QED BY <1>5, <1>6

\* The first line that handle_conf_block() keeps is the first that is no comment.
LEMMA FirstKept ==
  ASSUME NEW c \in Seq(AllLines), NEW lines, lines = NoComments(c), lines # << >>
  PROVE  \E k \in Text(c, Len(c)) : lines[1] = c[k] /\ \A j \in Text(c, Len(c)) : k <= j
<1>1. lines \in Seq(AllLines) /\ Selects(lines, c, Len(c))
  BY NoCommentsSelects
<1>2. PICK n \in Nat : n = Len(lines) /\ n >= 1
  BY <1>1
<1>3. PICK h : Enumerates(h, n, Text(c, Len(c))) /\ \A x \in 1 .. n : lines[x] = c[h[x]]
  BY <1>1, <1>2 DEF Selects
<1>4. h[1] \in Text(c, Len(c)) /\ lines[1] = c[h[1]]
  BY <1>2, <1>3 DEF Enumerates
<1>5. ASSUME NEW j \in Text(c, Len(c)) PROVE h[1] <= j
  <2>1. PICK x \in 1 .. n : h[x] = j
    BY <1>3 DEF Enumerates
  <2>2. x = 1 \/ (1 < x /\ 1 \in 1 .. n)
    BY <1>2
  <2>3. 1 < x => h[1] < h[x]
    BY <1>3, <2>2 DEF Enumerates
  <2>4. h[1] \in Int /\ h[x] \in Int
    BY <1>4, <2>1 DEF Text
  <2> QED BY <2>1, <2>2, <2>3, <2>4
<1> QED BY <1>4, <1>5

\* The lines before a line of MAX_LINE_LEN characters.
LEMMA BeforeHugeIs ==
  ASSUME NEW b \in Seq(AllLines)
  PROVE  /\ BeforeHuge(b) \in Seq(AllLines) /\ Len(BeforeHuge(b)) <= Len(b)
         /\ \A j \in 1 .. Len(BeforeHuge(b)) : BeforeHuge(b)[j] = b[j]
         /\ (\A j \in 1 .. Len(b) : b[j].kind # "huge") => BeforeHuge(b) = b
<1>0. PICK m \in Nat : m = Len(b) /\ DOMAIN b = 1 .. m /\ \A j \in 1 .. m : b[j] \in AllLines
  OBVIOUS
<1> DEFINE huge == {i \in DOMAIN b : b[i].kind = "huge"}
<1>1. BeforeHuge(b) = IF huge = {} THEN b ELSE SubSeq(b, 1, Min(huge) - 1)
  BY DEF BeforeHuge
<1>2. CASE huge = {}
  BY <1>0, <1>1, <1>2
<1>3. CASE huge # {}
  <2>1. Min(huge) \in huge
    <3>1. huge \in SUBSET Nat
      BY <1>0
    <3> HIDE DEF huge
    <3> QED BY <1>3, <3>1, MinIs
  <2>2. PICK p \in Nat : p = Min(huge) - 1 /\ p < m
    <3>1. Min(huge) \in 1 .. m
      BY <1>0, <2>1
    <3> HIDE DEF huge
    <3>2. PICK q \in 1 .. m : q = Min(huge)
      BY <3>1
    <3>3. q - 1 \in Nat /\ q - 1 < m
      OBVIOUS
    <3> QED BY <3>2, <3>3
  <2>3. BeforeHuge(b) = SubSeq(b, 1, p)
    BY <1>1, <1>3, <2>2
  <2>4. \A i \in 1 .. p : b[i] \in AllLines
    BY <1>0, <2>2
  <2>5. /\ SubSeq(b, 1, p) \in Seq(AllLines) /\ Len(SubSeq(b, 1, p)) = p
        /\ \A i \in 1 .. p : SubSeq(b, 1, p)[i] = b[i]
    <3> HIDE DEF huge
    <3>1. 1 \in Int /\ p \in Int
      BY <2>2
    <3>2. /\ SubSeq(b, 1, p) \in Seq(AllLines)
          /\ Len(SubSeq(b, 1, p)) = IF 1 <= p THEN p - 1 + 1 ELSE 0
          /\ \A i \in 1 .. (p - 1 + 1) : SubSeq(b, 1, p)[i] = b[1 + i - 1]
      BY <2>4, <3>1, SubSeqProperties
    <3>3. (IF 1 <= p THEN p - 1 + 1 ELSE 0) = p /\ p - 1 + 1 = p /\ \A i \in 1 .. p : 1 + i - 1 = i
      BY <2>2
    <3> QED BY <3>2, <3>3
  <2>6. \E j \in 1 .. Len(b) : b[j].kind = "huge"
    BY <1>0, <1>3
  <2> HIDE DEF huge
  <2> QED BY <1>0, <2>2, <2>3, <2>5, <2>6
<1> QED BY <1>2, <1>3

\* The first line that handle_conf_block() keeps is the section's title.
LEMMA FirstIsTitle ==
  ASSUME NEW f, NEW a, NEW b, NEW g, NEW s, Closes(f, a, b, g, s),
         NEW lines, lines = NoComments(BeforeHuge(b)), lines # << >>
  PROVE  Title(g, s) # 0 /\ g[Title(g, s)] = lines[1] /\ TitleName(g, s) = ModeName(lines[1])
<1>1. b \in Seq(AllLines) /\ Len(b) \in Nat
  <2>1. PICK q : q = Len(f)
    OBVIOUS
  <2>2. b \in Seq(AllLines)
    BY <2>1, BlockLines DEF Closes
  <2> QED BY <2>2
<1>2. PICK c \in Seq(AllLines) : c = BeforeHuge(b) /\ Len(c) <= Len(b) /\ \A j \in 1 .. Len(c) : c[j] = b[j]
  BY <1>1, BeforeHugeIs
<1>3. lines = NoComments(c)
  BY <1>2
<1>5. PICK k \in Text(c, Len(c)) : lines[1] = c[k] /\ \A j \in Text(c, Len(c)) : k <= j
  BY <1>3, FirstKept
<1>6. PICK p \in Nat, m \in Nat : p = Len(c) /\ m = Len(b) /\ p <= m
  BY <1>1, <1>2
<1>7. \A j \in 1 .. p : j \in 1 .. m
  BY <1>6
<1>8. k \in 1 .. p /\ c[k] = b[k] /\ k \in Text(b, m)
  BY <1>2, <1>5, <1>6, <1>7 DEF Text
<1>9. ASSUME NEW j \in Text(b, m) PROVE k <= j
  <2>1. j \in 1 .. m /\ ~ IsComment(b[j])
    BY DEF Text
  <2>2. CASE j \in 1 .. p
    <3>1. j \in Text(c, p)
      BY <1>2, <1>6, <2>1, <2>2 DEF Text
    <3> QED BY <1>5, <1>6, <3>1
  <2>3. CASE j \notin 1 .. p
    BY <1>6, <1>8, <2>1, <2>3
  <2> QED BY <2>2, <2>3
<1>10. /\ Title(g, s) = a + k - 1 /\ Title(g, s) # 0 /\ g[a + k - 1] = b[k]
       /\ TitleName(g, s) = ModeName(b[k])
  BY <1>6, <1>8, <1>9, TitleOfBlock
<1> QED BY <1>5, <1>8, <1>10

\* What handle_conf_block() returns is named by it.
LEMMA NameIsTitle ==
  ASSUME NEW f, NEW a, NEW b, NEW g, NEW s, Closes(f, a, b, g, s), NEW sec \in HandleConfBlock(b)
  PROVE  sec.name = TitleName(g, s)
<1>1. PICK lines : lines = NoComments(BeforeHuge(b))
  OBVIOUS
<1>2. lines # << >> /\ sec.name = ModeName(lines[1])
  <2> DEFINE body == SubSeq(lines, 2, IF Len(lines) > MaxNodeNum THEN MaxNodeNum + 1 ELSE Len(lines))
             bad == lines = << >> \/ lines[1].kind \in {"long", "wide"} \/ \E i \in DOMAIN body : ~ IsPair(body[i])
             pairs == [i \in DOMAIN body |-> Pair(body[i])]
  <2>1. HandleConfBlock(b) = IF bad THEN {} ELSE {[name |-> ModeName(lines[1]), pairs |-> pairs]}
    BY <1>1 DEF HandleConfBlock
  <2>2. bad => HandleConfBlock(b) = {}
    BY <2>1
  <2>3. ~ bad
    BY <2>2
  <2> HIDE DEF pairs
  <2>4. sec = [name |-> ModeName(lines[1]), pairs |-> pairs]
    BY <2>1, <2>3
  <2> QED BY <2>3, <2>4
<1> QED BY <1>1, <1>2, FirstIsTitle

\* The lines below the title that are no comments.
Body(g, s) == {i \in (Title(g, s) + 1) .. (s[2] - 1) : g[i].kind # "comment"}

AllPairs == {Pair(l) : l \in AllLines}

\* pairs has these lines in their order.
Pairs(pairs, g, s) ==
  /\ pairs \in Seq(AllPairs)
  /\ \E h : Enumerates(h, Len(pairs), Body(g, s)) /\ \A x \in 1 .. Len(pairs) : pairs[x] = Pair(g[h[x]])

\* The lines that are kept of a well-formed section are its title and its body.
LEMMA KeptBody ==
  ASSUME NEW f, NEW a, NEW b, NEW g, NEW s, Closes(f, a, b, g, s), WellFormed(g, s),
         NEW lines, lines = NoComments(b)
  PROVE  \E n \in Nat : \E h :
           /\ lines \in Seq(AllLines) /\ Len(lines) = n + 1
           /\ lines[1] = g[Title(g, s)]
           /\ Enumerates(h, n, Body(g, s))
           /\ \A x \in 1 .. n : lines[x + 1] = g[h[x]]
<1>n. PICK q : q = Len(f)
  OBVIOUS
<1>b. /\ q \in Nat /\ a \in 1 .. q
      /\ b \in Seq(AllLines) /\ Len(b) = q - a + 1
      /\ \A j \in 1 .. (q - a + 1) : b[j].kind = "dash" => j = 1
  <2>1. InBlock(f, a, b)
    BY DEF Closes
  <2>2. /\ q \in Nat /\ a \in 1 .. q
        /\ b \in Seq(AllLines) /\ Len(b) = q - a + 1
        /\ \A j \in 1 .. (q - a + 1) : b[j] = f[a + j - 1] /\ (b[j].kind = "dash" => j = 1)
    BY <2>1, <1>n, BlockLines
  <2> QED BY <2>2
<1>m. PICK m \in Nat : m = q - a + 1
  BY <1>b
<1>0. /\ m = Len(b) /\ b \in Seq(AllLines) /\ m = q - a + 1 /\ q \in Nat /\ a \in 1 .. q
      /\ \A j \in 1 .. m : b[j].kind = "dash" => j = 1
  BY <1>b, <1>m
<1>t. /\ Text(b, m) = {} => Title(g, s) = 0
      /\ \A k \in Text(b, m) : (\A j \in Text(b, m) : k <= j) =>
           Title(g, s) = a + k - 1 /\ g[a + k - 1] = b[k]
  <2>1. m = Len(b)
    BY <1>0
  <2> QED BY <2>1, TitleOfBlock
<1>1. lines \in Seq(AllLines) /\ Selects(lines, b, m)
  BY <1>0, NoCommentsSelects
<1>2. PICK len \in Nat : len = Len(lines)
  BY <1>1
<1>3. PICK h : Enumerates(h, len, Text(b, m)) /\ \A x \in 1 .. len : lines[x] = b[h[x]]
  BY <1>1, <1>2 DEF Selects
<1>4. Title(g, s) # 0
  BY DEF WellFormed
<1>5. Text(b, m) # {}
  BY <1>4, <1>t
<1>6. len >= 1
  <2>1. PICK k \in Text(b, m) : TRUE
    BY <1>5
  <2>2. PICK x \in 1 .. len : h[x] = k
    BY <1>3, <2>1 DEF Enumerates
  <2> QED BY <2>2
<1>7. \A x \in 1 .. len : h[x] \in Text(b, m) /\ h[x] \in 1 .. m
  BY <1>3 DEF Enumerates, Text
<1>8. \A x, y \in 1 .. len : x < y => h[x] < h[y]
  BY <1>3 DEF Enumerates
<1>9. PICK t \in 1 .. m : t = h[1] /\ t \in Text(b, m) /\ lines[1] = b[t]
  BY <1>3, <1>6, <1>7
<1>10. ASSUME NEW j \in Text(b, m) PROVE t <= j
  <2>1. PICK x \in 1 .. len : h[x] = j
    BY <1>3 DEF Enumerates
  <2>2. x = 1 \/ (1 < x /\ 1 \in 1 .. len)
    BY <1>6
  <2>3. 1 < x => t < j
    BY <1>8, <1>9, <2>1, <2>2
  <2>4. j \in Int
    BY DEF Text
  <2> QED BY <1>9, <2>1, <2>2, <2>3, <2>4
<1>11. Title(g, s) = a + t - 1 /\ g[a + t - 1] = b[t]
  BY <1>9, <1>10, <1>t
<1>12. PICK n \in Nat : n + 1 = len /\ \A x \in 1 .. n : x + 1 \in 1 .. len /\ 1 < x + 1
  BY <1>2, <1>6
<1>13. s[2] - 1 = q
  <2>1. s = <<a, q + 1>>
    BY <1>n DEF Closes
  <2> QED BY <1>0, <2>1
<1>14. \A j \in 1 .. m : g[a + j - 1] = b[j]
  <2> SUFFICES ASSUME NEW j \in 1 .. (q - a + 1) PROVE g[a + j - 1] = b[j]
    BY <1>0
  <2> QED BY <1>n, NamedLines
<1> DEFINE e == [x \in 1 .. n |-> a + h[x + 1] - 1]
<1>15. ASSUME NEW x \in 1 .. n
       PROVE  /\ e[x] \in Body(g, s) /\ lines[x + 1] = g[e[x]] /\ e[x] \in Int
  <2>1. PICK j \in 1 .. m : j = h[x + 1] /\ j \in Text(b, m) /\ t < j
    BY <1>6, <1>7, <1>8, <1>9, <1>12
  <2>2. PICK i \in Int : i = a + j - 1 /\ i = e[x]
    BY <1>0, <2>1
  <2> HIDE DEF e
  <2>3. i \in (Title(g, s) + 1) .. (s[2] - 1)
    <3>1. PICK tt \in Int : tt = Title(g, s) /\ tt = a + t - 1
      BY <1>0, <1>11
    <3>2. i \in (tt + 1) .. q
      BY <1>0, <2>1, <2>2, <3>1
    <3> QED BY <1>13, <3>1, <3>2
  <2>4. g[i] = b[j]
    BY <1>14, <2>1, <2>2
  <2>5. b[j].kind # "comment"
    BY <2>1 DEF Text, IsComment
  <2>6. lines[x + 1] = b[j]
    BY <1>3, <1>12, <2>1
  <2> QED BY <2>2, <2>3, <2>4, <2>5, <2>6 DEF Body
<1>16. ASSUME NEW x \in 1 .. n, NEW y \in 1 .. n, x < y PROVE e[x] < e[y]
  <2>1. x + 1 < y + 1
    BY <1>16
  <2>2. h[x + 1] < h[y + 1] /\ h[x + 1] \in Int /\ h[y + 1] \in Int
    BY <1>7, <1>8, <1>12, <2>1
  <2>3. PICK u \in Int, v \in Int : u = h[x + 1] /\ v = h[y + 1] /\ u < v
    BY <2>2
  <2> QED BY <1>0, <2>3
<1>17. ASSUME NEW i \in Body(g, s) PROVE \E x \in 1 .. n : e[x] = i
  <2>1. i \in (Title(g, s) + 1) .. (s[2] - 1) /\ g[i].kind # "comment"
    BY DEF Body
  <2>2. PICK j \in 1 .. m : i = a + j - 1 /\ t < j
    <3>1. PICK tt \in Int : tt = Title(g, s) /\ tt = a + t - 1
      BY <1>0, <1>11
    <3>2. i \in (tt + 1) .. q
      BY <1>13, <2>1, <3>1
    <3>3. PICK j \in Int : j = i - a + 1
      BY <1>0, <3>2
    <3>4. j \in 1 .. m /\ i = a + j - 1 /\ t < j
      BY <1>0, <3>1, <3>2, <3>3
    <3> QED BY <3>4
  <2>3. g[i] = b[j] /\ j # 1
    BY <1>14, <2>2
  <2>4. j \in Text(b, m)
    BY <1>0, <2>1, <2>3 DEF Text, IsComment
  <2>5. PICK y \in 1 .. len : h[y] = j
    BY <1>3, <2>4 DEF Enumerates
  <2>6. y # 1
    BY <1>9, <2>2, <2>5
  <2>7. PICK x \in 1 .. n : x + 1 = y
    BY <1>12, <2>6
  <2> QED BY <2>2, <2>5, <2>7
<1> HIDE DEF e
<1>18. e \in [1 .. n -> Body(g, s)]
  BY <1>15 DEF e
<1>19. Enumerates(e, n, Body(g, s))
  BY <1>16, <1>17, <1>18 DEF Enumerates
<1>20. \A x \in 1 .. n : lines[x + 1] = g[e[x]]
  BY <1>15
<1>21. lines[1] = g[Title(g, s)]
  BY <1>9, <1>11
<1>22. Len(lines) = n + 1
  BY <1>2, <1>12
<1> QED BY <1>1, <1>12, <1>19, <1>20, <1>21, <1>22, Zenon

\* A set is no smaller than a list of its members.
LEMMA CountAtLeast ==
  ASSUME NEW n \in Nat, NEW K, IsFiniteSet(K), K \in SUBSET Int, NEW h, Enumerates(h, n, K)
  PROVE  n <= Cardinality(K)
<1>1. h \in [1 .. n -> K] /\ \A x, y \in 1 .. n : x < y => h[x] < h[y]
  BY DEF Enumerates
<1>2. \A x, y \in 1 .. n : h[x] = h[y] => x = y
  <2> SUFFICES ASSUME NEW x \in 1 .. n, NEW y \in 1 .. n, h[x] = h[y], x # y PROVE FALSE
    OBVIOUS
  <2>1. h[x] \in Int /\ h[y] \in Int
    BY <1>1
  <2>2. x < y \/ y < x
    OBVIOUS
  <2> QED BY <1>1, <2>1, <2>2
<1>3. h \in Injection(1 .. n, K)
  BY <1>1, <1>2, Zenon DEF Injection, IsInjective
<1>4. Cardinality(1 .. n) <= Cardinality(K)
  BY <1>3, FS_Injection
<1>5. Cardinality(1 .. n) = n
  <2>1. Cardinality(1 .. n) = IF 1 > n THEN 0 ELSE n - 1 + 1
    BY FS_Interval
  <2> QED BY <2>1
<1> QED BY <1>4, <1>5

\* A well-formed section has no line that is too long.
LEMMA NoHuge ==
  ASSUME NEW f, NEW a, NEW b, NEW g, NEW s, Closes(f, a, b, g, s), WellFormed(g, s)
  PROVE  BeforeHuge(b) = b
<1>1. PICK q : q = Len(f)
  OBVIOUS
<1>2. q \in Nat /\ a \in 1 .. q /\ b \in Seq(AllLines) /\ Len(b) = q - a + 1
  BY <1>1, BlockLines DEF Closes
<1>3. s[1] = a /\ s[2] - 1 = q
  <2>1. s = <<a, q + 1>>
    BY <1>1 DEF Closes
  <2> QED BY <1>2, <2>1
<1>4. /\ Title(g, s) # 0 /\ g[Title(g, s)].kind # "huge"
      /\ \A i \in (Title(g, s) + 1) .. q : g[i].kind \in {"pair", "switch", "comment"}
  BY <1>3 DEF WellFormed
<1>5. Title(g, s) = IF Named(g, s) = {} THEN 0 ELSE Min(Named(g, s))
  BY DEF Title, Named
<1>6. Named(g, s) \in SUBSET Nat /\ Named(g, s) # {}
  <2>1. Named(g, s) \in SUBSET (a .. q)
    BY <1>3 DEF Named
  <2> QED BY <1>2, <1>4, <1>5, <2>1
<1>7. PICK t \in Nat : t = Title(g, s) /\ \A y \in Named(g, s) : t <= y
  BY <1>5, <1>6, MinIs
<1>8. ASSUME NEW j \in 1 .. (q - a + 1) PROVE b[j].kind # "huge"
  <2>1. /\ a + j - 1 \in 1 .. q /\ g[a + j - 1] = b[j]
        /\ a + j - 1 \in Named(g, s) <=> ~ IsComment(b[j])
    BY <1>1, NamedLines
  <2>2. PICK i \in 1 .. q : i = a + j - 1
    BY <2>1
  <2>3. CASE i < t
    <3>1. i \notin Named(g, s)
      BY <1>7, <2>3
    <3>2. IsComment(b[j])
      BY <2>1, <2>2, <3>1
    <3> QED BY <3>2 DEF IsComment
  <2>4. CASE i = t
    BY <1>4, <1>7, <2>1, <2>2, <2>4
  <2>5. CASE t < i
    <3>1. i \in (t + 1) .. q
      BY <1>2, <2>5
    <3> QED BY <1>4, <1>7, <2>1, <2>2, <3>1
  <2> QED BY <2>3, <2>4, <2>5
<1> QED BY <1>2, <1>8, BeforeHugeIs

\* A well-formed section is read: its title gives the name, its body the pairs.
LEMMA SectionIsRead ==
  ASSUME NEW f, NEW a, NEW b, NEW g, NEW s, Closes(f, a, b, g, s), WellFormed(g, s)
  PROVE  \E sec : HandleConfBlock(b) = {sec} /\ Pairs(sec.pairs, g, s)
<1>1. PICK lines : lines = NoComments(b)
  OBVIOUS
<1>k. PICK n \in Nat : \E h :
        /\ lines \in Seq(AllLines) /\ Len(lines) = n + 1 /\ lines[1] = g[Title(g, s)]
        /\ Enumerates(h, n, Body(g, s)) /\ \A x \in 1 .. n : lines[x + 1] = g[h[x]]
  BY <1>1, KeptBody
<1>2. PICK h :
        /\ lines \in Seq(AllLines) /\ Len(lines) = n + 1 /\ lines[1] = g[Title(g, s)]
        /\ Enumerates(h, n, Body(g, s)) /\ \A x \in 1 .. n : lines[x + 1] = g[h[x]]
  BY <1>k
<1>q. PICK q \in Nat : s[2] - 1 = q
  <2>1. PICK len : len = Len(f)
    OBVIOUS
  <2>2. s = <<a, len + 1>> /\ len \in Nat /\ a \in 1 .. len
    BY <2>1, BlockLines DEF Closes
  <2>3. s[2] - 1 = len
    BY <2>2
  <2> QED BY <2>2, <2>3
<1>t. PICK t \in Nat : t = Title(g, s)
  <2>1. Title(g, s) = IF Named(g, s) = {} THEN 0 ELSE Min(Named(g, s))
    BY DEF Title, Named
  <2>2. s[1] \in Nat
    <3>1. PICK len : len = Len(f)
      OBVIOUS
    <3>2. s = <<a, len + 1>> /\ len \in Nat /\ a \in 1 .. len
      BY <3>1, BlockLines DEF Closes
    <3> QED BY <3>2
  <2>3. Named(g, s) \in SUBSET Nat
    <3>1. PICK u \in Nat : u = s[1]
      BY <2>2
    <3>2. u .. q \in SUBSET Nat
      OBVIOUS
    <3>3. s[1] .. (s[2] - 1) = u .. q
      BY <1>q, <3>1
    <3> QED BY <3>2, <3>3 DEF Named
  <2>4. Named(g, s) # {} => Min(Named(g, s)) \in Nat
    BY <2>3, MinIs
  <2> QED BY <2>1, <2>4
<1>3. Body(g, s) = {i \in (t + 1) .. q : g[i].kind # "comment"}
  BY <1>q, <1>t DEF Body
<1>4. /\ lines[1].kind \notin {"long", "wide"} /\ Cardinality(Body(g, s)) <= MaxNodeNum
      /\ \A i \in (t + 1) .. q : g[i].kind \in {"pair", "switch", "comment"}
  BY <1>2, <1>3, <1>q, <1>t DEF WellFormed
<1>5. n <= MaxNodeNum
  <2>1. Body(g, s) \in SUBSET Nat /\ \A i \in Body(g, s) : i <= q
    BY <1>3
  <2>2. IsFiniteSet(Body(g, s))
    BY <2>1, FS_BoundedSetOfNaturals
  <2>3. Cardinality(Body(g, s)) \in Nat
    BY <2>2, FS_CardinalityType
  <2>4. n <= Cardinality(Body(g, s))
    <3>1. Body(g, s) \in SUBSET Int
      BY <2>1
    <3> QED BY <1>2, <2>2, <3>1, CountAtLeast
  <2> QED BY <1>4, <2>3, <2>4, ConfCoreAssumption
<1>6. (IF Len(lines) > MaxNodeNum THEN MaxNodeNum + 1 ELSE Len(lines)) = n + 1
  BY <1>2, <1>5, ConfCoreAssumption
<1>7. PICK body \in Seq(AllLines) : /\ body = SubSeq(lines, 2, n + 1) /\ Len(body) = n
                                    /\ \A x \in 1 .. n : body[x] = lines[x + 1]
  <2>1. \A i \in 2 .. (n + 1) : lines[i] \in AllLines
    BY <1>2
  <2>2. 2 \in Int /\ n + 1 \in Int
    OBVIOUS
  <2>3. /\ SubSeq(lines, 2, n + 1) \in Seq(AllLines)
        /\ Len(SubSeq(lines, 2, n + 1)) = IF 2 <= n + 1 THEN n + 1 - 2 + 1 ELSE 0
        /\ \A i \in 1 .. (n + 1 - 2 + 1) : SubSeq(lines, 2, n + 1)[i] = lines[2 + i - 1]
    BY <2>1, <2>2, SubSeqProperties
  <2>4. (IF 2 <= n + 1 THEN n + 1 - 2 + 1 ELSE 0) = n /\ n + 1 - 2 + 1 = n
        /\ \A i \in 1 .. n : 2 + i - 1 = i + 1
    OBVIOUS
  <2> QED BY <2>3, <2>4
<1>8. \A x \in 1 .. n : body[x] = g[h[x]]
  BY <1>2, <1>7
<1>9. \A x \in 1 .. n : IsPair(body[x])
  <2>1. \A x \in 1 .. n : h[x] \in (t + 1) .. q /\ g[h[x]].kind # "comment"
    BY <1>2, <1>3 DEF Enumerates
  <2> QED BY <1>4, <1>8, <2>1 DEF IsPair
<1>10. DOMAIN body = 1 .. n /\ \A x \in 1 .. n : body[x] \in AllLines
  BY <1>7
<1> DEFINE pairs == [x \in DOMAIN body |-> Pair(body[x])]
           sec == [name |-> ModeName(lines[1]), pairs |-> pairs]
<1>11. pairs \in [1 .. n -> AllPairs] /\ \A x \in 1 .. n : pairs[x] = Pair(g[h[x]])
  BY <1>8, <1>10 DEF AllPairs
<1>12. lines # << >>
  BY <1>2
<1>13. HandleConfBlock(b) = {sec}
  <2>1. BeforeHuge(b) = b
    BY NoHuge
  <2>2. ~ (lines = << >> \/ lines[1].kind \in {"long", "wide"} \/ \E i \in DOMAIN body : ~ IsPair(body[i]))
    BY <1>4, <1>9, <1>10, <1>12
  <2>3. body = SubSeq(lines, 2, IF Len(lines) > MaxNodeNum THEN MaxNodeNum + 1 ELSE Len(lines))
    BY <1>6, <1>7
  <2> QED BY <1>1, <2>1, <2>2, <2>3 DEF HandleConfBlock
<1>14. sec.pairs = pairs
  OBVIOUS
<1> HIDE DEF pairs
<1>15. pairs \in Seq(AllPairs) /\ Len(pairs) = n
  BY <1>11
<1>16. Pairs(pairs, g, s)
  BY <1>2, <1>11, <1>15 DEF Pairs
<1> QED BY <1>13, <1>14, <1>16

\* The lines of a section have numbers.
LEMMA SectionNumbers ==
  ASSUME NEW f \in Seq(AllLines), NEW s \in Sections(f)
  PROVE  Body(f, s) \in SUBSET Nat /\ Title(f, s) \in Nat /\ s[1] \in Nat /\ s[2] \in Nat
<1>1. s \in (DOMAIN f) \X (DOMAIN f)
  BY DEF Sections
<1>2. PICK u \in Nat, v \in Nat : u = s[1] /\ v = s[2] /\ v >= 1
  BY <1>1, LenProperties
<1>3. Title(f, s) \in Nat
  <2>1. Named(f, s) \in SUBSET Nat
    <3>1. u .. (v - 1) \in SUBSET Nat
      BY <1>2
    <3> QED BY <1>2, <3>1 DEF Named
  <2>2. Title(f, s) = IF Named(f, s) = {} THEN 0 ELSE Min(Named(f, s))
    BY DEF Title, Named
  <2>3. Named(f, s) # {} => Min(Named(f, s)) \in Nat
    BY <2>1, MinIs
  <2> QED BY <2>2, <2>3
<1>4. PICK t \in Nat : t = Title(f, s)
  BY <1>3
<1>5. Body(f, s) = {j \in (t + 1) .. (v - 1) : f[j].kind # "comment"}
  BY <1>2, <1>4 DEF Body
<1>6. (t + 1) .. (v - 1) \in SUBSET Nat
  BY <1>2, <1>4
<1> QED BY <1>2, <1>3, <1>5, <1>6

\* get_value() finds the first line with the key.
LEMMA FirstValue ==
  ASSUME NEW g, NEW s, NEW pairs, WellFormed(g, s), Pairs(pairs, g, s), NEW key, key # "@SWITCH",
         Body(g, s) \in SUBSET Nat
  PROVE  GetValue(pairs, key) = Says(g, s, key)
<1>1. PICK n \in Nat : n = Len(pairs) /\ DOMAIN pairs = 1 .. n
  BY DEF Pairs
<1>2. PICK h : Enumerates(h, n, Body(g, s)) /\ \A x \in 1 .. n : pairs[x] = Pair(g[h[x]])
  BY <1>1 DEF Pairs
<1> DEFINE mine == {x \in DOMAIN pairs : pairs[x].key = key}
           said == {i \in (Title(g, s) + 1) .. (s[2] - 1) : g[i].kind = "pair" /\ g[i].key = key}
<1>3. GetValue(pairs, key) = IF mine = {} THEN {} ELSE {pairs[Min(mine)].val}
  BY DEF GetValue
<1>4. Says(g, s, key) = IF said = {} THEN {} ELSE {g[Min(said)].val}
  BY DEF Says
<1>5. said \in SUBSET Body(g, s) /\ mine \in SUBSET Nat
  BY <1>1 DEF Body
<1>6. ASSUME NEW x \in 1 .. n
      PROVE  /\ h[x] \in Body(g, s) /\ (x \in mine <=> h[x] \in said)
             /\ x \in mine => pairs[x].val = g[h[x]].val
  <2>1. h[x] \in Body(g, s)
    BY <1>2 DEF Enumerates
  <2>2. h[x] \in (Title(g, s) + 1) .. (s[2] - 1) /\ g[h[x]].kind \in {"pair", "switch"}
    BY <2>1 DEF Body, WellFormed
  <2>3. pairs[x] = Pair(g[h[x]])
    BY <1>2
  <2>4. CASE g[h[x]].kind = "pair"
    <3>1. pairs[x].key = g[h[x]].key /\ pairs[x].val = g[h[x]].val
      BY <2>3, <2>4 DEF Pair
    <3> QED BY <1>1, <2>1, <2>2, <2>4, <3>1
  <2>5. CASE g[h[x]].kind = "switch"
    <3>1. pairs[x].key = "@SWITCH"
      BY <2>3, <2>5 DEF Pair
    <3> QED BY <1>1, <2>1, <2>2, <2>5, <3>1
  <2> QED BY <2>2, <2>4, <2>5
<1>7. \A i \in said : \E x \in 1 .. n : h[x] = i
  BY <1>2, <1>5 DEF Enumerates
<1>8. said \in SUBSET Nat /\ mine \in SUBSET (1 .. n)
  BY <1>1, <1>5
<1> HIDE DEF mine, said
<1>9. CASE mine = {}
  BY <1>3, <1>4, <1>6, <1>7, <1>9
<1>10. CASE mine # {}
  <2>1. PICK x \in 1 .. n : x = Min(mine) /\ x \in mine /\ \A y \in mine : x <= y
    BY <1>5, <1>8, <1>10, MinIs
  <2>2. h[x] \in said
    BY <1>6, <2>1
  <2>3. ASSUME NEW i \in said PROVE h[x] <= i
    <3>1. PICK y \in 1 .. n : h[y] = i
      BY <1>7
    <3>2. x <= y
      BY <1>6, <2>1, <3>1
    <3>3. x = y \/ x < y
      BY <3>2
    <3>4. x < y => h[x] < h[y]
      BY <1>2 DEF Enumerates
    <3>5. h[x] \in Nat /\ i \in Nat
      BY <1>8, <2>2
    <3> QED BY <3>1, <3>3, <3>4, <3>5
  <2>4. Min(said) = h[x]
    BY <1>8, <2>2, <2>3, MinUnique
  <2> QED BY <1>3, <1>4, <1>6, <1>10, <2>1, <2>2, <2>4
<1> QED BY <1>9, <1>10

\* g is the file f of n lines with the next line l.
Grows(f, l, g, n) == f \in Seq(AllLines) /\ l \in AllLines /\ g = Append(f, l) /\ n = Len(f)

\* A line more.
LEMMA MoreLines ==
  ASSUME NEW f, NEW l, NEW g, NEW n, Grows(f, l, g, n)
  PROVE  /\ n \in Nat /\ g \in Seq(AllLines) /\ Len(g) = n + 1 /\ g[n + 1] = l
         /\ DOMAIN f = 1 .. n /\ DOMAIN g = 1 .. (n + 1)
         /\ \A i \in 1 .. n : g[i] = f[i]
<1>1. f \in Seq(AllLines) /\ l \in AllLines /\ g = Append(f, l) /\ n = Len(f)
  BY DEF Grows
<1> QED BY <1>1, AppendProperties, LenProperties

\* Which lines are dashes, and how many come before one.
LEMMA MoreDashes ==
  ASSUME NEW f, NEW l, NEW g, NEW n, Grows(f, l, g, n)
  PROVE  /\ Dashes(f) \in SUBSET (1 .. n)
         /\ \A i \in 1 .. n : Before(g, i) = Before(f, i)
         /\ Dashes(g) = IF l.kind = "dash" THEN Dashes(f) \cup {n + 1} ELSE Dashes(f)
         /\ Before(g, n + 1) = Cardinality(Dashes(f)) /\ Cardinality(Dashes(f)) \in Nat
<1>1. /\ n \in Nat /\ g[n + 1] = l
      /\ DOMAIN f = 1 .. n /\ DOMAIN g = 1 .. (n + 1)
      /\ \A i \in 1 .. n : g[i] = f[i]
  BY MoreLines
<1>2. \A i : i \in 1 .. (n + 1) <=> i \in 1 .. n \/ i = n + 1
  BY <1>1
<1>3. Dashes(f) \in SUBSET (1 .. n)
  BY <1>1 DEF Dashes
<1>4. Dashes(g) = IF l.kind = "dash" THEN Dashes(f) \cup {n + 1} ELSE Dashes(f)
  <2>1. \A i : i \in Dashes(g) <=> (i \in 1 .. n /\ f[i].kind = "dash") \/ (i = n + 1 /\ l.kind = "dash")
    BY <1>1, <1>2 DEF Dashes
  <2>2. \A i : i \in Dashes(f) <=> i \in 1 .. n /\ f[i].kind = "dash"
    BY <1>1 DEF Dashes
  <2> QED BY <2>1, <2>2
<1>5. \A i \in 1 .. n : ~ (n + 1 < i)
  BY <1>1
<1>6. ASSUME NEW i \in 1 .. n PROVE Before(g, i) = Before(f, i)
  <2>1. {d \in Dashes(g) : d < i} = {d \in Dashes(f) : d < i}
    BY <1>4, <1>5
  <2> QED BY <2>1 DEF Before
<1>7. Before(g, n + 1) = Cardinality(Dashes(f))
  <2>1. \A d \in 1 .. n : d < n + 1
    BY <1>1
  <2>2. ~ (n + 1 < n + 1)
    BY <1>1
  <2>3. {d \in Dashes(g) : d < n + 1} = Dashes(f)
    BY <1>3, <1>4, <2>1, <2>2
  <2> QED BY <2>3 DEF Before
<1>8. Cardinality(Dashes(f)) \in Nat
  <2>1. IsFiniteSet(1 .. n)
    BY <1>1, FS_Interval
  <2> QED BY <1>3, <2>1, FS_Subset, FS_CardinalityType
<1> QED BY <1>1, <1>3, <1>4, <1>6, <1>7, <1>8

\* The last dash and those before it.
LEMMA LastDash ==
  ASSUME NEW f \in Seq(AllLines), NEW a \in Dashes(f), \A d \in Dashes(f) : d <= a
  PROVE  Before(f, a) \in Nat /\ Cardinality(Dashes(f)) = Before(f, a) + 1
<1> DEFINE early == {d \in Dashes(f) : d < a}
<1>1. Dashes(f) \in SUBSET (1 .. Len(f)) /\ Len(f) \in Nat
  BY DEF Dashes
<1>2. IsFiniteSet(Dashes(f))
  <2>1. IsFiniteSet(1 .. Len(f))
    BY <1>1, FS_Interval
  <2> QED BY <1>1, <2>1, FS_Subset
<1>3. IsFiniteSet(early)
  BY <1>2, FS_Subset
<1>4. Dashes(f) = early \cup {a} /\ a \notin early
  <2>1. \A d \in Dashes(f) : d < a \/ d = a
    BY <1>1
  <2>2. ~ (a < a)
    BY <1>1
  <2> QED BY <2>1, <2>2
<1>5. Before(f, a) = Cardinality(early)
  BY DEF Before
<1> HIDE DEF early
<1> QED BY <1>3, <1>4, <1>5, FS_AddElement, FS_CardinalityType

\* The sections of a file, in terms of what MoreLines speaks of.
SectionIn(f, s) ==
  /\ s \in (DOMAIN f) \X (DOMAIN f)
  /\ Opens(f, s[1]) /\ s[1] < s[2] /\ s[2] \in Dashes(f)
  /\ \A d \in Dashes(f) : ~ (s[1] < d /\ d < s[2])

\* A section, without the dashes out of turn.
LEMMA SectionsAre ==
  ASSUME NEW f, NEW s
  PROVE  s \in Sections(f) <=> SectionIn(f, s) /\ \A d \in Misplaced(f) : s[2] < d
BY DEF Sections, SectionIn

\* What was a section before the line is one after it.
LEMMA SectionsStay ==
  ASSUME NEW f, NEW l, NEW g, NEW n, Grows(f, l, g, n),
         NEW s \in (1 .. n) \X (1 .. n)
  PROVE  SectionIn(g, s) <=> SectionIn(f, s)
<1>1. /\ n \in Nat /\ DOMAIN f = 1 .. n /\ DOMAIN g = 1 .. (n + 1) /\ Dashes(f) \in SUBSET (1 .. n)
      /\ \A i \in 1 .. n : Before(g, i) = Before(f, i)
      /\ Dashes(g) = IF l.kind = "dash" THEN Dashes(f) \cup {n + 1} ELSE Dashes(f)
  BY MoreLines, MoreDashes
<1>2. PICK u \in 1 .. n, v \in 1 .. n : s = <<u, v>>
  OBVIOUS
<1>3. /\ u \in 1 .. (n + 1) /\ v \in 1 .. (n + 1) /\ ~ (n + 1 < v) /\ ~ (n + 1 < u)
      /\ u # n + 1 /\ v # n + 1
  BY <1>1
<1>4. u \in Dashes(g) <=> u \in Dashes(f)
  BY <1>1, <1>3
<1>5. v \in Dashes(g) <=> v \in Dashes(f)
  BY <1>1, <1>3
<1>6. Opens(g, u) <=> Opens(f, u)
  BY <1>1, <1>4 DEF Opens
<1>7. (\A d \in Dashes(g) : ~ (u < d /\ d < v)) <=> (\A d \in Dashes(f) : ~ (u < d /\ d < v))
  BY <1>1, <1>3
<1>8. s[1] = u /\ s[2] = v /\ s \in (DOMAIN g) \X (DOMAIN g) /\ s \in (DOMAIN f) \X (DOMAIN f)
  BY <1>1, <1>2, <1>3
<1> QED BY <1>5, <1>6, <1>7, <1>8 DEF SectionIn

\* A title is found among the lines of the section, which stay.
LEMMA TitlesStay ==
  ASSUME NEW f, NEW l, NEW g, NEW n, Grows(f, l, g, n),
         NEW s \in (1 .. n) \X (1 .. n)
  PROVE  /\ Title(g, s) = Title(f, s) /\ TitleName(g, s) = TitleName(f, s)
         /\ Title(f, s) = 0 \/ Title(f, s) \in 1 .. n
<1>1. n \in Nat /\ \A i \in 1 .. n : g[i] = f[i]
  BY MoreLines
<1>2. PICK u \in 1 .. n, v \in 1 .. n : s = <<u, v>>
  OBVIOUS
<1>3. s[1] = u /\ s[2] = v /\ \A i \in u .. (v - 1) : i \in 1 .. n
  BY <1>1, <1>2
<1>4. Named(g, s) = Named(f, s) /\ Named(f, s) \in SUBSET (1 .. n)
  BY <1>1, <1>3 DEF Named
<1>5. /\ Title(g, s) = (IF Named(g, s) = {} THEN 0 ELSE Min(Named(g, s)))
      /\ Title(f, s) = (IF Named(f, s) = {} THEN 0 ELSE Min(Named(f, s)))
  BY DEF Title, Named
<1>6. Title(f, s) = 0 \/ Title(f, s) \in 1 .. n
  <2>1. Named(f, s) \in SUBSET Nat
    BY <1>1, <1>4
  <2>2. Named(f, s) # {} => Min(Named(f, s)) \in Named(f, s)
    BY <2>1, MinIs
  <2> QED BY <1>4, <1>5, <2>2
<1>7. Title(g, s) = Title(f, s)
  BY <1>4, <1>5
<1>8. TitleName(g, s) = TitleName(f, s)
  BY <1>1, <1>6, <1>7 DEF TitleName
<1> QED BY <1>6, <1>7, <1>8

\* The body of a section too.
LEMMA BodiesStay ==
  ASSUME NEW f, NEW l, NEW g, NEW n, Grows(f, l, g, n),
         NEW s \in (1 .. n) \X (1 .. n)
  PROVE  /\ WellFormed(g, s) => WellFormed(f, s)
         /\ Body(g, s) = Body(f, s) /\ Body(f, s) \in SUBSET (1 .. n)
         /\ \A pairs : Title(f, s) # 0 /\ Pairs(pairs, f, s) => Pairs(pairs, g, s)
<1>1. n \in Nat /\ \A i \in 1 .. n : g[i] = f[i]
  BY MoreLines
<1>2. PICK u \in 1 .. n, v \in 1 .. n : s = <<u, v>>
  OBVIOUS
<1>3. PICK t \in 0 .. n : Title(f, s) = t /\ Title(g, s) = t
  <2>1. Title(g, s) = Title(f, s) /\ (Title(f, s) = 0 \/ Title(f, s) \in 1 .. n)
    BY TitlesStay
  <2> QED BY <1>1, <2>1
<1>4. s[2] = v /\ \A i \in (t + 1) .. (v - 1) : i \in 1 .. n
  BY <1>1, <1>2
<1>5. Body(g, s) = Body(f, s) /\ Body(f, s) \in SUBSET (1 .. n)
  BY <1>1, <1>3, <1>4 DEF Body
<1>6. WellFormed(g, s) => WellFormed(f, s)
  <2> SUFFICES ASSUME WellFormed(g, s) PROVE WellFormed(f, s)
    OBVIOUS
  <2>1. /\ t # 0 /\ g[t].kind \notin {"long", "wide", "huge"}
        /\ \A i \in (t + 1) .. (v - 1) : g[i].kind \in {"pair", "switch", "comment"}
        /\ Cardinality(Body(g, s)) <= MaxNodeNum
    BY <1>3, <1>4 DEF WellFormed, Body
  <2>2. t \in 1 .. n
    BY <1>1, <2>1
  <2>3. /\ f[t].kind \notin {"long", "wide", "huge"}
        /\ \A i \in (t + 1) .. (v - 1) : f[i].kind \in {"pair", "switch", "comment"}
    BY <1>1, <1>4, <2>1, <2>2
  <2> QED BY <1>3, <1>4, <1>5, <2>1, <2>3 DEF WellFormed, Body
<1>7. ASSUME NEW pairs, Pairs(pairs, f, s) PROVE Pairs(pairs, g, s)
  <2>1. PICK h : /\ Enumerates(h, Len(pairs), Body(f, s))
                 /\ \A x \in 1 .. Len(pairs) : pairs[x] = Pair(f[h[x]])
    BY <1>7 DEF Pairs
  <2>2. \A x \in 1 .. Len(pairs) : h[x] \in 1 .. n
    BY <1>5, <2>1 DEF Enumerates
  <2>3. \A x \in 1 .. Len(pairs) : pairs[x] = Pair(g[h[x]])
    BY <1>1, <2>1, <2>2
  <2> QED BY <1>5, <1>7, <2>1, <2>3 DEF Pairs
<1> QED BY <1>5, <1>6, <1>7

\* The dashes out of turn.
LEMMA MisplacedAre ==
  ASSUME NEW f, NEW l, NEW g, NEW n, Grows(f, l, g, n)
  PROVE  /\ Misplaced(f) \in SUBSET (1 .. n)
         /\ \A i \in 1 .. n : i \in Misplaced(g) <=> i \in Misplaced(f)
         /\ \A i \in Misplaced(g) : i \in 1 .. n \/ i = n + 1
         /\ n + 1 \in Misplaced(g) <=> l.kind = "dash" /\ Cardinality(Dashes(f)) % 2 = 1 /\ l.name # "end"
<1>1. /\ n \in Nat /\ g[n + 1] = l /\ \A i \in 1 .. n : g[i] = f[i]
  BY MoreLines
<1>2. /\ Dashes(f) \in SUBSET (1 .. n)
      /\ \A i \in 1 .. n : Before(g, i) = Before(f, i)
      /\ Dashes(g) = IF l.kind = "dash" THEN Dashes(f) \cup {n + 1} ELSE Dashes(f)
      /\ Before(g, n + 1) = Cardinality(Dashes(f))
  BY MoreDashes
<1>3. n + 1 \notin 1 .. n
  BY <1>1
<1>4. \A i \in 1 .. n : i \in Misplaced(g) <=> i \in Misplaced(f)
  BY <1>1, <1>2, <1>3 DEF Misplaced
<1>5. Misplaced(f) \in SUBSET (1 .. n) /\ \A i \in Misplaced(g) : i \in 1 .. n \/ i = n + 1
  BY <1>2 DEF Misplaced
<1>6. n + 1 \in Misplaced(g) <=> l.kind = "dash" /\ Cardinality(Dashes(f)) % 2 = 1 /\ l.name # "end"
  BY <1>1, <1>2, <1>3 DEF Misplaced
<1> QED BY <1>4, <1>5, <1>6

\* The sections that a line leaves as they are, and the one it may add.
LEMMA SectionsOld ==
  ASSUME NEW f, NEW l, NEW g, NEW n, Grows(f, l, g, n)
  PROVE  /\ Sections(f) \in SUBSET ((1 .. n) \X (1 .. n))
         /\ \A s \in (1 .. n) \X (1 .. n) : s \in Sections(g) <=> s \in Sections(f)
<1>1. n \in Nat /\ DOMAIN f = 1 .. n
  BY MoreLines
<1>2. Sections(f) \in SUBSET ((1 .. n) \X (1 .. n))
  BY <1>1 DEF Sections
<1>3. ASSUME NEW s \in (1 .. n) \X (1 .. n) PROVE s \in Sections(g) <=> s \in Sections(f)
  <2>1. SectionIn(g, s) <=> SectionIn(f, s)
    BY SectionsStay
  <2>2. PICK v \in 1 .. n : v = s[2] /\ v < n + 1
    BY <1>1
  <2>3. /\ \A i \in 1 .. n : i \in Misplaced(g) <=> i \in Misplaced(f)
        /\ \A i \in Misplaced(g) : i \in 1 .. n \/ i = n + 1
        /\ Misplaced(f) \in SUBSET (1 .. n)
    BY MisplacedAre
  <2>4. (\A d \in Misplaced(g) : v < d) <=> (\A d \in Misplaced(f) : v < d)
    BY <2>2, <2>3
  <2> QED BY <2>1, <2>2, <2>4, SectionsAre
<1> QED BY <1>2, <1>3

\* A section that was not there before: the line closes the open block.
LEMMA SectionNew ==
  ASSUME NEW f, NEW l, NEW g, NEW n, Grows(f, l, g, n),
         NEW s \in Sections(g), s \notin (1 .. n) \X (1 .. n)
  PROVE  /\ s \in (1 .. n) \X {n + 1} /\ l.kind = "dash" /\ n + 1 \notin Misplaced(g)
         /\ s[1] \in Dashes(f) /\ \A d \in Dashes(f) : d <= s[1]
         /\ Cardinality(Dashes(f)) % 2 = 1
<1>1. n \in Nat /\ DOMAIN g = 1 .. (n + 1)
  BY MoreLines
<1>2. SectionIn(g, s) /\ \A d \in Misplaced(g) : s[2] < d
  BY SectionsAre
<1>3. PICK u \in 1 .. (n + 1), v \in 1 .. (n + 1) : s = <<u, v>>
  BY <1>1, <1>2 DEF SectionIn
<1>4. /\ s[1] = u /\ s[2] = v /\ u < v /\ u \in Dashes(g) /\ Before(g, u) % 2 = 0 /\ v \in Dashes(g)
      /\ \A d \in Dashes(g) : ~ (u < d /\ d < v)
  BY <1>2, <1>3 DEF SectionIn, Opens
<1>5. u \in 1 .. n /\ v = n + 1
  BY <1>1, <1>3, <1>4
<1>6. /\ Dashes(f) \in SUBSET (1 .. n) /\ Before(g, u) = Before(f, u)
      /\ Dashes(g) = IF l.kind = "dash" THEN Dashes(f) \cup {n + 1} ELSE Dashes(f)
  BY <1>5, MoreDashes
<1>7. l.kind = "dash" /\ u \in Dashes(f)
  BY <1>1, <1>4, <1>5, <1>6
<1>8. \A d \in Dashes(f) : d <= u
  <2> SUFFICES ASSUME NEW d \in Dashes(f) PROVE d <= u
    OBVIOUS
  <2>1. d \in 1 .. n /\ d \in Dashes(g)
    BY <1>6
  <2> QED BY <1>1, <1>4, <1>5, <2>1
<1>9. n + 1 \notin Misplaced(g)
  BY <1>1, <1>2, <1>4, <1>5
<1>10. Cardinality(Dashes(f)) % 2 = 1
  <2>1. f \in Seq(AllLines)
    BY DEF Grows
  <2>2. PICK k \in Nat : k = Before(f, u) /\ Cardinality(Dashes(f)) = k + 1
    BY <1>7, <1>8, <2>1, LastDash
  <2>3. k % 2 = 0
    BY <1>4, <1>6, <2>2
  <2>4. (k + 1) % 2 = 1
    BY <2>3
  <2> QED BY <2>2, <2>4
<1> QED BY <1>3, <1>4, <1>5, <1>7, <1>8, <1>9, <1>10

\* No section is added.
LEMMA SectionsSame ==
  ASSUME NEW f, NEW l, NEW g, NEW n, Grows(f, l, g, n),
         l.kind # "dash" \/ Cardinality(Dashes(f)) % 2 # 1 \/ n + 1 \in Misplaced(g)
  PROVE  Sections(g) = Sections(f)
<1>1. ASSUME NEW s \in Sections(g) PROVE s \in Sections(f)
  <2>1. s \in (1 .. n) \X (1 .. n)
    BY SectionNew
  <2> QED BY <2>1, SectionsOld
<1>2. ASSUME NEW s \in Sections(f) PROVE s \in Sections(g)
  <2>1. s \in (1 .. n) \X (1 .. n)
    BY SectionsOld
  <2> QED BY <2>1, SectionsOld
<1> QED BY <1>1, <1>2

-----------------------------------------------------------------------------
\* Between two lines: no dash was out of turn, and the block is what was read since
\* the last one, if that opened it.
BlockOK(f, b) ==
  /\ Misplaced(f) = {}
  /\ b = << >> => Cardinality(Dashes(f)) % 2 = 0
  /\ b # << >> => \E a \in Dashes(f) : Opens(f, a) /\ InBlock(f, a, b)

\* An open block: the number of dashes is odd.
LEMMA OpenBlock ==
  ASSUME NEW f, NEW b, BlockOK(f, b), b # << >>, f \in Seq(AllLines)
  PROVE  \E a \in Dashes(f) : /\ InBlock(f, a, b) /\ Opens(f, a) /\ f[a].kind = "dash"
                              /\ Cardinality(Dashes(f)) % 2 = 1
<1>1. PICK a \in Dashes(f) : Opens(f, a) /\ InBlock(f, a, b)
  BY DEF BlockOK
<1>2. f[a].kind = "dash"
  BY DEF Dashes
<1>3. \A d \in Dashes(f) : d <= a
  BY <1>1 DEF InBlock
<1>4. PICK k \in Nat : k = Before(f, a) /\ Cardinality(Dashes(f)) = k + 1
  BY <1>3, LastDash
<1>5. k % 2 = 0
  BY <1>1, <1>4 DEF Opens
<1>6. (k + 1) % 2 = 1
  BY <1>5
<1> QED BY <1>1, <1>2, <1>4, <1>6

\* Dashes stay where they were when another line follows.
LEMMA OpensStays ==
  ASSUME NEW f, NEW l, NEW g, NEW n, Grows(f, l, g, n), NEW a \in Dashes(f), Opens(f, a)
  PROVE  a \in 1 .. n /\ a \in Dashes(g) /\ Opens(g, a)
<1>1. a \in 1 .. n /\ a \in Dashes(g) /\ Before(g, a) = Before(f, a)
  BY MoreDashes
<1> QED BY <1>1 DEF Opens

\* A line that is no dash.
LEMMA PlainLine ==
  ASSUME NEW f, NEW l, NEW g, NEW n, Grows(f, l, g, n), l.kind # "dash", NEW b, BlockOK(f, b)
  PROVE  /\ BlockOK(g, IF b = << >> THEN b ELSE Append(b, l)) /\ Sections(g) = Sections(f)
<1>1. Sections(g) = Sections(f)
  BY SectionsSame
<1>2. Misplaced(g) = {}
  BY MisplacedAre DEF BlockOK
<1>3. Dashes(g) = Dashes(f)
  BY MoreDashes
<1>4. CASE b = << >>
  BY <1>1, <1>2, <1>3, <1>4 DEF BlockOK
<1>5. CASE b # << >>
  <2>0. f \in Seq(AllLines) /\ l \in AllLines /\ g = Append(f, l) /\ n = Len(f)
    BY DEF Grows
  <2>1. PICK a \in Dashes(f) : InBlock(f, a, b) /\ Opens(f, a)
    BY <1>5, <2>0, OpenBlock
  <2>2. /\ n \in Nat /\ a \in 1 .. n /\ b \in Seq(AllLines) /\ Len(b) = n - a + 1
        /\ \A j \in 1 .. (n - a + 1) : b[j] = f[a + j - 1]
    BY <2>0, <2>1, BlockLines
  <2>3. /\ g \in Seq(AllLines) /\ Len(g) = n + 1 /\ g[n + 1] = l /\ \A i \in 1 .. n : g[i] = f[i]
    BY MoreLines
  <2>4. PICK c \in Seq(AllLines) : c = Append(b, l)
    <3>1. Append(b, l) \in Seq(AllLines)
      BY <2>0, <2>2
    <3> QED BY <3>1
  <2>5. PICK m \in Nat : m = n - a + 1
    BY <2>2
  <2>6. Len(c) = m + 1 /\ c[m + 1] = l /\ \A j \in 1 .. m : c[j] = b[j]
    BY <2>0, <2>2, <2>4, <2>5, AppendProperties
  <2>7. PICK d \in Seq(AllLines) : /\ d = SubSeq(g, a, n + 1) /\ Len(d) = m + 1
                                   /\ \A j \in 1 .. (m + 1) : d[j] = g[a + j - 1]
    <3>1. \A i \in a .. (n + 1) : g[i] \in AllLines
      BY <2>2, <2>3
    <3>2. a \in Int /\ n + 1 \in Int
      BY <2>2
    <3>3. PICK z \in Int : z = n + 1 /\ \A i \in a .. z : g[i] \in AllLines
      BY <3>1, <3>2
    <3>4. /\ SubSeq(g, a, z) \in Seq(AllLines)
          /\ Len(SubSeq(g, a, z)) = IF a <= z THEN z - a + 1 ELSE 0
          /\ \A j \in 1 .. (z - a + 1) : SubSeq(g, a, z)[j] = g[a + j - 1]
      BY <3>2, <3>3, SubSeqProperties
    <3>5. (IF a <= z THEN z - a + 1 ELSE 0) = m + 1 /\ z - a + 1 = m + 1
      BY <2>2, <2>5, <3>3
    <3> QED BY <3>3, <3>4, <3>5
  <2>8. \A j \in 1 .. (m + 1) : c[j] = d[j]
    <3> SUFFICES ASSUME NEW j \in 1 .. (m + 1) PROVE c[j] = d[j]
      OBVIOUS
    <3>1. CASE j = m + 1
      <4>1. a + j - 1 = n + 1
        BY <2>2, <2>5, <3>1
      <4> QED BY <2>3, <2>6, <2>7, <3>1, <4>1
    <3>2. CASE j \in 1 .. m
      <4>1. PICK i \in 1 .. n : i = a + j - 1
        BY <2>2, <2>5, <3>2
      <4>2. b[j] = f[i] /\ g[i] = f[i] /\ d[j] = g[i] /\ c[j] = b[j]
        BY <2>2, <2>3, <2>5, <2>6, <2>7, <3>2, <4>1
      <4> QED BY <4>2
    <3> QED BY <3>1, <3>2
  <2>9. c = d
    <3>1. Len(c) = Len(d) /\ \A j \in 1 .. Len(c) : c[j] = d[j]
      BY <2>6, <2>7, <2>8
    <3> QED BY <3>1, SeqEqual
  <2>10. a \in 1 .. (n + 1) /\ \A e \in Dashes(g) : e <= a
    BY <1>3, <2>1, <2>2 DEF InBlock
  <2>11. InBlock(g, a, c)
    BY <2>3, <2>7, <2>9, <2>10 DEF InBlock
  <2>12. a \in Dashes(g) /\ Opens(g, a)
    BY <2>1, OpensStays
  <2>13. c # << >>
    BY <2>6
  <2>14. BlockOK(g, c)
    BY <1>2, <2>11, <2>12, <2>13 DEF BlockOK
  <2> QED BY <1>1, <1>5, <2>4, <2>14
<1> QED BY <1>4, <1>5

\* A dash that opens a section.
LEMMA StartLine ==
  ASSUME NEW f, NEW l, NEW g, NEW n, Grows(f, l, g, n), l.kind = "dash", BlockOK(f, << >>)
  PROVE  /\ BlockOK(g, <<l>>) /\ Sections(g) = Sections(f)
<1>0. /\ l \in AllLines /\ n \in Nat
      /\ g \in Seq(AllLines) /\ Len(g) = n + 1 /\ g[n + 1] = l
  BY MoreLines DEF Grows
<1>1. Cardinality(Dashes(f)) % 2 = 0 /\ Misplaced(f) = {}
  BY DEF BlockOK
<1>2. Sections(g) = Sections(f)
  BY <1>1, SectionsSame
<1>3. Misplaced(g) = {}
  BY <1>1, MisplacedAre
<1>4. /\ Dashes(f) \in SUBSET (1 .. n) /\ Dashes(g) = Dashes(f) \cup {n + 1}
      /\ Before(g, n + 1) = Cardinality(Dashes(f))
  BY MoreDashes
<1>5. Opens(g, n + 1) /\ n + 1 \in Dashes(g)
  BY <1>1, <1>4 DEF Opens
<1>6. \A d \in Dashes(g) : d <= n + 1
  BY <1>0, <1>4
<1>7. SubSeq(g, n + 1, n + 1) = <<l>>
  <2>1. PICK y \in Int, z \in Int : y = n + 1 /\ z = n + 1
    BY <1>0
  <2>2. \A i \in y .. z : g[i] \in AllLines
    BY <1>0, <2>1
  <2>3. /\ SubSeq(g, y, z) \in Seq(AllLines)
        /\ Len(SubSeq(g, y, z)) = IF y <= z THEN z - y + 1 ELSE 0
        /\ \A j \in 1 .. (z - y + 1) : SubSeq(g, y, z)[j] = g[y + j - 1]
    <3>1. y \in Int /\ z \in Int
      OBVIOUS
    <3> QED BY <2>2, <3>1, SubSeqProperties
  <2>4. /\ (IF y <= z THEN z - y + 1 ELSE 0) = 1 /\ z - y + 1 = 1
        /\ y + 1 - 1 = y /\ 1 \in 1 .. 1
    BY <2>1
  <2>5. PICK d \in Seq(AllLines) : d = SubSeq(g, y, z) /\ Len(d) = 1 /\ d[1] = l
    BY <1>0, <2>1, <2>3, <2>4
  <2>6. d = <<l>>
    <3>1. <<l>> \in Seq(AllLines) /\ Len(<<l>>) = 1 /\ <<l>>[1] = l
      BY <1>0
    <3>2. \A j \in 1 .. 1 : d[j] = <<l>>[j]
      BY <2>5, <3>1
    <3> QED BY <2>5, <3>1, <3>2, SeqEqual
  <2> QED BY <2>1, <2>5, <2>6
<1>8. InBlock(g, n + 1, <<l>>)
  BY <1>0, <1>6, <1>7 DEF InBlock
<1>9. <<l>> # << >>
  OBVIOUS
<1>10. BlockOK(g, <<l>>)
  BY <1>3, <1>5, <1>8, <1>9 DEF BlockOK
<1> QED BY <1>2, <1>10

\* A dash that closes one.
LEMMA EndLine ==
  ASSUME NEW f, NEW l, NEW g, NEW n, Grows(f, l, g, n), l.kind = "dash", l.name = "end",
         NEW b, BlockOK(f, b), b # << >>
  PROVE  /\ BlockOK(g, << >>)
         /\ \E s : (\E a : Closes(f, a, b, g, s)) /\ Sections(g) = Sections(f) \cup {s}
                   /\ s \notin (1 .. n) \X (1 .. n)
<1>0. /\ f \in Seq(AllLines) /\ l \in AllLines /\ g = Append(f, l) /\ n = Len(f)
      /\ n \in Nat /\ DOMAIN g = 1 .. (n + 1)
  BY MoreLines DEF Grows
<1>1. PICK a \in Dashes(f) : /\ InBlock(f, a, b) /\ Opens(f, a) /\ f[a].kind = "dash"
                             /\ Cardinality(Dashes(f)) % 2 = 1
  BY <1>0, OpenBlock
<1>2. Misplaced(g) = {}
  BY MisplacedAre DEF BlockOK
<1>3. /\ Dashes(f) \in SUBSET (1 .. n) /\ Dashes(g) = Dashes(f) \cup {n + 1}
      /\ Cardinality(Dashes(f)) \in Nat
  BY MoreDashes
<1>4. Cardinality(Dashes(g)) % 2 = 0
  <2>1. IsFiniteSet(Dashes(f)) /\ n + 1 \notin Dashes(f)
    <3>1. IsFiniteSet(1 .. n)
      BY <1>0, FS_Interval
    <3>2. n + 1 \notin 1 .. n
      BY <1>0
    <3> QED BY <1>3, <3>1, <3>2, FS_Subset
  <2>2. PICK k \in Nat : k = Cardinality(Dashes(f)) /\ Cardinality(Dashes(g)) = k + 1 /\ k % 2 = 1
    BY <1>1, <1>3, <2>1, FS_AddElement
  <2>3. (k + 1) % 2 = 0
    BY <2>2
  <2> QED BY <2>2, <2>3
<1>5. BlockOK(g, << >>)
  BY <1>2, <1>4 DEF BlockOK
<1>6. PICK s : s = <<a, n + 1>>
  OBVIOUS
<1>7. Closes(f, a, b, g, s)
  BY <1>0, <1>1, <1>6 DEF Closes
<1>8. a \in 1 .. n /\ a < n + 1 /\ s[1] = a /\ s[2] = n + 1 /\ s \in (1 .. (n + 1)) \X (1 .. (n + 1))
  BY <1>0, <1>3, <1>6
<1>9. s \notin (1 .. n) \X (1 .. n)
  BY <1>0, <1>6
<1>10. s \in Sections(g)
  <2>1. Opens(g, a)
    BY <1>1, OpensStays
  <2>2. \A d \in Dashes(g) : ~ (a < d /\ d < n + 1)
    <3>1. \A d \in Dashes(f) : d <= a /\ d \in 1 .. n
      BY <1>1, <1>3 DEF InBlock
    <3>2. ~ (n + 1 < n + 1)
      BY <1>0
    <3> QED BY <1>3, <1>8, <3>1, <3>2
  <2>3. SectionIn(g, s)
    BY <1>0, <1>3, <1>8, <2>1, <2>2 DEF SectionIn
  <2> QED BY <1>2, <2>3, SectionsAre
<1>11. ASSUME NEW t \in Sections(g), t \notin (1 .. n) \X (1 .. n) PROVE t = s
  <2>1. t \in (1 .. n) \X {n + 1} /\ t[1] \in Dashes(f) /\ \A d \in Dashes(f) : d <= t[1]
    BY <1>11, SectionNew
  <2>2. PICK u \in 1 .. n : t = <<u, n + 1>>
    BY <2>1
  <2>3. u <= a /\ a <= u
    BY <1>1, <2>1, <2>2 DEF InBlock
  <2> QED BY <1>6, <1>8, <2>2, <2>3
<1>12. Sections(g) = Sections(f) \cup {s}
  <2>1. \A t \in (1 .. n) \X (1 .. n) : t \in Sections(g) <=> t \in Sections(f)
    BY SectionsOld
  <2>2. Sections(f) \in SUBSET ((1 .. n) \X (1 .. n))
    BY SectionsOld
  <2> QED BY <1>10, <1>11, <2>1, <2>2
<1> QED BY <1>5, <1>7, <1>9, <1>12

\* A dash out of turn, which closes the file.
LEMMA WrongLine ==
  ASSUME NEW f, NEW l, NEW g, NEW n, Grows(f, l, g, n), l.kind = "dash", l.name # "end",
         NEW b, BlockOK(f, b), b # << >>
  PROVE  Sections(g) = Sections(f)
<1>1. f \in Seq(AllLines)
  BY DEF Grows
<1>2. Cardinality(Dashes(f)) % 2 = 1
  BY <1>1, OpenBlock
<1>3. n + 1 \in Misplaced(g)
  BY <1>2, MisplacedAre
<1> QED BY <1>3, SectionsSame

\* A line behind a dash out of turn adds no section.
LEMMA RestLine ==
  ASSUME NEW f, NEW l, NEW g, NEW n, Grows(f, l, g, n), Misplaced(f) # {}
  PROVE  Sections(g) = Sections(f)
<1>1. PICK d \in Misplaced(f) : d \in 1 .. n /\ d \in Misplaced(g)
  BY MisplacedAre
<1>2. n \in Nat
  BY MoreLines
<1>3. ASSUME NEW s \in Sections(g) PROVE s \in (1 .. n) \X (1 .. n)
  <2> SUFFICES ASSUME s \notin (1 .. n) \X (1 .. n) PROVE FALSE
    OBVIOUS
  <2>1. s \in (1 .. n) \X {n + 1}
    BY SectionNew
  <2>2. s[2] = n + 1 /\ s[2] < d
    BY <1>1, <2>1, SectionsAre
  <2> QED BY <1>1, <1>2, <2>2
<1>4. \A s \in (1 .. n) \X (1 .. n) : s \in Sections(g) <=> s \in Sections(f)
  BY SectionsOld
<1>5. Sections(f) \in SUBSET ((1 .. n) \X (1 .. n))
  BY SectionsOld
<1> QED BY <1>3, <1>4, <1>5

-----------------------------------------------------------------------------
(* The table *)

\* The pairs of a section are lines of its block.
PairsFrom(pairs, b) ==
  /\ DOMAIN pairs \in SUBSET Nat
  /\ \A x \in DOMAIN pairs : \E j \in 1 .. Len(b) : IsPair(b[j]) /\ pairs[x] = Pair(b[j])

\* handle_conf_block() takes its pairs from the block.
LEMMA HandledIs ==
  ASSUME NEW b \in Seq(AllLines), NEW sec \in HandleConfBlock(b)
  PROVE  PairsFrom(sec.pairs, b)
<1>1. PICK m \in Nat : m = Len(b)
  OBVIOUS
<1>2. PICK c \in Seq(AllLines) : c = BeforeHuge(b) /\ Len(c) <= m /\ \A j \in 1 .. Len(c) : c[j] = b[j]
  BY <1>1, BeforeHugeIs
<1>3. PICK p \in Nat : p = Len(c) /\ p <= m
  BY <1>2
<1>4. PICK lines \in Seq(AllLines) : lines = NoComments(c) /\ Selects(lines, c, p)
  BY <1>3, NoCommentsSelects
<1>5. PICK q \in Nat : q = Len(lines) /\ \A i \in 1 .. q : lines[i] \in AllLines
  OBVIOUS
<1>6. \A x \in 1 .. q : \E j \in 1 .. m : lines[x] = b[j]
  <2>1. PICK h : Enumerates(h, q, Text(c, p)) /\ \A x \in 1 .. q : lines[x] = c[h[x]]
    BY <1>4, <1>5 DEF Selects
  <2>2. \A x \in 1 .. q : h[x] \in 1 .. p
    BY <2>1 DEF Enumerates, Text
  <2>3. \A j \in 1 .. p : j \in 1 .. m
    BY <1>1, <1>3
  <2> QED BY <1>2, <1>3, <2>1, <2>2, <2>3
<1>7. PICK e \in Int : e = (IF Len(lines) > MaxNodeNum THEN MaxNodeNum + 1 ELSE Len(lines)) /\ e <= q
  BY <1>5, ConfCoreAssumption
<1>8. PICK body : body = SubSeq(lines, 2, e)
  OBVIOUS
<1>9. DOMAIN body \in SUBSET Nat /\ \A i \in DOMAIN body : \E x \in 1 .. q : body[i] = lines[x]
  <2>1. \A i \in 2 .. e : lines[i] \in AllLines
    BY <1>5, <1>7
  <2>2. 2 \in Int /\ e \in Int
    OBVIOUS
  <2>3. /\ SubSeq(lines, 2, e) \in Seq(AllLines)
        /\ Len(SubSeq(lines, 2, e)) = IF 2 <= e THEN e - 2 + 1 ELSE 0
        /\ \A i \in 1 .. (e - 2 + 1) : SubSeq(lines, 2, e)[i] = lines[2 + i - 1]
    BY <2>1, <2>2, SubSeqProperties
  <2>4. PICK z \in Nat : z = Len(body) /\ z = (IF 2 <= e THEN e - 2 + 1 ELSE 0) /\ DOMAIN body = 1 .. z
    BY <1>8, <2>3
  <2>5. ASSUME NEW i \in 1 .. z PROVE \E x \in 1 .. q : body[i] = lines[x]
    <3>1. i \in 1 .. (e - 2 + 1) /\ 2 + i - 1 \in 1 .. q
      BY <1>7, <2>4
    <3> QED BY <1>8, <2>3, <3>1
  <2> QED BY <2>4, <2>5
<1>10. sec.pairs = [i \in DOMAIN body |-> Pair(body[i])] /\ \A i \in DOMAIN body : IsPair(body[i])
  <2> DEFINE bad == lines = << >> \/ lines[1].kind \in {"long", "wide"} \/ \E i \in DOMAIN body : ~ IsPair(body[i])
             pairs == [i \in DOMAIN body |-> Pair(body[i])]
  <2>1. HandleConfBlock(b) = IF bad THEN {} ELSE {[name |-> ModeName(lines[1]), pairs |-> pairs]}
    BY <1>2, <1>4, <1>7, <1>8 DEF HandleConfBlock
  <2>2. bad => HandleConfBlock(b) = {}
    BY <2>1
  <2>3. ~ bad
    BY <2>2
  <2> HIDE DEF pairs
  <2>4. sec = [name |-> ModeName(lines[1]), pairs |-> pairs]
    BY <2>1, <2>3
  <2> QED BY <2>3, <2>4 DEF pairs
<1> QED BY <1>1, <1>6, <1>9, <1>10 DEF PairsFrom

\* No other section has its name.
Only(f, s) == \A t \in Sections(f) : TitleName(f, t) = TitleName(f, s) => t = s

\* The entry of a section, and the only one of its name.
Ruled(entries, f, s, i) ==
  /\ i \in DOMAIN entries /\ entries[i].section.name = TitleName(f, s)
  /\ ~ entries[i].dangling /\ Pairs(entries[i].section.pairs, f, s)
  /\ \A k \in DOMAIN entries : entries[k].section.name = TitleName(f, s) => k = i

HasEntry(entries, f, s) == Only(f, s) /\ WellFormed(f, s) => \E i : Ruled(entries, f, s, i)

\* The table and the file that has been read so far.
TableOK(entries, f) ==
  /\ \E S : entries \in Seq(S)
  /\ \A i \in DOMAIN entries : \E s \in Sections(f) : entries[i].section.name = TitleName(f, s)
  /\ \A s \in Sections(f) : HasEntry(entries, f, s)

\* An entry stays that of its section when another line follows.
LEMMA EntryStays ==
  ASSUME NEW f, NEW l, NEW g, NEW n, Grows(f, l, g, n), NEW entries,
         NEW s \in Sections(f), WellFormed(g, s), NEW i, Ruled(entries, f, s, i)
  PROVE  Ruled(entries, g, s, i)
<1>1. s \in (1 .. n) \X (1 .. n)
  BY SectionsOld
<1>2. TitleName(g, s) = TitleName(f, s)
  BY <1>1, TitlesStay
<1>3. WellFormed(f, s) /\ \A pairs : Title(f, s) # 0 /\ Pairs(pairs, f, s) => Pairs(pairs, g, s)
  BY <1>1, BodiesStay
<1>4. Title(f, s) # 0
  BY <1>3 DEF WellFormed
<1>5. Pairs(entries[i].section.pairs, g, s)
  BY <1>3, <1>4 DEF Ruled
<1> QED BY <1>2, <1>5 DEF Ruled

\* What holds of the sections that were there before the line.
LEMMA OldSections ==
  ASSUME NEW f, NEW l, NEW g, NEW n, Grows(f, l, g, n), NEW entries, TableOK(entries, f),
         Sections(f) \subseteq Sections(g)
  PROVE  /\ \A i \in DOMAIN entries : \E s \in Sections(f) : entries[i].section.name = TitleName(g, s)
         /\ \A s \in Sections(f) : HasEntry(entries, g, s)
<1>1. \A s \in Sections(f) : s \in (1 .. n) \X (1 .. n) /\ TitleName(g, s) = TitleName(f, s)
  <2> SUFFICES ASSUME NEW s \in Sections(f)
               PROVE  s \in (1 .. n) \X (1 .. n) /\ TitleName(g, s) = TitleName(f, s)
    OBVIOUS
  <2>1. s \in (1 .. n) \X (1 .. n)
    BY SectionsOld
  <2> QED BY <2>1, TitlesStay
<1>2. \A i \in DOMAIN entries : \E s \in Sections(f) : entries[i].section.name = TitleName(g, s)
  BY <1>1 DEF TableOK
<1>3. ASSUME NEW s \in Sections(f), Only(g, s), WellFormed(g, s) PROVE \E i : Ruled(entries, g, s, i)
  <2>1. Only(f, s)
    BY <1>1, <1>3 DEF Only
  <2>2. WellFormed(f, s)
    BY <1>1, <1>3, BodiesStay
  <2>3. PICK i : Ruled(entries, f, s, i)
    BY <2>1, <2>2 DEF TableOK, HasEntry
  <2>4. Ruled(entries, g, s, i)
    BY <1>3, <2>3, EntryStays
  <2> QED BY <2>4
<1> QED BY <1>2, <1>3 DEF HasEntry

\* A line that adds no section.
LEMMA TableStays ==
  ASSUME NEW f, NEW l, NEW g, NEW n, Grows(f, l, g, n), NEW entries, TableOK(entries, f),
         Sections(g) = Sections(f)
  PROVE  TableOK(entries, g)
<1>1. Sections(f) \subseteq Sections(g)
  OBVIOUS
<1>2. /\ \A i \in DOMAIN entries : \E s \in Sections(f) : entries[i].section.name = TitleName(g, s)
      /\ \A s \in Sections(f) : HasEntry(entries, g, s)
  BY <1>1, OldSections
<1> QED BY <1>2 DEF TableOK

\* insert_new_node(): one entry is new, at p.
Inserted(entries, new, sec, i, p) ==
  /\ DOMAIN new = DOMAIN entries \cup {p}
  /\ new[p].section = sec /\ (new[p].dangling => i # 0)
  /\ (i # 0 => p = i) /\ (i = 0 => p \notin DOMAIN entries)
  /\ \A k \in DOMAIN entries : k # p => new[k] = entries[k]

\* insert_new_node() adds or replaces one entry.
LEMMA InsertAdds ==
  ASSUME NEW S, NEW entries \in Seq(S), NEW sec, NEW i \in DOMAIN entries \cup {0}
  PROVE  /\ \E T : Insert(entries, sec, i) \in Seq(T)
         /\ \E p : Inserted(entries, Insert(entries, sec, i), sec, i, p)
<1>1. PICK n \in Nat : n = Len(entries) /\ DOMAIN entries = 1 .. n
  BY LenProperties
<1>2. CASE i = 0
  <2>1. PICK e : e = [section |-> sec, dangling |-> FALSE]
    OBVIOUS
  <2>2. PICK T : T = S \cup {e}
    OBVIOUS
  <2>3. entries \in Seq(T) /\ e \in T
    BY <2>2, SeqMonotonic
  <2>4. PICK new : new = Insert(entries, sec, i) /\ new = Append(entries, e)
    BY <1>2, <2>1 DEF Insert
  <2>5. /\ new \in Seq(T) /\ Len(new) = n + 1 /\ new[n + 1] = e
        /\ \A k \in 1 .. n : new[k] = entries[k]
    BY <1>1, <2>3, <2>4, AppendProperties
  <2>6. DOMAIN new = 1 .. (n + 1)
    BY <2>5, LenProperties
  <2>7. 1 .. (n + 1) = 1 .. n \cup {n + 1} /\ n + 1 \notin 1 .. n
    BY <1>1
  <2>8. Inserted(entries, new, sec, i, n + 1)
    BY <1>1, <1>2, <2>1, <2>5, <2>6, <2>7 DEF Inserted
  <2> QED BY <2>4, <2>5, <2>8
<1>3. CASE i # 0
  <2>0. i \in 1 .. n
    BY <1>1, <1>3
  <2>1. PICK e : e = [section |-> sec, dangling |-> TRUE]
    OBVIOUS
  <2>2. PICK T : T = S \cup {e}
    OBVIOUS
  <2>3. entries \in Seq(T) /\ e \in T
    BY <2>2, SeqMonotonic
  <2>4. PICK new : new = Insert(entries, sec, i) /\ new = [entries EXCEPT ![i] = e]
    BY <1>3, <2>1 DEF Insert
  <2>5. /\ new \in Seq(T) /\ Len(new) = n
        /\ \A k \in 1 .. n : new[k] = IF k = i THEN e ELSE entries[k]
    BY <1>1, <2>0, <2>3, <2>4, ExceptSeq
  <2>6. DOMAIN new = 1 .. n
    BY <2>5, LenProperties
  <2>8. Inserted(entries, new, sec, i, i)
    BY <1>1, <1>3, <2>0, <2>1, <2>5, <2>6 DEF Inserted
  <2> QED BY <2>4, <2>5, <2>8
<1> QED BY <1>2, <1>3

\* g_hash_table_lookup()
LEMMA FoundIs ==
  ASSUME NEW entries, NEW name, NEW i \in Found(entries, name)
  PROVE  i = 0 \/ (i \in DOMAIN entries /\ entries[i].section.name = name)
BY DEF Found

\* A look-up of a name that no entry has.
LEMMA NoneFound ==
  ASSUME NEW entries, NEW name, \A k \in DOMAIN entries : entries[k].section.name # name
  PROVE  Found(entries, name) = {0}
BY DEF Found

\* A look-up of a name that one entry has.
LEMMA OneFound ==
  ASSUME NEW entries, NEW name, NEW i \in DOMAIN entries, entries[i].section.name = name,
         \A k \in DOMAIN entries : entries[k].section.name = name => k = i
  PROVE  Found(entries, name) = {i}
BY DEF Found

\* The line closes the section s, which is dropped.
LEMMA SectionDropped ==
  ASSUME NEW f, NEW l, NEW g, NEW n, Grows(f, l, g, n), NEW entries, TableOK(entries, f),
         NEW a, NEW b, NEW s, Closes(f, a, b, g, s), Sections(g) = Sections(f) \cup {s},
         HandleConfBlock(b) = {}
  PROVE  TableOK(entries, g)
<1>1. Sections(f) \subseteq Sections(g)
  OBVIOUS
<1>2. /\ \A i \in DOMAIN entries : \E t \in Sections(f) : entries[i].section.name = TitleName(g, t)
      /\ \A t \in Sections(f) : HasEntry(entries, g, t)
  BY <1>1, OldSections
<1>3. ~ WellFormed(g, s)
  BY SectionIsRead
<1>4. HasEntry(entries, g, s)
  BY <1>3 DEF HasEntry
<1> QED BY <1>2, <1>4 DEF TableOK

\* The line closes the section s, which gets an entry.
LEMMA SectionInserted ==
  ASSUME NEW f, NEW l, NEW g, NEW n, Grows(f, l, g, n), NEW entries, TableOK(entries, f),
         NEW a, NEW b, NEW s, Closes(f, a, b, g, s), Sections(g) = Sections(f) \cup {s},
         s \notin (1 .. n) \X (1 .. n),
         NEW sec \in HandleConfBlock(b), NEW i \in Found(entries, sec.name)
  PROVE  TableOK(Insert(entries, sec, i), g)
<1>1. Sections(f) \subseteq Sections(g) /\ s \notin Sections(f)
  BY SectionsOld
<1>2. /\ \A k \in DOMAIN entries : \E t \in Sections(f) : entries[k].section.name = TitleName(g, t)
      /\ \A t \in Sections(f) : HasEntry(entries, g, t)
  BY <1>1, OldSections
<1>3. sec.name = TitleName(g, s)
  BY NameIsTitle
<1>4. PICK S : entries \in Seq(S)
  BY DEF TableOK
<1>5. i = 0 \/ (i \in DOMAIN entries /\ entries[i].section.name = TitleName(g, s))
  BY <1>3, FoundIs
<1>6. PICK new : new = Insert(entries, sec, i)
  OBVIOUS
<1>7. \E T : new \in Seq(T)
  BY <1>4, <1>5, <1>6, InsertAdds
<1>8. PICK p : Inserted(entries, new, sec, i, p)
  BY <1>4, <1>5, <1>6, InsertAdds
<1>9. /\ DOMAIN new = DOMAIN entries \cup {p} /\ new[p].section = sec /\ (new[p].dangling => i # 0)
      /\ \A k \in DOMAIN entries : k # p => new[k] = entries[k]
      /\ p \in DOMAIN entries => i # 0 /\ p = i
  BY <1>8 DEF Inserted
<1>10. ASSUME NEW k \in DOMAIN new PROVE \E t \in Sections(g) : new[k].section.name = TitleName(g, t)
  <2>1. CASE k = p
    BY <1>3, <1>9, <2>1
  <2>2. CASE k # p
    BY <1>1, <1>2, <1>9, <2>2
  <2> QED BY <2>1, <2>2
<1>11. HasEntry(new, g, s)
  <2> SUFFICES ASSUME Only(g, s), WellFormed(g, s) PROVE \E j : Ruled(new, g, s, j)
    BY DEF HasEntry
  <2>1. \A k \in DOMAIN entries : entries[k].section.name # TitleName(g, s)
    BY <1>1, <1>2 DEF Only
  <2>2. i = 0 /\ ~ new[p].dangling
    BY <1>5, <1>9, <2>1
  <2>3. Pairs(sec.pairs, g, s)
    BY SectionIsRead
  <2>4. \A k \in DOMAIN new : new[k].section.name = TitleName(g, s) => k = p
    BY <1>9, <2>1
  <2>5. Ruled(new, g, s, p)
    BY <1>3, <1>9, <2>2, <2>3, <2>4 DEF Ruled
  <2> QED BY <2>5
<1>12. ASSUME NEW t \in Sections(f) PROVE HasEntry(new, g, t)
  <2> SUFFICES ASSUME Only(g, t), WellFormed(g, t) PROVE \E j : Ruled(new, g, t, j)
    BY DEF HasEntry
  <2>1. TitleName(g, s) # TitleName(g, t)
    BY <1>1 DEF Only
  <2>2. PICK j : Ruled(entries, g, t, j)
    BY <1>2 DEF HasEntry
  <2>3. j \in DOMAIN entries /\ entries[j].section.name = TitleName(g, t)
    BY <2>2 DEF Ruled
  <2>4. j # p
    BY <1>5, <1>9, <2>1, <2>3
  <2>5. new[j] = entries[j] /\ j \in DOMAIN new
    BY <1>9, <2>3, <2>4
  <2>6. \A k \in DOMAIN new : new[k].section.name = TitleName(g, t) => k = j
    BY <1>3, <1>9, <2>1, <2>2 DEF Ruled
  <2>7. Ruled(new, g, t, j)
    BY <2>2, <2>5, <2>6 DEF Ruled
  <2> QED BY <2>7
<1> QED BY <1>6, <1>7, <1>10, <1>11, <1>12 DEF TableOK

-----------------------------------------------------------------------------
(* The calls *)

\* The values of the application are numbers.
NumbersIn(pairs) ==
  /\ DOMAIN pairs \in SUBSET Nat
  /\ \A x \in DOMAIN pairs : pairs[x].key # "@SWITCH" => pairs[x].val \in Int

ApplicationLines(f) == \A i \in DOMAIN f : f[i] \in UtilsLines

NumbersOK(entries) == \A i \in DOMAIN entries : NumbersIn(entries[i].section.pairs)

\* Strengthening of ValuesAsWritten: at every line the block and the table are those
\* of the lines read so far.
FileInv ==
  /\ CloseInv
  /\ lib = "utils" => ApplicationLines(file)
  /\ reading /\ process = "running" => BlockOK(file, block)
  /\ conf.tab = "live" /\ process = "running" => TableOK(conf.entries, file)
  /\ conf.tab = "live" /\ lib = "utils" => NumbersOK(conf.entries)

\* Before the first line.
LEMMA NothingRead == BlockOK(<< >>, << >>) /\ TableOK(<< >>, << >>) /\ NumbersOK(<< >>) /\ ApplicationLines(<< >>)
<1>1. DOMAIN << >> = {}
  OBVIOUS
<1>2. Dashes(<< >>) = {} /\ Misplaced(<< >>) = {} /\ Sections(<< >>) = {}
  BY <1>1 DEF Dashes, Misplaced, Sections
<1>3. Cardinality(Dashes(<< >>)) % 2 = 0
  <2>1. Cardinality(Dashes(<< >>)) = 0
    BY <1>2, FS_EmptySet
  <2> QED BY <2>1
<1>4. BlockOK(<< >>, << >>)
  BY <1>2, <1>3 DEF BlockOK
<1>5. << >> \in Seq({})
  OBVIOUS
<1>6. TableOK(<< >>, << >>)
  BY <1>1, <1>2, <1>5 DEF TableOK
<1> QED BY <1>1, <1>4, <1>6 DEF NumbersOK, ApplicationLines

\* A section of the application has numbers as values.
LEMMA NumbersOfBlock ==
  ASSUME NEW f, NEW a, NEW b, InBlock(f, a, b), ApplicationLines(f), NEW sec \in HandleConfBlock(b)
  PROVE  NumbersIn(sec.pairs)
<1>1. PICK n : n = Len(f)
  OBVIOUS
<1>2. /\ n \in Nat /\ a \in 1 .. n /\ b \in Seq(AllLines) /\ Len(b) = n - a + 1
      /\ \A j \in 1 .. (n - a + 1) : b[j] = f[a + j - 1]
  BY <1>1, BlockLines
<1>3. DOMAIN f = 1 .. n
  BY <1>1 DEF InBlock
<1>4. \A j \in 1 .. Len(b) : b[j] \in UtilsLines
  <2> SUFFICES ASSUME NEW j \in 1 .. Len(b) PROVE b[j] \in UtilsLines
    OBVIOUS
  <2>1. j \in 1 .. (n - a + 1) /\ a + j - 1 \in 1 .. n
    BY <1>2
  <2> QED BY <1>2, <1>3, <2>1 DEF ApplicationLines
<1>5. PairsFrom(sec.pairs, b)
  BY <1>2, HandledIs
<1>6. ASSUME NEW x \in DOMAIN sec.pairs, sec.pairs[x].key # "@SWITCH" PROVE sec.pairs[x].val \in Int
  <2>1. PICK l \in UtilsLines : IsPair(l) /\ sec.pairs[x] = Pair(l)
    BY <1>4, <1>5 DEF PairsFrom
  <2>2. l.kind = "pair" /\ sec.pairs[x].val = l.val
    BY <1>6, <2>1 DEF Pair
  <2> QED BY <2>2, ConfCoreAssumption
<1> QED BY <1>5, <1>6 DEF NumbersIn, PairsFrom

\* So have all entries after it is inserted.
LEMMA NumbersStay ==
  ASSUME NEW S, NEW entries \in Seq(S), NumbersOK(entries), NEW sec, NumbersIn(sec.pairs),
         NEW i \in Found(entries, sec.name)
  PROVE  NumbersOK(Insert(entries, sec, i))
<1>1. i \in DOMAIN entries \cup {0}
  BY FoundIs
<1>2. PICK new : new = Insert(entries, sec, i)
  OBVIOUS
<1>3. PICK p : Inserted(entries, new, sec, i, p)
  BY <1>1, <1>2, InsertAdds
<1>4. \A k \in DOMAIN new : new[k].section = sec \/ (k \in DOMAIN entries /\ new[k] = entries[k])
  BY <1>3 DEF Inserted
<1>5. NumbersOK(new)
  BY <1>4 DEF NumbersOK
<1> QED BY <1>2, <1>5

\* Another line of the file.
LEMMA LongerFile ==
  ASSUME FileInv, NEW l \in Lines, file' = Append(file, l), lib' = lib
  PROVE  /\ Grows(file, l, file', Len(file))
         /\ lib' = "utils" => ApplicationLines(file')
<1>1. file \in Seq(AllLines) /\ l \in AllLines
  BY DEF FileInv, CloseInv, Lines, AllLines
<1>2. Grows(file, l, file', Len(file))
  BY <1>1 DEF Grows
<1>4. ASSUME lib' = "utils" PROVE ApplicationLines(file')
  <2>1. l \in UtilsLines /\ ApplicationLines(file)
    BY <1>1, <1>4 DEF Lines, FileInv
  <2>2. PICK n \in Nat : n = Len(file)
    BY <1>1
  <2>3. /\ DOMAIN file = 1 .. n /\ DOMAIN file' = 1 .. (n + 1) /\ file'[n + 1] = l
        /\ \A i \in 1 .. n : file'[i] = file[i]
    BY <1>2, <2>2, MoreLines
  <2>4. \A i \in 1 .. (n + 1) : i \in 1 .. n \/ i = n + 1
    BY <2>2
  <2> QED BY <2>1, <2>3, <2>4 DEF ApplicationLines
<1> QED BY <1>2, <1>4

\* One that is read.
LEMMA NextLine ==
  ASSUME FileInv, NEW l \in Lines, ReadsLine(l)
  PROVE  /\ Grows(file, l, file', Len(file)) /\ BlockOK(file, block) /\ lib' = lib
         /\ lib' = "utils" => ApplicationLines(file')
<1>1. file' = Append(file, l) /\ lib' = lib
  BY DEF ReadsLine
<1>2. BlockOK(file, block)
  BY DEF FileInv, ReadsLine
<1> QED BY <1>1, <1>2, LongerFile

\* Lines that add no section to the file leave the table alone.
LEMMA SameSections ==
  ASSUME FileInv, CloseInv', NEW l \in Lines, file' = Append(file, l), lib' = lib,
         Sections(file') = Sections(file),
         conf'.tab = "live" => conf.tab = "live" /\ conf'.entries = conf.entries,
         reading' /\ process' = "running" => BlockOK(file', block'), process = "running"
  PROVE  FileInv'
<1>1. Grows(file, l, file', Len(file)) /\ (lib' = "utils" => ApplicationLines(file'))
  BY LongerFile
<1>2. ASSUME conf'.tab = "live" PROVE TableOK(conf'.entries, file')
  <2>1. TableOK(conf.entries, file)
    BY <1>2 DEF FileInv
  <2>2. TableOK(conf.entries, file')
    BY <1>1, <2>1, TableStays
  <2> QED BY <1>2, <2>2
<1>3. conf'.tab = "live" /\ lib' = "utils" => NumbersOK(conf'.entries)
  BY <1>1 DEF FileInv
<1> QED BY <1>1, <1>2, <1>3 DEF FileInv

\* A line that is no dash leaves the entries as they are, or destroys the table.
LEMMA LineTable ==
  ASSUME ManagerShape(conf), NEW l, ReadPlain(l) \/ ReadSwitch(l)
  PROVE  /\ conf'.tab = "live" => conf.tab = "live" /\ conf'.entries = conf.entries
         /\ conf'.entries = conf.entries \/ conf'.entries = << >>
<1>1. Switched(l.digit).tab = conf.tab /\ Switched(l.digit).entries = conf.entries
  BY DEF ManagerShape, Switched
<1>2. Switched(0).tab = conf.tab /\ Switched(0).entries = conf.entries /\ ManagerShape(Switched(0))
  BY DEF ManagerShape, Switched
<1>3. CASE conf' = conf
  BY <1>3
<1>4. CASE conf' = Switched(l.digit)
  BY <1>1, <1>4
<1>5. CASE Exit(CONF_CLOSE_ALL, Switched(0))
  <2>1. CASE conf' = Switched(0)
    BY <1>2, <2>1
  <2>2. CASE conf' = [Switched(0) EXCEPT !.tab = "dead", !.entries = << >>]
    <3>1. conf'.tab = "dead" /\ conf'.entries = << >>
      BY <1>2, <2>2 DEF ManagerShape
    <3> QED BY <3>1
  <2> QED BY <1>5, <2>1, <2>2 DEF Exit
<1> QED BY <1>3, <1>4, <1>5 DEF ReadPlain, ReadSwitch

\* Lines that are no dash.
LEMMA PlainKeepsFile ==
  ASSUME FileInv, CloseInv', NEW l \in Lines, ReadPlain(l) \/ ReadSwitch(l) PROVE FileInv'
<1>1. ReadsLine(l) /\ l.kind # "dash" /\ (Keeps(l) \/ reading' = FALSE)
  BY DEF ReadPlain, ReadSwitch, Exit
<1>2. Grows(file, l, file', Len(file)) /\ BlockOK(file, block)
  BY <1>1, NextLine
<1>3. /\ BlockOK(file', IF block = << >> THEN block ELSE Append(block, l)) /\ Sections(file') = Sections(file)
  BY <1>1, <1>2, PlainLine
<1>4. reading' /\ process' = "running" => BlockOK(file', block')
  BY <1>1, <1>3 DEF Keeps
<1>5. conf'.tab = "live" => conf.tab = "live" /\ conf'.entries = conf.entries
  BY LineTable DEF FileInv, CloseInv
<1> QED BY <1>1, <1>3, <1>4, <1>5, SameSections DEF ReadsLine

\* A dash that opens a section, or is out of turn.
LEMMA StartKeepsFile ==
  ASSUME FileInv, CloseInv', NEW l \in Lines, ReadStart(l) \/ ReadEndError(l) PROVE FileInv'
<1>1. ReadsLine(l) /\ l.kind = "dash"
  BY DEF ReadStart, ReadEndError
<1>2. Grows(file, l, file', Len(file)) /\ BlockOK(file, block)
  BY <1>1, NextLine
<1>3. CASE ReadStart(l)
  <2>1. block = << >> /\ block' = <<l>> /\ conf' = conf
    BY <1>3 DEF ReadStart
  <2>2. BlockOK(file', <<l>>) /\ Sections(file') = Sections(file)
    BY <1>1, <1>2, <2>1, StartLine
  <2> QED BY <1>1, <2>1, <2>2, SameSections DEF ReadsLine
<1>4. CASE ReadEndError(l)
  <2>1. block # << >> /\ l.name # "end" /\ conf' = conf /\ ~ (reading' /\ process' = "running")
    BY <1>4 DEF ReadEndError, Exit
  <2>2. Sections(file') = Sections(file)
    BY <1>1, <1>2, <2>1, WrongLine
  <2> QED BY <1>1, <2>1, <2>2, SameSections DEF ReadsLine
<1> QED BY <1>3, <1>4

\* A line that is not read.
LEMMA RestKeepsFile ==
  ASSUME FileInv, CloseInv', NEW l \in Lines, RestOfFile(l) PROVE FileInv'
<1>1. /\ file' = Append(file, l) /\ lib' = lib /\ conf' = conf /\ ~ reading'
      /\ Misplaced(file) # {}
  BY DEF RestOfFile
<1>2. Grows(file, l, file', Len(file))
  BY <1>1, LongerFile
<1>3. Sections(file') = Sections(file)
  BY <1>1, <1>2, RestLine
<1> QED BY <1>1, <1>3, SameSections DEF RestOfFile

\* "-end" with undefined behaviour: no more is said of the block and of the table.
LEMMA UndefinedKeepsFile ==
  ASSUME FileInv, CloseInv', NEW l \in Lines, ReadEndUndefined(l) PROVE FileInv'
<1>1. ReadsLine(l) /\ conf' = conf /\ process' = "undefined"
  BY DEF ReadEndUndefined
<1>2. lib' = lib /\ (lib' = "utils" => ApplicationLines(file'))
  BY <1>1, NextLine
<1> QED BY <1>1, <1>2 DEF FileInv

\* "-end": the section is dropped or inserted.
LEMMA EndKeepsFile ==
  ASSUME FileInv, CloseInv', NEW l \in Lines, ReadEnd(l) PROVE FileInv'
<1>1. ReadsLine(l) /\ l.kind = "dash" /\ l.name = "end" /\ block # << >> /\ block' = << >>
  BY DEF ReadEnd
<1>2. /\ Grows(file, l, file', Len(file)) /\ BlockOK(file, block) /\ lib' = lib
      /\ lib' = "utils" => ApplicationLines(file')
  BY <1>1, NextLine
<1>n. PICK n : n = Len(file) /\ Grows(file, l, file', n)
  BY <1>2
<1>3. /\ BlockOK(file', << >>)
      /\ \E s : (\E a : Closes(file, a, block, file', s)) /\ Sections(file') = Sections(file) \cup {s}
                   /\ s \notin (1 .. n) \X (1 .. n)
  BY <1>1, <1>2, <1>n, EndLine
<1>4. PICK s, a : /\ Closes(file, a, block, file', s) /\ Sections(file') = Sections(file) \cup {s}
                  /\ s \notin (1 .. n) \X (1 .. n)
  BY <1>3
<1>5. CASE HandleConfBlock(block) = {} /\ conf' = conf
  <2>1. ASSUME conf.tab = "live" PROVE TableOK(conf.entries, file')
    <3>1. TableOK(conf.entries, file)
      BY <1>1, <2>1 DEF FileInv, ReadsLine
    <3> QED BY <1>n, <1>4, <1>5, <3>1, SectionDropped
  <2> QED BY <1>1, <1>2, <1>3, <1>5, <2>1 DEF FileInv
<1>6. ASSUME NEW sec \in HandleConfBlock(block), NEW i \in Found(conf.entries, sec.name),
             conf' = [conf EXCEPT !.entries = Insert(conf.entries, sec, i), !.count = @ + 1]
      PROVE  FileInv'
  <2>1. conf'.tab = conf.tab /\ conf'.entries = Insert(conf.entries, sec, i)
    BY <1>6 DEF FileInv, CloseInv, ManagerShape
  <2>2. ASSUME conf.tab = "live" PROVE TableOK(Insert(conf.entries, sec, i), file')
    <3>1. TableOK(conf.entries, file)
      BY <1>1, <2>2 DEF FileInv, ReadsLine
    <3> QED BY <1>n, <1>4, <3>1, SectionInserted
  <2>3. ASSUME conf.tab = "live", lib = "utils" PROVE NumbersOK(Insert(conf.entries, sec, i))
    <3>1. NumbersOK(conf.entries) /\ ApplicationLines(file)
      BY <2>3 DEF FileInv
    <3>2. PICK S : conf.entries \in Seq(S)
      BY <1>1, <2>3 DEF FileInv, TableOK, ReadsLine
    <3>3. InBlock(file, a, block)
      BY <1>4 DEF Closes
    <3>4. NumbersIn(sec.pairs)
      BY <3>1, <3>3, NumbersOfBlock
    <3> QED BY <3>1, <3>2, <3>4, NumbersStay
  <2> QED BY <1>1, <1>2, <1>3, <2>1, <2>2, <2>3 DEF FileInv
<1> QED BY <1>5, <1>6 DEF ReadEnd

\* Every step of the reader.
LEMMA ReaderKeepsFile ==
  ASSUME FileInv, CloseInv', process = "running",
         \/ OpenFile \/ RepeatInit \/ EndOfFile
         \/ \E l \in Lines : ReadLine(l) \/ RestOfFile(l)
         \/ DestroyGlobalConfig \/ GetFreed
  PROVE  FileInv'
<1>1. CASE OpenFile
  <2>1. conf'.entries = << >> /\ block' = << >> /\ file' = << >>
    BY <1>1 DEF OpenFile, FreshManager
  <2> QED BY <2>1, NothingRead DEF FileInv
<1>2. CASE RepeatInit
  BY <1>2 DEF RepeatInit, FileInv
<1>3. CASE EndOfFile
  <2>1. conf' = conf /\ reading' = FALSE /\ UNCHANGED <<file, lib>>
    BY <1>3 DEF EndOfFile, Exit
  <2> QED BY <2>1 DEF FileInv
<1>4. CASE DestroyGlobalConfig
  <2>1. conf'.tab = "null" /\ UNCHANGED <<file, lib, reading, block>> /\ ~ reading
    BY <1>4 DEF DestroyGlobalConfig, ClearedManager, NullManager
  <2> QED BY <2>1 DEF FileInv
<1>5. CASE GetFreed
  BY <1>5 DEF GetFreed, FileInv
<1>6. ASSUME NEW l \in Lines,
             ReadLine(l) \/ RestOfFile(l)
      PROVE  FileInv'
  BY <1>6, PlainKeepsFile, StartKeepsFile, EndKeepsFile, UndefinedKeepsFile, RestKeepsFile DEF ReadLine
<1> QED BY <1>1, <1>2, <1>3, <1>4, <1>5, <1>6

\* FileInv is inductive.
LEMMA FileStep == FileInv /\ [Next]_vars => FileInv'
<1> SUFFICES ASSUME FileInv, [Next]_vars PROVE FileInv'
  OBVIOUS
<1>0. CloseInv'
  BY CloseStep DEF FileInv
<1>1. CASE CoreNext
  <2>1. process = "running"
    BY <1>1 DEF CoreNext, OpenFile, RepeatInit, EndOfFile, ReadPlain, ReadSwitch, ReadStart, ReadEnd,
                ReadEndUndefined, ReadEndError, ReadLine, RestOfFile, ReadsLine, DestroyGlobalConfig, GetFreed
  <2> QED BY <1>0, <1>1, <2>1, ReaderKeepsFile DEF CoreNext
<1>2. CASE LogOpens
  BY <1>0, <1>2, ReaderKeepsFile DEF LogOpens, OpenFile
<1>3. CASE LogReads
  <2>1. process = "running"
    BY <1>3 DEF LogReads, EndOfFile, ReadLine, ReadPlain, ReadSwitch, ReadStart, ReadEnd, ReadEndUndefined,
                ReadEndError, ReadsLine
  <2> QED BY <1>0, <1>3, <2>1, ReaderKeepsFile DEF LogReads
<1>4. CASE LogFinishes
  <2>1. conf'.tab = "null" /\ UNCHANGED <<file, lib, reading, process, block>>
    BY <1>4 DEF LogFinishes, NullManager
  <2> QED BY <1>0, <2>1 DEF FileInv
<1>5. CASE LogConfInfosDestroy \/ UNCHANGED vars
  BY <1>5, <1>0 DEF LogConfInfosDestroy, vars, coreVars, FileInv
<1>6. CASE \E i \in todo : FillLogConfInfos(i) \/ FillFreedKey(i)
  <2>1. UNCHANGED <<conf, file, lib, reading, block>> /\ (process' = "running" => process = "running")
    BY <1>6 DEF FillLogConfInfos, FillFreedKey
  <2> QED BY <1>0, <2>1 DEF FileInv
<1> QED BY <1>1, <1>2, <1>3, <1>4, <1>5, <1>6 DEF Next

\* The name of a key is no switch.
LEMMA KeyIsNoSwitch ==
  ASSUME FileInv, NEW key \in Keys PROVE key # "@SWITCH"
<1>1. PICK i \in DOMAIN file : file[i].kind = "pair" /\ file[i].key = key
  BY DEF Keys
<1>2. file[i] \in AllLines
  BY DEF FileInv, CloseInv
<1> QED BY <1>1, <1>2, ConfCoreAssumption DEF AllLines

\* What FileInv says of the look-ups,
LEMMA LookupsAreRight == FileInv => ReadsWhatIsWritten
<1> SUFFICES ASSUME FileInv, Successful, NEW mode \in Modes, NEW key \in Keys
             PROVE  LET mine == {s \in Sections(file) : TitleName(file, s) = mode}
                    IN /\ mine = {} => GetConfigValue(mode, key) = {{}}
                       /\ \A s \in mine : mine = {s} /\ WellFormed(file, s) =>
                            GetConfigValue(mode, key) = {Says(file, s, key)}
  BY DEF ReadsWhatIsWritten
<1> DEFINE mine == {s \in Sections(file) : TitleName(file, s) = mode}
<1>1. conf.tab = "live" /\ TableOK(conf.entries, file)
  BY DEF FileInv, Successful
<1>2. GetConfigValue(mode, key) =
        {IF i = 0 THEN {} ELSE GetValue(conf.entries[i].section.pairs, key) : i \in Found(conf.entries, mode)}
  BY <1>1 DEF GetConfigValue
<1>3. ASSUME mine = {} PROVE GetConfigValue(mode, key) = {{}}
  <2>1. \A k \in DOMAIN conf.entries : conf.entries[k].section.name # mode
    BY <1>1, <1>3 DEF TableOK
  <2>2. Found(conf.entries, mode) = {0}
    BY <2>1, NoneFound
  <2> QED BY <1>2, <2>2
<1>4. ASSUME NEW s \in mine, mine = {s}, WellFormed(file, s) PROVE GetConfigValue(mode, key) = {Says(file, s, key)}
  <2>1. s \in Sections(file) /\ TitleName(file, s) = mode /\ Only(file, s)
    BY <1>4 DEF Only
  <2>2. PICK i : Ruled(conf.entries, file, s, i)
    BY <1>1, <1>4, <2>1 DEF TableOK, HasEntry
  <2>3. PICK S : conf.entries \in Seq(S)
    BY <1>1 DEF TableOK
  <2>4. Found(conf.entries, mode) = {i}
    <3>1. /\ i \in DOMAIN conf.entries /\ conf.entries[i].section.name = mode
          /\ \A k \in DOMAIN conf.entries : conf.entries[k].section.name = mode => k = i
      BY <2>1, <2>2 DEF Ruled
    <3> QED BY <3>1, OneFound
  <2>5. i # 0
    <3>1. i \in DOMAIN conf.entries
      BY <2>2 DEF Ruled
    <3> QED BY <2>3, <3>1, LenProperties
  <2>6. GetConfigValue(mode, key) = {GetValue(conf.entries[i].section.pairs, key)}
    BY <1>2, <2>4, <2>5
  <2>7. Body(file, s) \in SUBSET Nat
    BY <2>1, SectionNumbers DEF FileInv, CloseInv
  <2>8. Pairs(conf.entries[i].section.pairs, file, s)
    BY <2>2 DEF Ruled
  <2>9. key # "@SWITCH"
    BY KeyIsNoSwitch
  <2>10. GetValue(conf.entries[i].section.pairs, key) = Says(file, s, key)
    BY <1>4, <2>7, <2>8, <2>9, FirstValue
  <2> QED BY <2>6, <2>10
<1> QED BY <1>3, <1>4

\* A multiple of a number leaves no rest.
LEMMA MultipleMod ==
  ASSUME NEW n \in Nat \ {0}, NEW k \in Int
  PROVE  (n * k) % n = 0
<1>1. PICK q \in Int, r \in Int : n * k = n * q + r /\ r = (n * k) % n /\ 0 <= r /\ r < n
  BY SMT
<1>2. PICK d \in Int : d = k - q /\ n * d = r
  <2>1. n * (k - q) = n * k - n * q
    BY SMT
  <2> QED BY <1>1, <2>1
<1>3. d <= 0
  <2>1. d >= 1 => n * d >= n
    BY SMT
  <2> QED BY <1>1, <1>2, <2>1
<1>4. d >= 0
  <2>1. d <= -1 => n * d <= -n
    BY SMT
  <2> QED BY <1>1, <1>2, <2>1
<1>5. d = 0
  BY <1>3, <1>4
<1> QED BY <1>1, <1>2, <1>5

\* The bits that are kept of a number.
LEMMA NarrowWraps ==
  ASSUME NEW x \in Int, NEW span \in Nat \ {0}, span % 2 = 0, NEW signed \in BOOLEAN
  PROVE  LET low == IF signed THEN -(span \div 2) ELSE 0
             r == Narrow(x, span, signed)
         IN  /\ 0 \in low .. (low + span - 1) /\ 0 % span = 0
             /\ r \in low .. (low + span - 1) /\ (r - x) % span = 0
<1>1. PICK q \in Int, m \in Int : x = span * q + m /\ m = x % span /\ 0 <= m /\ m < span
  BY SMT
<1>2. PICK h \in Nat : span \div 2 = h /\ span = 2 * h /\ h >= 1
  BY SMT
<1>3. PICK low \in Int : (low = IF signed THEN -(span \div 2) ELSE 0) /\ (low = IF signed THEN -h ELSE 0)
  <2>1. -h \in Int /\ 0 \in Int
    BY <1>2
  <2> QED BY <1>2, <2>1
<1>4. PICK r \in Int : r = Narrow(x, span, signed) /\ r = IF signed /\ 2 * m >= span THEN m - span ELSE m
  BY <1>1 DEF Narrow
<1>5. low <= 0 /\ 0 <= low + span - 1 /\ low <= r /\ r <= low + span - 1
  <2>1. CASE signed
    <3>1. low = -h /\ r = IF 2 * m >= span THEN m - span ELSE m
      BY <1>3, <1>4, <2>1
    <3>2. low <= 0 /\ 0 <= low + span - 1
      BY <1>2, <3>1
    <3>3. CASE 2 * m >= span
      BY <1>1, <1>2, <3>1, <3>3
    <3>4. CASE ~ (2 * m >= span)
      BY <1>1, <1>2, <3>1, <3>4
    <3> QED BY <3>2, <3>3, <3>4
  <2>2. CASE ~ signed
    <3>1. low = 0 /\ r = m
      BY <1>3, <1>4, <2>2
    <3> QED BY <1>1, <1>2, <3>1
  <2> QED BY <2>1, <2>2
<1>6. 0 \in low .. (low + span - 1) /\ r \in low .. (low + span - 1)
  BY <1>5
<1>7. r - x = span * (-q) \/ r - x = span * (-q - 1)
  <2>1. span * (-q) = -(span * q) /\ span * (-q - 1) = -(span * q) - span
    BY SMT
  <2>2. PICK y \in Int : y = span * q
    OBVIOUS
  <2>3. r - x = -y \/ r - x = -y - span
    <3>1. r = m \/ r = m - span
      BY <1>4
    <3>2. x = y + m
      BY <1>1, <2>2
    <3> QED BY <3>1, <3>2
  <2> QED BY <2>1, <2>2, <2>3
<1>8. (r - x) % span = 0
  <2>1. (span * (-q)) % span = 0 /\ (span * (-q - 1)) % span = 0
    BY MultipleMod
  <2> QED BY <1>7, <2>1
<1>9. 0 % span = 0
  <2>1. (span * 0) % span = 0
    BY MultipleMod
  <2> QED BY <2>1
<1> QED BY <1>3, <1>4, <1>6, <1>8, <1>9

\* The types of the application.
LEMMA SpansAreEven ==
  ASSUME NEW type \in IntTypes
  PROVE  Span(type) \in Nat \ {0} /\ Span(type) % 2 = 0 /\ Signed(type) \in BOOLEAN
<1>1. 256 % 2 = 0 /\ 65536 % 2 = 0
  OBVIOUS
<1>2. Span(type) \in {256, 65536, IntSpan, LongSpan}
  BY DEF Span, IntTypes
<1> QED BY <1>1, <1>2, ConfCoreAssumption DEF Signed

\* and of the conversions.
LEMMA ConversionsAreRight == FileInv => ConversionsWrap
<1> SUFFICES ASSUME FileInv, Successful, lib = "utils", NEW mode \in Modes, NEW key \in Keys,
                    NEW type \in IntTypes, NEW r \in GetIriConf(mode, key, type)
             PROVE  LET low == IF Signed(type) THEN -(Span(type) \div 2) ELSE 0
                    IN  /\ r \in low .. (low + Span(type) - 1)
                        /\ \E x \in GetIriConf(mode, key, "str") : (r - x) % Span(type) = 0
  BY DEF ConversionsWrap
<1>1. conf.tab = "live" /\ NumbersOK(conf.entries)
  BY DEF FileInv, Successful
<1>2. \A v \in GetConfigValue(mode, key) : \A x \in v : x \in Int
  <2> SUFFICES ASSUME NEW v \in GetConfigValue(mode, key), NEW x \in v PROVE x \in Int
    OBVIOUS
  <2>1. PICK i \in Found(conf.entries, mode) :
          v = IF i = 0 THEN {} ELSE GetValue(conf.entries[i].section.pairs, key)
    BY <1>1 DEF GetConfigValue
  <2>2. i \in DOMAIN conf.entries /\ v = GetValue(conf.entries[i].section.pairs, key)
    BY <2>1, FoundIs
  <2>3. PICK pairs : pairs = conf.entries[i].section.pairs /\ NumbersIn(pairs)
    BY <1>1, <2>2 DEF NumbersOK
  <2> DEFINE hits == {k \in DOMAIN pairs : pairs[k].key = key}
  <2>4. v = IF hits = {} THEN {} ELSE {pairs[Min(hits)].val}
    BY <2>2, <2>3 DEF GetValue
  <2>5. hits # {} /\ x = pairs[Min(hits)].val
    <3> HIDE DEF hits
    <3> QED BY <2>4
  <2>6. Min(hits) \in hits
    <3>1. hits \in SUBSET Nat
      BY <2>3 DEF NumbersIn
    <3> HIDE DEF hits
    <3> QED BY <2>5, <3>1, MinIs
  <2>7. key # "@SWITCH"
    BY KeyIsNoSwitch
  <2> QED BY <2>3, <2>5, <2>6, <2>7 DEF NumbersIn
<1>3. PICK v \in GetConfigValue(mode, key) : r \in IF v = {} THEN {0} ELSE {Converted(x, type) : x \in v}
  BY DEF GetIriConf
<1>4. "str" \notin IntTypes /\ Span(type) \in Nat \ {0} /\ Span(type) % 2 = 0 /\ Signed(type) \in BOOLEAN
  BY SpansAreEven DEF IntTypes
<1>5. CASE v = {}
  <2>1. r = 0
    BY <1>3, <1>5
  <2>2. 0 \in GetIriConf(mode, key, "str")
    BY <1>3, <1>5 DEF GetIriConf
  <2>3. 0 \in Int /\ 0 - 0 = 0
    OBVIOUS
  <2>4. LET low == IF Signed(type) THEN -(Span(type) \div 2) ELSE 0
        IN  0 \in low .. (low + Span(type) - 1) /\ 0 % Span(type) = 0
    BY <1>4, <2>3, NarrowWraps
  <2> QED BY <2>1, <2>2, <2>3, <2>4
<1>6. CASE v # {}
  <2>1. PICK x \in v : r = Converted(x, type)
    BY <1>3, <1>6
  <2>2. x \in Int /\ r = Narrow(x, Span(type), Signed(type))
    BY <1>2, <1>4, <2>1 DEF Converted
  <2>3. x \in GetIriConf(mode, key, "str")
    <3>1. x = Converted(x, "str")
      BY <1>4 DEF Converted
    <3> QED BY <1>3, <1>6, <3>1 DEF GetIriConf
  <2>4. LET low == IF Signed(type) THEN -(Span(type) \div 2) ELSE 0
        IN  r \in low .. (low + Span(type) - 1) /\ (r - x) % Span(type) = 0
    BY <1>4, <2>2, NarrowWraps
  <2> QED BY <2>3, <2>4
<1> QED BY <1>5, <1>6

\* iridium_conf.c: for files of any lines and any length, a look-up after an
\* init_global_config() that returned 0 yields, in the type that was asked for, what the
\* file says before its first misplaced '-'; what it says behind it reads as missing.
THEOREM CallersGetWhatIsWritten == Spec => []ValuesAsWritten
<1>1. Init => FileInv
  <2> SUFFICES ASSUME Init PROVE FileInv
    OBVIOUS
  <2>1. CloseInv
    BY CloseInitially
  <2>2. conf.tab = "null" /\ reading = FALSE /\ file = << >>
    BY DEF Init, CoreInit, NullManager
  <2> QED BY <2>1, <2>2, NothingRead DEF FileInv
<1>2. FileInv => ValuesAsWritten
  BY LookupsAreRight, ConversionsAreRight DEF ValuesAsWritten
<1>3. Spec => []FileInv
  BY <1>1, FileStep, PTL DEF Spec
<1> QED BY <1>2, <1>3, PTL

-----------------------------------------------------------------------------
(* The pairs of a section: the last one that sets a switch or a number rules *)

\* The greatest member of a set of numbers.
LEMMA MaxUnique ==
  ASSUME NEW T \in SUBSET Nat, NEW m \in T, \A y \in T : y <= m
  PROVE  Max(T) = m
<1>1. \A y \in T : m >= y
  OBVIOUS
<1>2. Max(T) \in T /\ \A y \in T : Max(T) >= y
  BY <1>1 DEF Max
<1>3. Max(T) \in Nat /\ m \in Nat /\ Max(T) >= m /\ Max(T) <= m
  BY <1>2
<1> QED BY <1>3

\* The values v of a variable, which the steps in C overwrite with those of w.
Overwrites(v, w, C, n) == \A i \in 1 .. n : v[i] = IF i \in C THEN w[i] ELSE v[i - 1]

\* It has the value of the last of them.
LEMMA LastWins ==
  ASSUME NEW n \in Nat, NEW C, C \subseteq 1 .. n, NEW v, NEW w, Overwrites(v, w, C, n)
  PROVE  /\ C = {} => v[n] = v[0]
         /\ C # {} => Max(C) \in C /\ v[n] = w[Max(C)] /\ \A y \in C : y <= Max(C)
<1>0. \A i \in 1 .. n : v[i] = IF i \in C THEN w[i] ELSE v[i - 1]
  BY DEF Overwrites
<1> DEFINE LastAt(i, x) == x \in C /\ x <= i /\ v[i] = w[x] /\ \A y \in C : y <= i => y <= x
           NoneTo(i) == v[i] = v[0] /\ \A y \in C : ~ (y <= i)
           P == {i \in Nat : NoneTo(i) \/ \E x \in C : LastAt(i, x)}
<1>1. 0 \in P
  <2>1. \A y \in C : ~ (y <= 0)
    OBVIOUS
  <2> QED BY <2>1
<1>2. ASSUME NEW i \in 1 .. n, i - 1 \in P PROVE i \in P
  <2>0. i \in Nat
    OBVIOUS
  <2>1. CASE i \in C
    <3>1. v[i] = w[i] /\ i <= i
      BY <1>0, <2>1
    <3> QED BY <2>0, <2>1, <3>1
  <2>2. CASE i \notin C
    <3>1. v[i] = v[i - 1]
      BY <1>0, <2>2
    <3>2. \A y \in C : y <= i <=> y <= i - 1
      BY <2>2
    <3> QED BY <1>2, <2>0, <3>1, <3>2
  <2> QED BY <2>1, <2>2
<1>3. n \in P
  <2>1. P \in SUBSET Nat
    OBVIOUS
  <2> HIDE DEF P
  <2>2. \A i \in 0 .. n : i \in P
    BY <1>1, <1>2, <2>1, ListInduction
  <2> QED BY <2>2
<1>4. \A y \in C : y <= n
  OBVIOUS
<1>5. CASE NoneTo(n)
  BY <1>4, <1>5
<1>6. ASSUME NEW x \in C, LastAt(n, x) PROVE Max(C) = x /\ \A y \in C : y <= x
  <2>1. C \in SUBSET Nat /\ \A y \in C : y <= x
    BY <1>4, <1>6
  <2> QED BY <2>1, MaxUnique
<1> QED BY <1>3, <1>5, <1>6

\* The members of D are those at the places C of the list.
Places(h, n, C, D) == C \subseteq 1 .. n /\ \A x \in 1 .. n : x \in C <=> h[x] \in D

\* The largest member of a set, in a list of the set it is taken from.
LEMMA LastListed ==
  ASSUME NEW n \in Nat, NEW K, K \subseteq Nat, NEW h, Enumerates(h, n, K), NEW D, D \subseteq K,
         NEW C, Places(h, n, C, D)
  PROVE  /\ C = {} <=> D = {}
         /\ \A x \in C : (\A y \in C : y <= x) => Max(D) = h[x]
<1>0. C \subseteq 1 .. n /\ \A x \in 1 .. n : x \in C <=> h[x] \in D
  BY DEF Places
<1>1. \A d \in D : \E x \in C : h[x] = d
  BY <1>0 DEF Enumerates
<1>2. ASSUME NEW x \in C, \A y \in C : y <= x PROVE Max(D) = h[x]
  <2>1. h[x] \in D /\ D \in SUBSET Nat
    BY <1>0
  <2>2. ASSUME NEW d \in D PROVE d <= h[x]
    <3>1. PICK y \in C : h[y] = d
      BY <1>1
    <3>2. y = x \/ y < x
      BY <1>0, <1>2
    <3>3. y < x => h[y] < h[x]
      BY <1>0 DEF Enumerates
    <3>4. h[y] \in Nat /\ h[x] \in Nat
      BY <2>1, <3>1
    <3> QED BY <3>1, <3>2, <3>3, <3>4
  <2> QED BY <2>1, <2>2, MaxUnique
<1> QED BY <1>0, <1>1, <1>2

\* The loop of get_info_from_conf_pairs() over the pairs.
FilledInfos(name, pairs) ==
  LET filled[i \in 0 .. Len(pairs)] ==
        IF i = 0 THEN [ZeroInfo EXCEPT !.name = name] ELSE LineHandle(filled[i - 1], pairs[i])
  IN  filled

\* v is what this loop computes up to the n-th pair.
FillsUpTo(v, name, pairs, n) ==
  v = [i \in 0 .. n |-> IF i = 0 THEN [ZeroInfo EXCEPT !.name = name] ELSE LineHandle(v[i - 1], pairs[i])]

\* The recursive function of InfoFromPairs() is what it says: its value pair by pair.
LEMMA FilledIs ==
  ASSUME NEW name, NEW pairs, Len(pairs) \in Nat
  PROVE  \E v : /\ v[0] = [ZeroInfo EXCEPT !.name = name] /\ InfoFromPairs(name, pairs) = v[Len(pairs)]
                /\ \A i \in 1 .. Len(pairs) : v[i] = LineHandle(v[i - 1], pairs[i])
<1>0. PICK n \in Nat : n = Len(pairs)
  OBVIOUS
<1> DEFINE first == [ZeroInfo EXCEPT !.name = name]
           P == {k \in Nat : \E v : FillsUpTo(v, name, pairs, k)}
<1>1. 0 \in P
  <2> DEFINE v == [i \in 0 .. 0 |-> first]
  <2>1. v = [i \in 0 .. 0 |-> IF i = 0 THEN first ELSE LineHandle(v[i - 1], pairs[i])]
    <3> HIDE DEF first
    <3> QED OBVIOUS
  <2>2. FillsUpTo(v, name, pairs, 0)
    BY <2>1 DEF FillsUpTo
  <2> QED BY <2>2
<1>2. ASSUME NEW k \in 1 .. n, k - 1 \in P PROVE k \in P
  <2>1. PICK v : FillsUpTo(v, name, pairs, k - 1)
    BY <1>2
  <2>2. v = [i \in 0 .. (k - 1) |-> IF i = 0 THEN first ELSE LineHandle(v[i - 1], pairs[i])]
    BY <2>1 DEF FillsUpTo
  <2> DEFINE u == [i \in 0 .. k |-> IF i = k THEN LineHandle(v[k - 1], pairs[k]) ELSE v[i]]
  <2> HIDE DEF first
  <2>3. \A i \in 0 .. k : i = k \/ i \in 0 .. (k - 1)
    OBVIOUS
  <2>4. \A i \in 0 .. (k - 1) : i \in 0 .. k /\ i # k
    OBVIOUS
  <2>5. \A i \in 0 .. (k - 1) : u[i] = v[i]
    BY <2>4
  <2>6. k \in 0 .. k /\ k # 0 /\ k - 1 \in 0 .. (k - 1) /\ u[k] = LineHandle(v[k - 1], pairs[k])
    OBVIOUS
  <2>7. \A i \in 0 .. (k - 1) : i # 0 => i - 1 \in 0 .. (k - 1)
    OBVIOUS
  <2>8. \A i \in 0 .. k : u[i] = IF i = 0 THEN first ELSE LineHandle(u[i - 1], pairs[i])
    <3> SUFFICES ASSUME NEW i \in 0 .. k PROVE u[i] = IF i = 0 THEN first ELSE LineHandle(u[i - 1], pairs[i])
      OBVIOUS
    <3> HIDE DEF u
    <3>1. CASE i = k
      BY <2>5, <2>6, <3>1
    <3>2. CASE i \in 0 .. (k - 1)
      <4>1. u[i] = IF i = 0 THEN first ELSE LineHandle(v[i - 1], pairs[i])
        BY <2>2, <2>5, <3>2
      <4>2. i # 0 => u[i - 1] = v[i - 1]
        BY <2>5, <2>7, <3>2
      <4> QED BY <4>1, <4>2
    <3> QED BY <2>3, <3>1, <3>2
  <2>9. u = [i \in 0 .. k |-> IF i = 0 THEN first ELSE LineHandle(u[i - 1], pairs[i])]
    <3>1. DOMAIN u = 0 .. k /\ u = [i \in 0 .. k |-> u[i]]
      OBVIOUS
    <3> HIDE DEF u
    <3> QED BY <2>8, <3>1
  <2> HIDE DEF u
  <2>10. FillsUpTo(u, name, pairs, k)
    BY <2>9 DEF FillsUpTo, first
  <2> QED BY <2>10
<1>3. n \in P
  <2>1. P \in SUBSET Nat
    OBVIOUS
  <2> HIDE DEF P
  <2>2. \A i \in 0 .. n : i \in P
    BY <1>1, <1>2, <2>1, ListInduction
  <2> QED BY <2>2
<1>4. PICK v : FillsUpTo(v, name, pairs, n)
  BY <1>3
<1> DEFINE f == FilledInfos(name, pairs)
<1>5. f = [i \in 0 .. n |-> IF i = 0 THEN first ELSE LineHandle(f[i - 1], pairs[i])]
  BY <1>0, <1>4 DEF FilledInfos, FillsUpTo
<1>6. InfoFromPairs(name, pairs) = f[n]
  BY <1>0 DEF InfoFromPairs, FilledInfos
<1> HIDE DEF f, first
<1>7. 0 \in 0 .. n /\ \A i \in 1 .. n : i \in 0 .. n /\ i # 0
  OBVIOUS
<1>8. f[0] = first /\ \A i \in 1 .. n : f[i] = LineHandle(f[i - 1], pairs[i])
  BY <1>5, <1>7
<1> QED BY <1>0, <1>6, <1>8 DEF first

\* An entry of sinfo with these fields.
InfoFields(r, name, log_switch, is_valid, timer, list, number) ==
  r = [name |-> name, log_switch |-> log_switch, is_valid |-> is_valid, timer |-> timer,
       list |-> list, number |-> number]

\* What is read from the fields is what they have.
LEMMA FieldsAre ==
  ASSUME NEW r, NEW a, NEW b, NEW c, NEW d, NEW e, NEW f, InfoFields(r, a, b, c, d, e, f)
  PROVE  /\ r.name = a /\ r.log_switch = b /\ r.is_valid = c /\ r.timer = d /\ r.list = e /\ r.number = f
         /\ InfoFields(r, r.name, r.log_switch, r.is_valid, r.timer, r.list, r.number)
<1>1. r.name = a /\ r.log_switch = b /\ r.is_valid = c /\ r.timer = d /\ r.list = e /\ r.number = f
  BY DEF InfoFields
<1> QED BY <1>1 DEF InfoFields

\* Writing to a field.
LEMMA FieldWritten ==
  ASSUME NEW r, NEW a, NEW b, NEW c, NEW d, NEW e, NEW f, InfoFields(r, a, b, c, d, e, f), NEW x
  PROVE  /\ InfoFields([r EXCEPT !.name = x], x, b, c, d, e, f)
         /\ InfoFields([r EXCEPT !.log_switch = x], a, x, c, d, e, f)
         /\ InfoFields([r EXCEPT !.is_valid = x], a, b, x, d, e, f)
         /\ InfoFields([r EXCEPT !.timer = x], a, b, c, x, e, f)
         /\ InfoFields([r EXCEPT !.list = x], a, b, c, d, x, f)
         /\ InfoFields([r EXCEPT !.number = x], a, b, c, d, e, x)
BY DEF InfoFields

\* An entry of sinfo: its fields, and the switches and numbers it has.
InfoShape(info) ==
  /\ InfoFields(info, info.name, info.log_switch, info.is_valid, info.timer, info.list, info.number)
  /\ info.list = [k \in DOMAIN Lists |-> info.list[k]]
  /\ \A k \in DOMAIN Lists : info.list[k] = [i \in 1 .. Lists[k] |-> info.list[k][i]]
  /\ info.number = [k \in Numbers |-> info.number[k]]

\* The pair sets switch i of the list k.
Sets(pair, k, i) == pair.key = k /\ i <= GoodDigits(pair.val)

\* memset() leaves zeros.
LEMMA ZerosFirst ==
  ASSUME NEW name
  PROVE  LET info == [ZeroInfo EXCEPT !.name = name]
         IN /\ InfoShape(info) /\ info.name = name /\ info.is_valid = 0
            /\ \A k \in DOMAIN Lists : \A i \in 1 .. Lists[k] : info.list[k][i] = 0
            /\ \A k \in Numbers : info.number[k] = 0
<1> DEFINE zeros == [k \in DOMAIN Lists |-> [i \in 1 .. Lists[k] |-> 0]]
           none == [k \in Numbers |-> 0]
           info == [ZeroInfo EXCEPT !.name = name]
<1>1. /\ \A k \in DOMAIN Lists : zeros[k] = [i \in 1 .. Lists[k] |-> 0]
      /\ zeros = [k \in DOMAIN Lists |-> zeros[k]] /\ none = [k \in Numbers |-> none[k]]
      /\ \A k \in Numbers : none[k] = 0
  OBVIOUS
<1>2. InfoFields(ZeroInfo, "", 0, 0, 0, zeros, none)
  BY DEF ZeroInfo, InfoFields
<1> HIDE DEF zeros, none
<1>3. InfoFields(info, name, 0, 0, 0, zeros, none)
  BY <1>2, FieldWritten
<1> HIDE DEF info
<1>4. \A k \in DOMAIN Lists : zeros[k] = [i \in 1 .. Lists[k] |-> zeros[k][i]] /\ \A i \in 1 .. Lists[k] : zeros[k][i] = 0
  <2> SUFFICES ASSUME NEW k \in DOMAIN Lists
               PROVE  zeros[k] = [i \in 1 .. Lists[k] |-> zeros[k][i]] /\ \A i \in 1 .. Lists[k] : zeros[k][i] = 0
    OBVIOUS
  <2>1. PICK m, z : m = Lists[k] /\ z = zeros[k] /\ z = [i \in 1 .. m |-> 0]
    BY <1>1
  <2>2. z = [i \in 1 .. m |-> z[i]] /\ \A i \in 1 .. m : z[i] = 0
    BY <2>1
  <2> QED BY <2>1, <2>2
<1>5. /\ info.name = name /\ info.is_valid = 0 /\ info.list = zeros /\ info.number = none
      /\ InfoFields(info, info.name, info.log_switch, info.is_valid, info.timer, info.list, info.number)
  BY <1>3, FieldsAre
<1>6. InfoShape(info)
  BY <1>1, <1>4, <1>5 DEF InfoShape
<1>7. /\ \A k \in DOMAIN Lists : \A i \in 1 .. Lists[k] : info.list[k][i] = 0
      /\ \A k \in Numbers : info.number[k] = 0
  BY <1>1, <1>4, <1>5
<1> QED BY <1>5, <1>6, <1>7 DEF info

\* irilog_conf_line_handle(): a pair writes the switches or the number of its key.
LEMMA LineWrites ==
  ASSUME NEW info, InfoShape(info), NEW pair
  PROVE  LET new == LineHandle(info, pair)
         IN /\ InfoShape(new) /\ new.name = info.name
            /\ \A k \in DOMAIN Lists : \A i \in 1 .. Lists[k] :
                 new.list[k][i] = IF Sets(pair, k, i) THEN pair.val[i] ELSE info.list[k][i]
            /\ \A k \in Numbers : new.number[k] = IF pair.key = k THEN pair.val ELSE info.number[k]
<1> DEFINE new == LineHandle(info, pair)
<1>0. /\ InfoFields(info, info.name, info.log_switch, info.is_valid, info.timer, info.list, info.number)
      /\ info.list = [k \in DOMAIN Lists |-> info.list[k]]
      /\ \A k \in DOMAIN Lists : info.list[k] = [i \in 1 .. Lists[k] |-> info.list[k][i]]
      /\ info.number = [k \in Numbers |-> info.number[k]]
  BY DEF InfoShape
<1>n. \A k \in Numbers : k \notin DOMAIN Lists
  BY DEF Numbers, Lists
<1>1. CASE pair.key \in DOMAIN Lists
  <2> DEFINE key == pair.key
             digits == SetDigits(info.list[key], pair.val)
             list == [info.list EXCEPT ![key] = digits]
  <2>1. LineHandle(info, pair) = [info EXCEPT !.list[pair.key] = SetDigits(@, pair.val)]
    BY <1>1, <1>n, Zenon DEF LineHandle
  <2>2. new = [info EXCEPT !.list = list]
    BY <2>1
  <2> HIDE DEF new
  <2>3. digits = [i \in 1 .. Lists[key] |-> IF Sets(pair, key, i) THEN pair.val[i] ELSE info.list[key][i]]
    <3>1. PICK old : old = info.list[key] /\ DOMAIN old = 1 .. Lists[key]
      BY <1>0, <1>1
    <3>2. SetDigits(old, pair.val) = [i \in DOMAIN old |-> IF i <= GoodDigits(pair.val) THEN pair.val[i] ELSE old[i]]
      BY DEF SetDigits
    <3> QED BY <3>1, <3>2 DEF Sets
  <2>4. list = [k \in DOMAIN Lists |-> IF k = key THEN digits ELSE info.list[k]]
    BY <1>0, <1>1
  <2> HIDE DEF digits, list
  <2>5. InfoFields(new, info.name, info.log_switch, info.is_valid, info.timer, list, info.number)
    BY <1>0, <2>2, FieldWritten
  <2>6. /\ new.name = info.name /\ new.list = list /\ new.number = info.number
        /\ InfoFields(new, new.name, new.log_switch, new.is_valid, new.timer, new.list, new.number)
    BY <2>5, FieldsAre
  <2>7. ASSUME NEW k \in DOMAIN Lists
        PROVE  /\ list[k] = [i \in 1 .. Lists[k] |-> list[k][i]]
               /\ \A i \in 1 .. Lists[k] : list[k][i] = IF Sets(pair, k, i) THEN pair.val[i] ELSE info.list[k][i]
    <3>1. CASE k = key
      <4>1. list[k] = digits
        BY <2>4, <3>1
      <4>2. digits = [i \in 1 .. Lists[key] |-> digits[i]]
        BY <2>3
      <4> QED BY <2>3, <3>1, <4>1, <4>2
    <3>2. CASE k # key
      <4>1. list[k] = info.list[k]
        BY <2>4, <3>2
      <4>2. \A i \in 1 .. Lists[k] : ~ Sets(pair, k, i)
        BY <3>2 DEF Sets
      <4> QED BY <1>0, <4>1, <4>2
    <3> QED BY <3>1, <3>2
  <2>8. list = [k \in DOMAIN Lists |-> list[k]]
    BY <2>4
  <2>9. \A k \in Numbers : pair.key # k
    BY <1>1, <1>n
  <2>10. InfoShape(new)
    BY <1>0, <2>6, <2>7, <2>8 DEF InfoShape
  <2> QED BY <2>6, <2>7, <2>9, <2>10 DEF new
<1>2. CASE pair.key \notin DOMAIN Lists
  <2>1. \A k \in DOMAIN Lists : \A i \in 1 .. Lists[k] : ~ Sets(pair, k, i)
    BY <1>2 DEF Sets
  <2>2. CASE pair.key \in Numbers
    <3> DEFINE number == [info.number EXCEPT ![pair.key] = pair.val]
    <3>1. new = [info EXCEPT !.number = number]
      BY <1>2, <2>2 DEF LineHandle
    <3>2. number = [k \in Numbers |-> IF pair.key = k THEN pair.val ELSE info.number[k]]
      BY <1>0, <2>2
    <3> HIDE DEF number, new
    <3>3. InfoFields(new, info.name, info.log_switch, info.is_valid, info.timer, info.list, number)
      BY <1>0, <3>1, FieldWritten
    <3>4. /\ new.name = info.name /\ new.list = info.list /\ new.number = number
          /\ InfoFields(new, new.name, new.log_switch, new.is_valid, new.timer, new.list, new.number)
      BY <3>3, FieldsAre
    <3>5. number = [k \in Numbers |-> number[k]]
      BY <3>2
    <3>6. InfoShape(new)
      BY <1>0, <3>4, <3>5 DEF InfoShape
    <3> QED BY <2>1, <3>2, <3>4, <3>6 DEF new
  <2>3. CASE pair.key \notin Numbers
    <3>1. new = info
      BY <1>2, <2>3 DEF LineHandle
    <3> QED BY <2>1, <2>3, <3>1
  <2> QED BY <2>2, <2>3
<1> QED BY <1>1, <1>2

\* Each switch and each number of the entry is ruled by the last pair that sets it.
LastRules(info, pairs, n) ==
  /\ \A k \in DOMAIN Lists : \A i \in 1 .. Lists[k] :
       LET C == {x \in 1 .. n : Sets(pairs[x], k, i)}
       IN /\ C = {} => info.list[k][i] = 0
          /\ C # {} => /\ Max(C) \in C /\ info.list[k][i] = pairs[Max(C)].val[i]
                       /\ \A y \in C : y <= Max(C)
  /\ \A k \in Numbers :
       LET C == {x \in 1 .. n : pairs[x].key = k}
       IN /\ C = {} => info.number[k] = 0
          /\ C # {} => /\ Max(C) \in C /\ info.number[k] = pairs[Max(C)].val
                       /\ \A y \in C : y <= Max(C)

\* The entry that get_info_from_conf_pairs() makes of the pairs.
LEMMA LastPairRules ==
  ASSUME NEW name, NEW pairs, Len(pairs) \in Nat
  PROVE  LET info == InfoFromPairs(name, pairs)
         IN InfoShape(info) /\ info.name = name /\ LastRules(info, pairs, Len(pairs))
<1>0. PICK n \in Nat : n = Len(pairs)
  OBVIOUS
<1>i. PICK info : info = InfoFromPairs(name, pairs)
  OBVIOUS
<1>1. PICK f : /\ f[0] = [ZeroInfo EXCEPT !.name = name] /\ info = f[n]
               /\ \A i \in 1 .. n : f[i] = LineHandle(f[i - 1], pairs[i])
  BY <1>0, <1>i, FilledIs
<1> DEFINE P == {i \in Nat : InfoShape(f[i]) /\ f[i].name = name}
<1>2. 0 \in P
  BY <1>1, ZerosFirst
<1>3. ASSUME NEW i \in 1 .. n, i - 1 \in P PROVE i \in P
  <2>1. InfoShape(f[i - 1]) /\ f[i - 1].name = name /\ f[i] = LineHandle(f[i - 1], pairs[i]) /\ i \in Nat
    BY <1>1, <1>3
  <2>2. InfoShape(LineHandle(f[i - 1], pairs[i])) /\ LineHandle(f[i - 1], pairs[i]).name = f[i - 1].name
    BY <2>1, LineWrites
  <2> QED BY <2>1, <2>2
<1>4. \A i \in 0 .. n : i \in P
  <2>1. P \in SUBSET Nat
    OBVIOUS
  <2> HIDE DEF P
  <2> QED BY <1>2, <1>3, <2>1, ListInduction
<1>5. n \in 0 .. n /\ \A i \in 1 .. n : i - 1 \in 0 .. n
  OBVIOUS
<1>6. ASSUME NEW i \in 1 .. n
      PROVE  /\ \A k \in DOMAIN Lists : \A j \in 1 .. Lists[k] :
                  f[i].list[k][j] = IF Sets(pairs[i], k, j) THEN pairs[i].val[j] ELSE f[i - 1].list[k][j]
             /\ \A k \in Numbers : f[i].number[k] = IF pairs[i].key = k THEN pairs[i].val ELSE f[i - 1].number[k]
  <2>1. InfoShape(f[i - 1]) /\ f[i] = LineHandle(f[i - 1], pairs[i])
    BY <1>1, <1>4, <1>5
  <2>2. PICK old, p : old = f[i - 1] /\ p = pairs[i]
    OBVIOUS
  <2>3. /\ \A k \in DOMAIN Lists : \A j \in 1 .. Lists[k] :
             LineHandle(old, p).list[k][j] = IF Sets(p, k, j) THEN p.val[j] ELSE old.list[k][j]
        /\ \A k \in Numbers : LineHandle(old, p).number[k] = IF p.key = k THEN p.val ELSE old.number[k]
    <3>1. InfoShape(old)
      BY <2>1, <2>2
    <3> HIDE DEF P
    <3>2. LET new == LineHandle(old, p)
          IN /\ InfoShape(new) /\ new.name = old.name
             /\ \A k \in DOMAIN Lists : \A j \in 1 .. Lists[k] :
                  new.list[k][j] = IF Sets(p, k, j) THEN p.val[j] ELSE old.list[k][j]
             /\ \A k \in Numbers : new.number[k] = IF p.key = k THEN p.val ELSE old.number[k]
      BY <3>1, LineWrites
    <3> QED BY <3>2
  <2> QED BY <2>1, <2>2, <2>3
<1>7. /\ \A k \in DOMAIN Lists : \A i \in 1 .. Lists[k] : f[0].list[k][i] = 0
      /\ \A k \in Numbers : f[0].number[k] = 0
  <2>1. LET first == [ZeroInfo EXCEPT !.name = name]
        IN /\ \A k \in DOMAIN Lists : \A i \in 1 .. Lists[k] : first.list[k][i] = 0
           /\ \A k \in Numbers : first.number[k] = 0
    BY ZerosFirst
  <2> QED BY <1>1, <2>1
<1>8. ASSUME NEW k \in DOMAIN Lists, NEW j \in 1 .. Lists[k]
      PROVE  LET C == {x \in 1 .. n : Sets(pairs[x], k, j)}
             IN /\ C = {} => info.list[k][j] = 0
                /\ C # {} => /\ Max(C) \in C /\ info.list[k][j] = pairs[Max(C)].val[j]
                             /\ \A y \in C : y <= Max(C)
  <2> DEFINE C == {x \in 1 .. n : Sets(pairs[x], k, j)}
             v == [i \in 0 .. n |-> f[i].list[k][j]]
             w == [i \in 1 .. n |-> pairs[i].val[j]]
  <2>0. 0 \in 0 .. n /\ \A i \in 0 .. n : v[i] = f[i].list[k][j]
    OBVIOUS
  <2>2. C \in SUBSET (1 .. n) /\ (\A x \in 1 .. n : x \in C <=> Sets(pairs[x], k, j))
        /\ \A x \in 1 .. n : w[x] = pairs[x].val[j]
    OBVIOUS
  <2> HIDE DEF C, v, w, P
  <2>1. v[0] = 0 /\ v[n] = info.list[k][j] /\ \A i \in 1 .. n : v[i] = f[i].list[k][j] /\ v[i - 1] = f[i - 1].list[k][j]
    <3>1. \A i \in 1 .. n : i \in 0 .. n
      OBVIOUS
    <3> QED BY <1>1, <1>5, <1>7, <2>0, <3>1
  <2>3. \A i \in 1 .. n : v[i] = IF i \in C THEN w[i] ELSE v[i - 1]
    BY <1>6, <2>1, <2>2
  <2>4. /\ C = {} => v[n] = v[0]
        /\ C # {} => Max(C) \in C /\ v[n] = w[Max(C)] /\ \A y \in C : y <= Max(C)
    <3>1. C \subseteq 1 .. n /\ Overwrites(v, w, C, n)
      BY <2>2, <2>3 DEF Overwrites
    <3> QED BY <3>1, LastWins
  <2>5. /\ C = {} => info.list[k][j] = 0
        /\ C # {} => /\ Max(C) \in C /\ info.list[k][j] = pairs[Max(C)].val[j]
                     /\ \A y \in C : y <= Max(C)
    BY <2>1, <2>2, <2>4
  <2> QED BY <2>5 DEF C
<1>9. ASSUME NEW k \in Numbers
      PROVE  LET C == {x \in 1 .. n : pairs[x].key = k}
             IN /\ C = {} => info.number[k] = 0
                /\ C # {} => /\ Max(C) \in C /\ info.number[k] = pairs[Max(C)].val
                             /\ \A y \in C : y <= Max(C)
  <2> DEFINE C == {x \in 1 .. n : pairs[x].key = k}
             v == [i \in 0 .. n |-> f[i].number[k]]
             w == [i \in 1 .. n |-> pairs[i].val]
  <2>0. 0 \in 0 .. n /\ \A i \in 0 .. n : v[i] = f[i].number[k]
    OBVIOUS
  <2>2. C \in SUBSET (1 .. n) /\ (\A x \in 1 .. n : x \in C <=> pairs[x].key = k)
        /\ \A x \in 1 .. n : w[x] = pairs[x].val
    OBVIOUS
  <2> HIDE DEF C, v, w, P
  <2>1. v[0] = 0 /\ v[n] = info.number[k] /\ \A i \in 1 .. n : v[i] = f[i].number[k] /\ v[i - 1] = f[i - 1].number[k]
    <3>1. \A i \in 1 .. n : i \in 0 .. n
      OBVIOUS
    <3> QED BY <1>1, <1>5, <1>7, <2>0, <3>1
  <2>3. \A i \in 1 .. n : v[i] = IF i \in C THEN w[i] ELSE v[i - 1]
    BY <1>6, <2>1, <2>2
  <2>4. /\ C = {} => v[n] = v[0]
        /\ C # {} => Max(C) \in C /\ v[n] = w[Max(C)] /\ \A y \in C : y <= Max(C)
    <3>1. C \subseteq 1 .. n /\ Overwrites(v, w, C, n)
      BY <2>2, <2>3 DEF Overwrites
    <3> QED BY <3>1, LastWins
  <2>5. /\ C = {} => info.number[k] = 0
        /\ C # {} => /\ Max(C) \in C /\ info.number[k] = pairs[Max(C)].val
                     /\ \A y \in C : y <= Max(C)
    BY <2>1, <2>2, <2>4
  <2> QED BY <2>5 DEF C
<1>10. InfoShape(info) /\ info.name = name
  BY <1>1, <1>4, <1>5
<1> HIDE DEF P
<1>11. LastRules(info, pairs, n)
  BY <1>8, <1>9 DEF LastRules
<1> QED BY <1>0, <1>i, <1>10, <1>11

\* The keys of the log library are not the switch, which ReadSwitch() handles.
LEMMA KeysOfLog == \A k \in DOMAIN Lists \cup Numbers : k # "@SWITCH"
  BY DEF Lists, Numbers

\* The entry of a well-formed section has what the last line with the key says.
LEMMA InfoSays ==
  ASSUME NEW g, NEW s, NEW pairs, NEW name, WellFormed(g, s), Pairs(pairs, g, s), Body(g, s) \in SUBSET Nat
  PROVE  LET info == InfoFromPairs(name, pairs)
         IN /\ InfoShape(info) /\ info.name = name
            /\ \A k \in DOMAIN Lists : \A i \in 1 .. Lists[k] : info.list[k][i] = ListSaid(g, s, k, i)
            /\ \A k \in Numbers : info.number[k] = NumberSaid(g, s, k)
<1>1. PICK n \in Nat : n = Len(pairs) /\ DOMAIN pairs = 1 .. n
  BY DEF Pairs
<1>2. PICK h : Enumerates(h, n, Body(g, s)) /\ \A x \in 1 .. n : pairs[x] = Pair(g[h[x]])
  BY <1>1 DEF Pairs
<1>3. PICK info : info = InfoFromPairs(name, pairs)
  OBVIOUS
<1>4. InfoShape(info) /\ info.name = name /\ LastRules(info, pairs, n)
  <2>1. Len(pairs) \in Nat
    BY <1>1
  <2> QED BY <1>1, <1>3, <2>1, LastPairRules
<1>5. ASSUME NEW x \in 1 .. n, NEW key, key # "@SWITCH"
      PROVE  /\ h[x] \in Body(g, s) /\ h[x] \in (Title(g, s) + 1) .. (s[2] - 1)
             /\ pairs[x].key = key <=> g[h[x]].kind = "pair" /\ g[h[x]].key = key
             /\ pairs[x].key = key => pairs[x].val = g[h[x]].val
  <2>1. h[x] \in Body(g, s)
    BY <1>2 DEF Enumerates
  <2>2. h[x] \in (Title(g, s) + 1) .. (s[2] - 1) /\ g[h[x]].kind \in {"pair", "switch"}
    BY <2>1 DEF Body, WellFormed
  <2>3. pairs[x] = Pair(g[h[x]])
    BY <1>2
  <2>4. CASE g[h[x]].kind = "pair"
    <3>1. pairs[x].key = g[h[x]].key /\ pairs[x].val = g[h[x]].val
      BY <2>3, <2>4 DEF Pair
    <3> QED BY <2>1, <2>2, <2>4, <3>1
  <2>5. CASE g[h[x]].kind = "switch"
    <3>1. pairs[x].key = "@SWITCH"
      BY <2>3, <2>5 DEF Pair
    <3> QED BY <1>5, <2>1, <2>2, <2>5, <3>1
  <2> QED BY <2>2, <2>4, <2>5
<1>6. ASSUME NEW k \in DOMAIN Lists, NEW i \in 1 .. Lists[k] PROVE info.list[k][i] = ListSaid(g, s, k, i)
  <2> DEFINE C == {x \in 1 .. n : Sets(pairs[x], k, i)}
             D == {m \in (Title(g, s) + 1) .. (s[2] - 1) :
                     g[m].kind = "pair" /\ g[m].key = k /\ i <= GoodDigits(g[m].val)}
  <2>1. ListSaid(g, s, k, i) = IF D = {} THEN 0 ELSE g[Max(D)].val[i]
    BY DEF ListSaid
  <2>2. k # "@SWITCH"
    BY KeysOfLog
  <2>3. \A x \in 1 .. n : x \in C <=> h[x] \in D
    BY <1>5, <2>2 DEF Sets
  <2>4. D \in SUBSET Body(g, s) /\ C \in SUBSET (1 .. n) /\ \A x \in C : pairs[x].key = k
    BY DEF Body, Sets
  <2>5. /\ C = {} => info.list[k][i] = 0
        /\ C # {} => /\ Max(C) \in C /\ info.list[k][i] = pairs[Max(C)].val[i]
                     /\ \A y \in C : y <= Max(C)
    BY <1>4 DEF LastRules
  <2> HIDE DEF C, D
  <2>6. /\ C = {} <=> D = {}
        /\ \A x \in C : (\A y \in C : y <= x) => Max(D) = h[x]
    <3>1. Body(g, s) \subseteq Nat /\ D \subseteq Body(g, s) /\ Places(h, n, C, D)
      BY <2>3, <2>4 DEF Places
    <3> QED BY <1>2, <3>1, LastListed
  <2>7. C # {} => Max(D) = h[Max(C)] /\ pairs[Max(C)].val = g[h[Max(C)]].val
    BY <1>5, <2>2, <2>4, <2>5, <2>6
  <2> QED BY <2>1, <2>5, <2>6, <2>7
<1>7. ASSUME NEW k \in Numbers PROVE info.number[k] = NumberSaid(g, s, k)
  <2> DEFINE C == {x \in 1 .. n : pairs[x].key = k}
             D == {m \in (Title(g, s) + 1) .. (s[2] - 1) : g[m].kind = "pair" /\ g[m].key = k}
  <2>1. NumberSaid(g, s, k) = IF D = {} THEN 0 ELSE g[Max(D)].val
    BY DEF NumberSaid
  <2>2. k # "@SWITCH"
    BY KeysOfLog
  <2>3. \A x \in 1 .. n : x \in C <=> h[x] \in D
    BY <1>5, <2>2
  <2>4. D \in SUBSET Body(g, s) /\ C \in SUBSET (1 .. n) /\ \A x \in C : pairs[x].key = k
    BY DEF Body
  <2>5. /\ C = {} => info.number[k] = 0
        /\ C # {} => /\ Max(C) \in C /\ info.number[k] = pairs[Max(C)].val
                     /\ \A y \in C : y <= Max(C)
    BY <1>4 DEF LastRules
  <2> HIDE DEF C, D
  <2>6. /\ C = {} <=> D = {}
        /\ \A x \in C : (\A y \in C : y <= x) => Max(D) = h[x]
    <3>1. Body(g, s) \subseteq Nat /\ D \subseteq Body(g, s) /\ Places(h, n, C, D)
      BY <2>3, <2>4 DEF Places
    <3> QED BY <1>2, <3>1, LastListed
  <2>7. C # {} => Max(D) = h[Max(C)] /\ pairs[Max(C)].val = g[h[Max(C)]].val
    BY <1>5, <2>2, <2>4, <2>5, <2>6
  <2> QED BY <2>1, <2>5, <2>6, <2>7
<1> QED BY <1>3, <1>4, <1>6, <1>7

-----------------------------------------------------------------------------
(* What is read of a section that is not well-formed: its first lines *)

\* The pairs are the first lines of the body of the section, in their order.
Starts(pairs, g, s) ==
  \E n \in Nat : \E K \in SUBSET Body(g, s) : \E h :
    /\ n = Len(pairs) /\ DOMAIN pairs = 1 .. n /\ Enumerates(h, n, K)
    /\ \A k \in K, i \in Body(g, s) : i < k => i \in K
    /\ \A x \in 1 .. n : pairs[x] = Pair(g[h[x]]) /\ IsPair(g[h[x]])

\* What handle_conf_block() keeps of the lines: it makes pairs of those after the first,
\* at most MaxNodeNum of them.
LEMMA PairsOfLines ==
  ASSUME NEW b \in Seq(AllLines), NEW sec \in HandleConfBlock(b)
  PROVE  LET lines == NoComments(BeforeHuge(b))
         IN \E z \in Nat : /\ z <= MaxNodeNum /\ Len(sec.pairs) = z /\ DOMAIN sec.pairs = 1 .. z
                           /\ Len(lines) \in Nat /\ z + 1 <= Len(lines)
                           /\ \A x \in 1 .. z : sec.pairs[x] = Pair(lines[x + 1]) /\ IsPair(lines[x + 1])
<1>0. PICK lines : lines = NoComments(BeforeHuge(b))
  OBVIOUS
<1>1. PICK c \in Seq(AllLines) : c = BeforeHuge(b)
  BY BeforeHugeIs
<1>2. lines \in Seq(AllLines)
  BY <1>0, <1>1, NoCommentsSelects
<1>3. PICK q \in Nat : q = Len(lines) /\ \A i \in 1 .. q : lines[i] \in AllLines
  BY <1>2
<1>4. PICK e \in Int : e = (IF Len(lines) > MaxNodeNum THEN MaxNodeNum + 1 ELSE Len(lines))
                       /\ e <= q /\ e <= MaxNodeNum + 1 /\ (q >= 1 => e >= 1)
  BY <1>3, ConfCoreAssumption
<1>5. PICK body : body = SubSeq(lines, 2, e)
  OBVIOUS
<1>6. lines # << >> /\ sec.pairs = [i \in DOMAIN body |-> Pair(body[i])] /\ \A i \in DOMAIN body : IsPair(body[i])
  <2> DEFINE bad == lines = << >> \/ lines[1].kind \in {"long", "wide"} \/ \E i \in DOMAIN body : ~ IsPair(body[i])
             pairs == [i \in DOMAIN body |-> Pair(body[i])]
  <2>1. HandleConfBlock(b) = IF bad THEN {} ELSE {[name |-> ModeName(lines[1]), pairs |-> pairs]}
    BY <1>0, <1>4, <1>5 DEF HandleConfBlock
  <2>2. bad => HandleConfBlock(b) = {}
    BY <2>1
  <2>3. ~ bad
    BY <2>2
  <2> HIDE DEF pairs
  <2>4. sec = [name |-> ModeName(lines[1]), pairs |-> pairs]
    BY <2>1, <2>3
  <2> QED BY <2>3, <2>4 DEF pairs
<1>7. q >= 1
  BY <1>2, <1>3, <1>6, EmptySeq
<1>8. PICK z \in Nat : z = e - 1 /\ z + 1 <= q /\ z <= MaxNodeNum
  BY <1>3, <1>4, <1>7, ConfCoreAssumption
<1>9. DOMAIN body = 1 .. z /\ \A x \in 1 .. z : body[x] = lines[x + 1]
  <2>1. \A i \in 2 .. e : lines[i] \in AllLines
    BY <1>3, <1>4
  <2>2. 2 \in Int /\ e \in Int
    OBVIOUS
  <2>3. /\ SubSeq(lines, 2, e) \in Seq(AllLines)
        /\ Len(SubSeq(lines, 2, e)) = IF 2 <= e THEN e - 2 + 1 ELSE 0
        /\ \A i \in 1 .. (e - 2 + 1) : SubSeq(lines, 2, e)[i] = lines[2 + i - 1]
    BY <2>1, <2>2, SubSeqProperties
  <2>4. (IF 2 <= e THEN e - 2 + 1 ELSE 0) = z /\ e - 2 + 1 = z /\ \A i \in 1 .. z : 2 + i - 1 = i + 1
    BY <1>8
  <2>5. Len(body) = z /\ body \in Seq(AllLines)
    BY <1>5, <2>3, <2>4
  <2> QED BY <1>5, <2>3, <2>4, <2>5, LenProperties
<1>10. sec.pairs = [x \in 1 .. z |-> Pair(lines[x + 1])]
  BY <1>6, <1>9
<1>11. Len(sec.pairs) = z /\ DOMAIN sec.pairs = 1 .. z /\ \A x \in 1 .. z : sec.pairs[x] = Pair(lines[x + 1])
  <2>1. PICK pairs : pairs = [x \in 1 .. z |-> Pair(lines[x + 1])]
    OBVIOUS
  <2>2. pairs \in [1 .. z -> AllPairs] /\ \A x \in 1 .. z : pairs[x] = Pair(lines[x + 1])
    <3>1. \A x \in 1 .. z : lines[x + 1] \in AllLines
      BY <1>3, <1>8
    <3> QED BY <2>1, <3>1 DEF AllPairs
  <2>3. pairs \in Seq(AllPairs) /\ Len(pairs) = z /\ DOMAIN pairs = 1 .. z
    BY <2>2
  <2> QED BY <1>10, <2>1, <2>2, <2>3
<1>12. \A x \in 1 .. z : IsPair(lines[x + 1])
  BY <1>6, <1>9
<1> QED BY <1>0, <1>3, <1>8, <1>11, <1>12

\* What handle_conf_block() returns has the first lines of the body as its pairs.
LEMMA StartOfBody ==
  ASSUME NEW f, NEW a, NEW b, NEW g, NEW s, Closes(f, a, b, g, s), NEW sec \in HandleConfBlock(b)
  PROVE  Starts(sec.pairs, g, s)
<1>n. PICK q : q = Len(f)
  OBVIOUS
<1>b. /\ q \in Nat /\ a \in 1 .. q
      /\ b \in Seq(AllLines) /\ Len(b) = q - a + 1
      /\ \A j \in 1 .. (q - a + 1) : b[j].kind = "dash" => j = 1
  <2>1. InBlock(f, a, b)
    BY DEF Closes
  <2>2. /\ q \in Nat /\ a \in 1 .. q
        /\ b \in Seq(AllLines) /\ Len(b) = q - a + 1
        /\ \A j \in 1 .. (q - a + 1) : b[j] = f[a + j - 1] /\ (b[j].kind = "dash" => j = 1)
    BY <2>1, <1>n, BlockLines
  <2> QED BY <2>2
<1>m. PICK m \in Nat : m = q - a + 1
  BY <1>b
<1>1. PICK c \in Seq(AllLines) : c = BeforeHuge(b) /\ Len(c) <= Len(b) /\ \A j \in 1 .. Len(c) : c[j] = b[j]
  BY <1>b, BeforeHugeIs
<1>2. PICK p \in Nat : p = Len(c) /\ p <= m /\ \A j \in 1 .. p : j \in 1 .. m /\ c[j] = b[j]
  BY <1>1, <1>b, <1>m
<1>3. PICK lines \in Seq(AllLines) : lines = NoComments(c) /\ Selects(lines, c, p)
  BY <1>2, NoCommentsSelects
<1>4. PICK z \in Nat : /\ Len(sec.pairs) = z /\ DOMAIN sec.pairs = 1 .. z
                       /\ Len(lines) \in Nat /\ z + 1 <= Len(lines)
                       /\ \A x \in 1 .. z : sec.pairs[x] = Pair(lines[x + 1]) /\ IsPair(lines[x + 1])
  <2>1. b \in Seq(AllLines) /\ lines = NoComments(BeforeHuge(b))
    BY <1>1, <1>3, <1>b
  <2>2. LET kept == NoComments(BeforeHuge(b))
        IN \E z \in Nat : /\ z <= MaxNodeNum /\ Len(sec.pairs) = z /\ DOMAIN sec.pairs = 1 .. z
                          /\ Len(kept) \in Nat /\ z + 1 <= Len(kept)
                          /\ \A x \in 1 .. z : sec.pairs[x] = Pair(kept[x + 1]) /\ IsPair(kept[x + 1])
    BY <2>1, PairsOfLines
  <2> QED BY <2>1, <2>2
<1>5. PICK len \in Nat : len = Len(lines) /\ z + 1 <= len
  BY <1>4
<1>6. PICK h : Enumerates(h, len, Text(c, p)) /\ \A x \in 1 .. len : lines[x] = c[h[x]]
  BY <1>3, <1>5 DEF Selects
<1>7. \A x \in 1 .. len : h[x] \in Text(c, p) /\ h[x] \in 1 .. p /\ h[x] \in 1 .. m /\ lines[x] = b[h[x]]
  BY <1>2, <1>6 DEF Enumerates, Text
<1>8. \A x, y \in 1 .. len : x < y => h[x] < h[y]
  BY <1>6 DEF Enumerates
<1>9. PICK t \in 1 .. m : t = h[1] /\ t \in 1 .. p /\ t \in Text(c, p)
  BY <1>5, <1>7
<1>10. ASSUME NEW j \in Text(c, p) PROVE t <= j
  <2>1. PICK x \in 1 .. len : h[x] = j
    BY <1>6 DEF Enumerates
  <2>2. x = 1 \/ (1 < x /\ 1 \in 1 .. len)
    BY <1>5
  <2>3. 1 < x => t < j
    BY <1>8, <1>9, <2>1, <2>2
  <2>4. j \in Int
    BY DEF Text
  <2> QED BY <1>9, <2>1, <2>2, <2>3, <2>4
<1>11. t \in Text(b, m) /\ \A j \in Text(b, m) : t <= j
  <2>1. t \in Text(b, m)
    BY <1>2, <1>9 DEF Text
  <2>2. ASSUME NEW j \in Text(b, m) PROVE t <= j
    <3>1. j \in 1 .. m /\ ~ IsComment(b[j])
      BY DEF Text
    <3>2. CASE j \in 1 .. p
      <4>1. j \in Text(c, p)
        BY <1>2, <3>1, <3>2 DEF Text
      <4> QED BY <1>10, <4>1
    <3>3. CASE j \notin 1 .. p
      BY <1>2, <1>9, <3>1, <3>3
    <3> QED BY <3>2, <3>3
  <2> QED BY <2>1, <2>2
<1>12. Title(g, s) = a + t - 1
  <2>1. m = Len(b)
    BY <1>b, <1>m
  <2> QED BY <1>11, <2>1, TitleOfBlock
<1>13. s[2] - 1 = q
  <2>1. s = <<a, q + 1>>
    BY <1>n DEF Closes
  <2> QED BY <1>b, <2>1
<1>14. \A j \in 1 .. m : g[a + j - 1] = b[j]
  <2> SUFFICES ASSUME NEW j \in 1 .. (q - a + 1) PROVE g[a + j - 1] = b[j]
    BY <1>m
  <2> QED BY <1>n, NamedLines
<1>15. PICK tt \in Int : tt = Title(g, s) /\ tt = a + t - 1
  BY <1>b, <1>12
<1> DEFINE e == [x \in 1 .. z |-> a + h[x + 1] - 1]
           K == {e[x] : x \in 1 .. z}
<1>16. \A x \in 1 .. z : x + 1 \in 1 .. len /\ 1 < x + 1 /\ 1 \in 1 .. len
  BY <1>5
<1>17. ASSUME NEW x \in 1 .. z
       PROVE  /\ e[x] \in Body(g, s) /\ g[e[x]] = lines[x + 1] /\ e[x] \in Int
              /\ h[x + 1] \in 1 .. p /\ e[x] = a + h[x + 1] - 1
  <2>1. PICK j \in 1 .. m : j = h[x + 1] /\ j \in Text(c, p) /\ t < j /\ j \in 1 .. p /\ lines[x + 1] = b[j]
    BY <1>7, <1>8, <1>9, <1>16
  <2>2. PICK i \in Int : i = a + j - 1 /\ i = e[x]
    BY <1>b, <2>1
  <2> HIDE DEF e, K
  <2>3. i \in (tt + 1) .. q
    <3>1. a \in Int /\ q \in Int
      BY <1>b
    <3>2. i = a + j - 1 /\ tt = a + t - 1 /\ t < j /\ j <= q - a + 1
      BY <1>m, <1>15, <2>1, <2>2
    <3> QED BY <3>1, <3>2
  <2>4. g[i] = b[j]
    BY <1>14, <2>1, <2>2
  <2>5. b[j].kind # "comment"
    BY <1>2, <2>1 DEF Text, IsComment
  <2> QED BY <1>13, <1>15, <2>1, <2>2, <2>3, <2>4, <2>5 DEF Body
<1>18. ASSUME NEW x \in 1 .. z, NEW y \in 1 .. z, x < y PROVE e[x] < e[y]
  <2>1. x + 1 < y + 1
    BY <1>18
  <2>2. h[x + 1] < h[y + 1]
    BY <1>8, <1>16, <2>1
  <2>3. PICK u \in Int, v \in Int : u = h[x + 1] /\ v = h[y + 1] /\ e[x] = a + u - 1 /\ e[y] = a + v - 1
    BY <1>17
  <2> HIDE DEF e, K
  <2>4. a \in Int /\ u < v
    BY <1>b, <2>2, <2>3
  <2>5. a + u - 1 < a + v - 1
    BY <2>4
  <2> QED BY <2>3, <2>5
<1>19. ASSUME NEW k \in K, NEW i \in Body(g, s), i < k PROVE i \in K
  <2>1. PICK x \in 1 .. z : k = e[x]
    OBVIOUS
  <2>2. PICK u \in 1 .. p : u = h[x + 1] /\ k = a + u - 1
    BY <1>17, <2>1
  <2>3. i \in (tt + 1) .. q /\ g[i].kind # "comment"
    BY <1>13, <1>15 DEF Body
  <2>4. PICK j \in 1 .. m : i = a + j - 1 /\ t < j /\ j < u /\ j \in 1 .. p
    <3>1. PICK j \in Int : j = i - a + 1
      BY <1>b, <2>3
    <3>2. j \in 1 .. m /\ i = a + j - 1 /\ t < j
      BY <1>b, <1>m, <1>15, <2>3, <3>1
    <3>3. j < u /\ j \in 1 .. p
      <4> HIDE DEF e, K
      <4> QED BY <1>b, <1>2, <1>19, <2>2, <3>2
    <3> QED BY <3>2, <3>3
  <2>5. g[i] = b[j] /\ j # 1
    BY <1>14, <2>4
  <2>6. j \in Text(c, p)
    BY <1>b, <1>m, <1>2, <2>3, <2>4, <2>5 DEF Text, IsComment
  <2>7. PICK y \in 1 .. len : h[y] = j
    BY <1>6, <2>6 DEF Enumerates
  <2>8. y # 1
    BY <1>9, <2>4, <2>7
  <2>9. y < x + 1
    <3>1. x + 1 \in 1 .. len /\ (x + 1 < y => u < j) /\ (x + 1 = y => u = j)
      BY <1>8, <1>16, <2>2, <2>7
    <3> QED BY <2>4, <3>1
  <2>10. PICK w \in 1 .. z : w + 1 = y
    BY <2>8, <2>9
  <2>11. e[w] = i
    BY <2>4, <2>7, <2>10
  <2> QED BY <2>11
<1>20. e \in [1 .. z -> K] /\ \A k \in K : \E x \in 1 .. z : e[x] = k
  OBVIOUS
<1>21. K \in SUBSET Body(g, s)
  BY <1>17
<1>22. Enumerates(e, z, K)
  <2> HIDE DEF e, K
  <2> QED BY <1>18, <1>20 DEF Enumerates
<1>23. \A x \in 1 .. z : sec.pairs[x] = Pair(g[e[x]]) /\ IsPair(g[e[x]])
  BY <1>4, <1>17
<1> HIDE DEF e, K
<1> QED BY <1>4, <1>19, <1>21, <1>22, <1>23 DEF Starts

\* A value that get_value() finds is the first of its key in the section.
FirstsAgree(pairs, g, s) ==
  \A key : key # "@SWITCH" /\ GetValue(pairs, key) # {} => GetValue(pairs, key) = Says(g, s, key)

\* The first lines of the body hold the first of every key they hold.
LEMMA FirstIsFirst ==
  ASSUME NEW g, NEW s, NEW pairs, Body(g, s) \in SUBSET Nat, Starts(pairs, g, s)
  PROVE  FirstsAgree(pairs, g, s)
<1>1. PICK n \in Nat : \E K \in SUBSET Body(g, s) : \E h :
        /\ n = Len(pairs) /\ DOMAIN pairs = 1 .. n /\ Enumerates(h, n, K)
        /\ \A k \in K, i \in Body(g, s) : i < k => i \in K
        /\ \A x \in 1 .. n : pairs[x] = Pair(g[h[x]]) /\ IsPair(g[h[x]])
  BY DEF Starts
<1>2. PICK K \in SUBSET Body(g, s) : \E h :
        /\ DOMAIN pairs = 1 .. n /\ Enumerates(h, n, K)
        /\ \A k \in K, i \in Body(g, s) : i < k => i \in K
        /\ \A x \in 1 .. n : pairs[x] = Pair(g[h[x]]) /\ IsPair(g[h[x]])
  BY <1>1
<1>3. PICK h :
        /\ DOMAIN pairs = 1 .. n /\ Enumerates(h, n, K)
        /\ \A k \in K, i \in Body(g, s) : i < k => i \in K
        /\ \A x \in 1 .. n : pairs[x] = Pair(g[h[x]]) /\ IsPair(g[h[x]])
  BY <1>2
<1> SUFFICES ASSUME NEW key, key # "@SWITCH", GetValue(pairs, key) # {}
             PROVE  GetValue(pairs, key) = Says(g, s, key)
  BY DEF FirstsAgree
<1> DEFINE mine == {x \in DOMAIN pairs : pairs[x].key = key}
           said == {i \in (Title(g, s) + 1) .. (s[2] - 1) : g[i].kind = "pair" /\ g[i].key = key}
<1>4. GetValue(pairs, key) = IF mine = {} THEN {} ELSE {pairs[Min(mine)].val}
  BY DEF GetValue
<1>5. Says(g, s, key) = IF said = {} THEN {} ELSE {g[Min(said)].val}
  BY DEF Says
<1>6. said \in SUBSET Body(g, s) /\ said \in SUBSET Nat /\ mine \in SUBSET (1 .. n) /\ mine \in SUBSET Nat
  BY <1>3 DEF Body
<1>7. ASSUME NEW x \in 1 .. n
      PROVE  /\ h[x] \in K /\ h[x] \in Nat /\ (x \in mine <=> h[x] \in said)
             /\ x \in mine => pairs[x].val = g[h[x]].val
  <2>1. h[x] \in K /\ h[x] \in Body(g, s)
    BY <1>3 DEF Enumerates
  <2>2. h[x] \in (Title(g, s) + 1) .. (s[2] - 1) /\ g[h[x]].kind \in {"pair", "switch"}
    BY <1>3, <2>1 DEF Body, IsPair
  <2>3. pairs[x] = Pair(g[h[x]]) /\ x \in DOMAIN pairs
    BY <1>3
  <2>4. CASE g[h[x]].kind = "pair"
    <3>1. pairs[x].key = g[h[x]].key /\ pairs[x].val = g[h[x]].val
      BY <2>3, <2>4 DEF Pair
    <3> QED BY <2>1, <2>2, <2>3, <2>4, <3>1
  <2>5. CASE g[h[x]].kind = "switch"
    <3>1. pairs[x].key = "@SWITCH"
      BY <2>3, <2>5 DEF Pair
    <3> QED BY <2>1, <2>2, <2>3, <2>5, <3>1
  <2> QED BY <2>2, <2>4, <2>5
<1> HIDE DEF mine, said
<1>8. mine # {}
  BY <1>4
<1>9. PICK x \in 1 .. n : x = Min(mine) /\ x \in mine /\ \A y \in mine : x <= y
  BY <1>6, <1>8, MinIs
<1>10. h[x] \in said /\ h[x] \in K
  BY <1>7, <1>9
<1>11. ASSUME NEW i \in said PROVE h[x] <= i
  <2>1. i \in Nat /\ i \in Body(g, s) /\ h[x] \in Nat
    BY <1>6, <1>7
  <2>2. CASE i < h[x]
    <3>1. i \in K
      BY <1>3, <1>10, <2>1, <2>2
    <3>2. PICK y \in 1 .. n : h[y] = i
      BY <1>3, <3>1 DEF Enumerates
    <3>3. x <= y
      BY <1>7, <1>9, <3>2
    <3>4. x = y \/ x < y
      BY <3>3
    <3>5. x < y => h[x] < h[y]
      BY <1>3 DEF Enumerates
    <3> QED BY <2>1, <3>2, <3>4, <3>5
  <2> QED BY <2>1, <2>2
<1>12. Min(said) = h[x]
  BY <1>6, <1>10, <1>11, MinUnique
<1> QED BY <1>4, <1>5, <1>7, <1>8, <1>9, <1>10, <1>12

-----------------------------------------------------------------------------
(* The names of the entries, and what the first pair of a key says *)

\* The entry has the name of the section, and its values.
HeadedBy(entry, f, s) ==
  entry.section.name = TitleName(f, s) /\ FirstsAgree(entry.section.pairs, f, s)

\* UniqueNames, of any file.
Unique(f) == \A s, t \in Sections(f) : TitleName(f, s) = TitleName(f, t) => s = t

\* Every entry, that of a section which is not well-formed too, is headed by a section;
\* and no two have the same name, nor one a key in freed memory, if no two sections have.
NamesOK(entries, f) ==
  /\ \A k \in DOMAIN entries : \E s \in Sections(f) : HeadedBy(entries[k], f, s)
  /\ Unique(f) => \A k \in DOMAIN entries :
                    /\ ~ entries[k].dangling
                    /\ \A j \in DOMAIN entries : entries[j].section.name = entries[k].section.name => j = k

\* What a section says stays when another line follows.
LEMMA SaysStays ==
  ASSUME NEW f, NEW l, NEW g, NEW n, Grows(f, l, g, n),
         NEW s \in (1 .. n) \X (1 .. n), NEW key
  PROVE  Says(g, s, key) = Says(f, s, key)
<1>1. n \in Nat /\ \A i \in 1 .. n : g[i] = f[i]
  BY MoreLines
<1>2. PICK u \in 1 .. n, v \in 1 .. n : s = <<u, v>>
  OBVIOUS
<1>3. PICK t \in 0 .. n : Title(f, s) = t /\ Title(g, s) = t
  <2>1. Title(g, s) = Title(f, s) /\ (Title(f, s) = 0 \/ Title(f, s) \in 1 .. n)
    BY TitlesStay
  <2> QED BY <1>1, <2>1
<1>4. s[2] = v /\ \A i \in (t + 1) .. (v - 1) : i \in 1 .. n
  BY <1>1, <1>2
<1> DEFINE F == {i \in (t + 1) .. (v - 1) : f[i].kind = "pair" /\ f[i].key = key}
           G == {i \in (t + 1) .. (v - 1) : g[i].kind = "pair" /\ g[i].key = key}
<1>5. F = G /\ F \in SUBSET Nat /\ F \in SUBSET (1 .. n)
  BY <1>1, <1>4
<1>6. Says(f, s, key) = IF F = {} THEN {} ELSE {f[Min(F)].val}
  BY <1>3, <1>4 DEF Says
<1>7. Says(g, s, key) = IF G = {} THEN {} ELSE {g[Min(G)].val}
  BY <1>3, <1>4 DEF Says
<1> HIDE DEF F, G
<1>8. F # {} => Min(F) \in 1 .. n
  BY <1>5, MinIs
<1> QED BY <1>1, <1>5, <1>6, <1>7, <1>8

\* So an entry stays headed by its section,
LEMMA HeadStays ==
  ASSUME NEW f, NEW l, NEW g, NEW n, Grows(f, l, g, n), NEW s \in Sections(f), NEW entry, HeadedBy(entry, f, s)
  PROVE  HeadedBy(entry, g, s)
<1>1. s \in (1 .. n) \X (1 .. n)
  BY SectionsOld
<1>2. TitleName(g, s) = TitleName(f, s)
  BY <1>1, TitlesStay
<1>3. \A key : Says(g, s, key) = Says(f, s, key)
  BY <1>1, SaysStays
<1> QED BY <1>2, <1>3 DEF HeadedBy, FirstsAgree

\* and names that are unique were so before.
LEMMA UniqueBefore ==
  ASSUME NEW f, NEW l, NEW g, NEW n, Grows(f, l, g, n), Sections(f) \subseteq Sections(g), Unique(g)
  PROVE  Unique(f)
<1> SUFFICES ASSUME NEW s \in Sections(f), NEW t \in Sections(f), TitleName(f, s) = TitleName(f, t) PROVE s = t
  BY DEF Unique
<1>1. s \in (1 .. n) \X (1 .. n) /\ t \in (1 .. n) \X (1 .. n)
  BY SectionsOld
<1>2. TitleName(g, s) = TitleName(f, s) /\ TitleName(g, t) = TitleName(f, t)
  BY <1>1, TitlesStay
<1> QED BY <1>2 DEF Unique

\* A line that changes no entry.
LEMMA NamesStay ==
  ASSUME NEW f, NEW l, NEW g, NEW n, Grows(f, l, g, n), NEW entries, NamesOK(entries, f),
         Sections(f) \subseteq Sections(g)
  PROVE  /\ NamesOK(entries, g)
         /\ \A k \in DOMAIN entries : \E s \in Sections(f) : HeadedBy(entries[k], g, s)
<1>1. \A k \in DOMAIN entries : \E s \in Sections(f) : HeadedBy(entries[k], g, s)
  BY HeadStays DEF NamesOK
<1>2. Unique(g) => Unique(f)
  BY UniqueBefore
<1> QED BY <1>1, <1>2 DEF NamesOK

\* The line closes the section s, which gets an entry.
LEMMA NamesInserted ==
  ASSUME NEW f, NEW l, NEW g, NEW n, Grows(f, l, g, n),
         NEW S, NEW entries \in Seq(S), NamesOK(entries, f),
         NEW a, NEW b, NEW s, Closes(f, a, b, g, s), Sections(g) = Sections(f) \cup {s},
         s \notin (1 .. n) \X (1 .. n),
         NEW sec \in HandleConfBlock(b), NEW i \in Found(entries, sec.name)
  PROVE  NamesOK(Insert(entries, sec, i), g)
<1>1. Sections(f) \subseteq Sections(g) /\ s \notin Sections(f) /\ s \in Sections(g)
  BY SectionsOld
<1>2. NamesOK(entries, g) /\ \A k \in DOMAIN entries : \E t \in Sections(f) : HeadedBy(entries[k], g, t)
  BY <1>1, NamesStay
<1>3. sec.name = TitleName(g, s)
  BY NameIsTitle
<1>4. FirstsAgree(sec.pairs, g, s)
  <2>1. g \in Seq(AllLines)
    BY MoreLines
  <2>2. Body(g, s) \in SUBSET Nat
    BY <1>1, <2>1, SectionNumbers
  <2>3. Starts(sec.pairs, g, s)
    BY StartOfBody
  <2> QED BY <2>2, <2>3, FirstIsFirst
<1>5. i = 0 \/ (i \in DOMAIN entries /\ entries[i].section.name = TitleName(g, s))
  BY <1>3, FoundIs
<1>6. PICK new : new = Insert(entries, sec, i)
  OBVIOUS
<1>7. PICK p : Inserted(entries, new, sec, i, p)
  BY <1>5, <1>6, InsertAdds
<1>8. /\ DOMAIN new = DOMAIN entries \cup {p} /\ new[p].section = sec /\ (new[p].dangling => i # 0)
      /\ \A k \in DOMAIN entries : k # p => new[k] = entries[k]
      /\ p \in DOMAIN entries => i # 0 /\ p = i
  BY <1>7 DEF Inserted
<1>9. HeadedBy(new[p], g, s)
  BY <1>3, <1>4, <1>8 DEF HeadedBy
<1>10. ASSUME NEW k \in DOMAIN new PROVE \E t \in Sections(g) : HeadedBy(new[k], g, t)
  <2>1. CASE k = p
    BY <1>1, <1>9, <2>1
  <2>2. CASE k # p
    BY <1>1, <1>2, <1>8, <2>2
  <2> QED BY <2>1, <2>2
<1>11. ASSUME Unique(g), NEW k \in DOMAIN new
       PROVE  /\ ~ new[k].dangling
              /\ \A j \in DOMAIN new : new[j].section.name = new[k].section.name => j = k
  <2>1. \A j \in DOMAIN entries : entries[j].section.name # TitleName(g, s)
    BY <1>1, <1>2, <1>11 DEF Unique, HeadedBy
  <2>2. i = 0 /\ p \notin DOMAIN entries /\ ~ new[p].dangling
    BY <1>5, <1>8, <2>1
  <2>3. \A j \in DOMAIN entries : new[j] = entries[j]
    BY <1>8, <2>2
  <2>4. new[p].section.name = TitleName(g, s)
    BY <1>9 DEF HeadedBy
  <2> QED BY <1>2, <1>8, <1>11, <2>1, <2>2, <2>3, <2>4 DEF NamesOK
<1> QED BY <1>6, <1>10, <1>11 DEF NamesOK

\* Without entries.
LEMMA NoNames == ASSUME NEW f PROVE NamesOK(<< >>, f)
<1>1. DOMAIN << >> = {}
  OBVIOUS
<1> QED BY <1>1 DEF NamesOK

-----------------------------------------------------------------------------
(* The types of the reader *)

\* The types of the manager, and of the reader.
ManagerOK(m) ==
  /\ m.tab \in {"null", "live", "dead"} /\ m.init \in BOOLEAN /\ m.switch \in -1 .. 9 /\ m.count \in Nat
  /\ \E S : m.entries \in Seq(S)
  /\ Len(m.entries) <= m.count
  /\ \A i \in DOMAIN m.entries :
       Len(m.entries[i].section.pairs) \in Nat /\ Len(m.entries[i].section.pairs) <= MaxNodeNum

ReaderTypes ==
  /\ lib \in {"utils", "log"} /\ reading \in BOOLEAN
  /\ ret \in {0, REPEAT_INIT_ERR, OPEN_FILE_ERR, CONF_CLOSE_ALL}
  /\ process \in {"running", "exited", "undefined"}
  /\ ManagerOK(conf)

\* memset() and init_manager()
LEMMA ManagersAtFirst == ManagerOK(NullManager) /\ ManagerOK(FreshManager)
<1>1. << >> \in Seq({}) /\ DOMAIN << >> = {} /\ Len(<< >>) = 0
  OBVIOUS
<1>2. /\ NullManager.tab = "null" /\ NullManager.entries = << >> /\ NullManager.count = 0
      /\ NullManager.init = FALSE /\ NullManager.switch = 0
  BY DEF NullManager
<1>3. /\ FreshManager.tab = "live" /\ FreshManager.entries = << >> /\ FreshManager.count = 0
      /\ FreshManager.init = TRUE /\ FreshManager.switch = 1
  BY DEF FreshManager
<1>4. 0 \in -1 .. 9 /\ 1 \in -1 .. 9 /\ 0 \in Nat /\ 0 <= 0
  OBVIOUS
<1>5. ManagerOK(NullManager)
  BY <1>1, <1>2, <1>4 DEF ManagerOK
<1>6. ManagerOK(FreshManager)
  BY <1>1, <1>3, <1>4 DEF ManagerOK
<1> QED BY <1>5, <1>6

\* The table is destroyed.
LEMMA ManagerDestroyed ==
  ASSUME NEW m, ManagerOK(m), ManagerShape(m)
  PROVE  ManagerOK([m EXCEPT !.tab = "dead", !.entries = << >>])
<1>1. PICK d : d = [m EXCEPT !.tab = "dead", !.entries = << >>]
  OBVIOUS
<1>2. d.tab = "dead" /\ d.entries = << >> /\ d.count = m.count /\ d.init = m.init /\ d.switch = m.switch
  BY <1>1 DEF ManagerShape
<1>3. << >> \in Seq({}) /\ DOMAIN << >> = {} /\ Len(<< >>) = 0
  OBVIOUS
<1>4. m.count \in Nat /\ 0 <= m.count /\ m.init \in BOOLEAN /\ m.switch \in -1 .. 9
  BY DEF ManagerOK
<1>5. ManagerOK(d)
  BY <1>2, <1>3, <1>4 DEF ManagerOK
<1> QED BY <1>1, <1>5

\* '@': the digit is recorded.
LEMMA ManagerSwitched ==
  ASSUME NEW m, ManagerOK(m), ManagerShape(m), NEW d \in -1 .. 9
  PROVE  ManagerOK([m EXCEPT !.switch = d]) /\ ManagerShape([m EXCEPT !.switch = d])
<1>1. PICK e : e = [m EXCEPT !.switch = d]
  OBVIOUS
<1>2. e.tab = m.tab /\ e.entries = m.entries /\ e.count = m.count /\ e.init = m.init /\ e.switch = d
  BY <1>1 DEF ManagerShape
<1>3. ManagerShape(e)
  BY <1>1 DEF ManagerShape
<1>4. ManagerOK(e)
  BY <1>2 DEF ManagerOK
<1> QED BY <1>1, <1>3, <1>4

\* insert_new_node(): mode_count counts the new entry.
LEMMA ManagerInserts ==
  ASSUME NEW m, ManagerOK(m), ManagerShape(m), NEW sec, Len(sec.pairs) \in Nat, Len(sec.pairs) <= MaxNodeNum,
         NEW i \in Found(m.entries, sec.name)
  PROVE  ManagerOK([m EXCEPT !.entries = Insert(m.entries, sec, i), !.count = @ + 1])
<1>0. PICK S : m.entries \in Seq(S)
  BY DEF ManagerOK
<1>1. PICK new : new = Insert(m.entries, sec, i)
  OBVIOUS
<1>2. PICK e : e = [m EXCEPT !.entries = new, !.count = @ + 1]
  OBVIOUS
<1>3. e.tab = m.tab /\ e.entries = new /\ e.count = m.count + 1 /\ e.init = m.init /\ e.switch = m.switch
  BY <1>2 DEF ManagerShape
<1>4. i \in DOMAIN m.entries \cup {0}
  BY FoundIs
<1>5. PICK T : new \in Seq(T)
  BY <1>0, <1>1, <1>4, InsertAdds
<1>6. PICK p : Inserted(m.entries, new, sec, i, p)
  BY <1>0, <1>1, <1>4, InsertAdds
<1>7. \A k \in DOMAIN new : new[k].section = sec \/ (k \in DOMAIN m.entries /\ new[k] = m.entries[k])
  BY <1>6 DEF Inserted
<1>8. \A k \in DOMAIN new : Len(new[k].section.pairs) \in Nat /\ Len(new[k].section.pairs) <= MaxNodeNum
  BY <1>7 DEF ManagerOK
<1>9. Len(new) <= m.count + 1 /\ m.count + 1 \in Nat
  <2>1. PICK q \in Nat, c \in Nat : q = Len(m.entries) /\ c = m.count /\ q <= c
    BY <1>0 DEF ManagerOK
  <2>2. CASE i = 0
    <3>1. PICK x : new = Append(m.entries, x)
      BY <1>1, <2>2 DEF Insert
    <3>2. m.entries \in Seq(S \cup {x}) /\ x \in S \cup {x}
      BY <1>0, SeqMonotonic
    <3>3. Len(new) = q + 1
      BY <2>1, <3>1, <3>2, AppendProperties
    <3> QED BY <2>1, <3>3
  <2>3. CASE i # 0
    <3>1. DOMAIN new = DOMAIN m.entries
      BY <1>1, <2>3 DEF Insert
    <3>2. PICK r \in Nat : r = Len(new) /\ 1 .. r = 1 .. q
      BY <1>0, <1>5, <2>1, <3>1, LenProperties
    <3>3. r <= q
      <4>1. CASE r = 0
        BY <4>1
      <4>2. CASE r # 0
        <5>1. r \in 1 .. r
          BY <4>2
        <5>2. r \in 1 .. q
          BY <3>2, <5>1
        <5> QED BY <5>2
      <4> QED BY <4>1, <4>2
    <3> QED BY <2>1, <3>2, <3>3
  <2> QED BY <2>2, <2>3
<1>10. m.tab \in {"null", "live", "dead"} /\ m.init \in BOOLEAN /\ m.switch \in -1 .. 9
  BY DEF ManagerOK
<1>11. ManagerOK(e)
  BY <1>3, <1>5, <1>8, <1>9, <1>10 DEF ManagerOK
<1> QED BY <1>1, <1>2, <1>11

\* What the reader's errors are.
LEMMA RetCodes ==
  {0, REPEAT_INIT_ERR, OPEN_FILE_ERR, CONF_CLOSE_ALL} = {0, 3, 4, 9}
BY DEF REPEAT_INIT_ERR, OPEN_FILE_ERR, CONF_CLOSE_ALL

\* A line of the file.
LEMMA LinesKeepTypes ==
  ASSUME FileInv, ReaderTypes, NEW l \in Lines, ReadLine(l)
  PROVE  ReaderTypes'
<1>0. ManagerShape(conf) /\ ManagerOK(conf) /\ lib' = lib /\ ReadsLine(l)
  BY DEF FileInv, CloseInv, ReaderTypes, ReadsLine, ReadLine, ReadPlain, ReadSwitch, ReadStart, ReadEnd,
         ReadEndUndefined, ReadEndError
<1>1. CASE ReadPlain(l) \/ ReadStart(l) \/ ReadEndUndefined(l)
  BY <1>0, <1>1 DEF ReadPlain, ReadStart, ReadEndUndefined, ReaderTypes
<1>2. CASE ReadSwitch(l)
  <2>1. ManagerOK(Switched(0)) /\ ManagerShape(Switched(0))
    <3>1. 0 \in -1 .. 9
      OBVIOUS
    <3>2. ManagerOK([conf EXCEPT !.switch = 0]) /\ ManagerShape([conf EXCEPT !.switch = 0])
      BY <1>0, <3>1, ManagerSwitched
    <3> QED BY <1>0, <3>2 DEF Switched
  <2>2. ManagerOK(Switched(l.digit))
    <3>1. CASE lib = "log"
      <4>1. l.digit \in -1 .. 9
        BY <1>2, <3>1, ConfCoreAssumption DEF Lines, ReadSwitch
      <4> QED BY <1>0, <3>1, <4>1, ManagerSwitched DEF Switched
    <3>2. CASE lib # "log"
      BY <1>0, <3>2 DEF Switched
    <3> QED BY <3>1, <3>2
  <2>3. process' = process
    BY <1>2 DEF ReadSwitch
  <2>4. CASE Exit(CONF_CLOSE_ALL, Switched(0))
    <3>1. ManagerOK([Switched(0) EXCEPT !.tab = "dead", !.entries = << >>])
      BY <2>1, ManagerDestroyed
    <3>2. ManagerOK(conf') /\ reading' = FALSE /\ ret' = CONF_CLOSE_ALL
      BY <2>1, <2>4, <3>1 DEF Exit
    <3> QED BY <1>0, <2>3, <3>2 DEF ReaderTypes
  <2>5. CASE conf' = Switched(l.digit) /\ UNCHANGED <<reading, ret>>
    <3>1. ManagerOK(conf')
      BY <2>2, <2>5
    <3> QED BY <1>0, <2>3, <2>5, <3>1 DEF ReaderTypes
  <2> QED BY <1>2, <2>4, <2>5 DEF ReadSwitch
<1>3. CASE ReadEnd(l)
  <2>1. UNCHANGED <<reading, ret, process>>
    BY <1>3 DEF ReadEnd
  <2>2. CASE conf' = conf
    BY <1>0, <2>1, <2>2 DEF ReaderTypes
  <2>3. ASSUME NEW sec \in HandleConfBlock(block), NEW i \in Found(conf.entries, sec.name),
               conf' = [conf EXCEPT !.entries = Insert(conf.entries, sec, i), !.count = @ + 1]
        PROVE  ReaderTypes'
    <3>1. PICK a : InBlock(file, a, block)
      <4>1. BlockOK(file, block) /\ block # << >>
        BY <1>0, <1>3, NextLine DEF ReadEnd
      <4> QED BY <4>1 DEF BlockOK
    <3>2. block \in Seq(AllLines)
      BY <3>1, BlockLines
    <3>3. LET lines == NoComments(BeforeHuge(block))
          IN \E z \in Nat : /\ z <= MaxNodeNum /\ Len(sec.pairs) = z /\ DOMAIN sec.pairs = 1 .. z
                            /\ Len(lines) \in Nat /\ z + 1 <= Len(lines)
                            /\ \A x \in 1 .. z : sec.pairs[x] = Pair(lines[x + 1]) /\ IsPair(lines[x + 1])
      BY <3>2, PairsOfLines
    <3>4. Len(sec.pairs) \in Nat /\ Len(sec.pairs) <= MaxNodeNum
      BY <3>3
    <3>5. ManagerOK(conf')
      BY <1>0, <2>3, <3>4, ManagerInserts
    <3> QED BY <1>0, <2>1, <3>5 DEF ReaderTypes
  <2> QED BY <1>3, <2>2, <2>3 DEF ReadEnd
<1>4. CASE ReadEndError(l)
  <2>1. conf' = conf /\ reading' \in BOOLEAN /\ (ret' = ret \/ ret' = 0) /\ (process' = process \/ process' = "exited")
    BY <1>4 DEF ReadEndError, Exit, ReaderTypes
  <2>2. ret' \in {0, REPEAT_INIT_ERR, OPEN_FILE_ERR, CONF_CLOSE_ALL}
    BY <2>1, RetCodes DEF ReaderTypes
  <2> QED BY <1>0, <2>1, <2>2 DEF ReaderTypes
<1> QED BY <1>1, <1>2, <1>3, <1>4 DEF ReadLine

\* The reader's types are an invariant.
LEMMA TypesStep == FileInv /\ ReaderTypes /\ [Next]_vars => ReaderTypes'
<1> SUFFICES ASSUME FileInv, ReaderTypes, [Next]_vars PROVE ReaderTypes'
  OBVIOUS
<1>1. CASE OpenFile
  <2>1. conf' = FreshManager /\ reading' \in BOOLEAN /\ (ret' = ret \/ ret' = OPEN_FILE_ERR) /\ UNCHANGED <<lib, process>>
    BY <1>1 DEF OpenFile
  <2>2. ret' \in {0, REPEAT_INIT_ERR, OPEN_FILE_ERR, CONF_CLOSE_ALL} /\ ManagerOK(conf')
    BY <2>1, RetCodes, ManagersAtFirst DEF ReaderTypes
  <2> QED BY <2>1, <2>2 DEF ReaderTypes
<1>2. CASE RepeatInit
  BY <1>2, RetCodes DEF RepeatInit, ReaderTypes
<1>3. CASE EndOfFile
  <2>1. conf' = conf /\ reading' = FALSE /\ ret' = 0 /\ UNCHANGED <<lib, process>>
    BY <1>3 DEF EndOfFile, Exit
  <2> QED BY <2>1 DEF ReaderTypes
<1>4. CASE DestroyGlobalConfig
  <2>1. conf' = NullManager /\ UNCHANGED <<lib, reading, ret>> /\ process' \in {process, "undefined"}
    BY <1>4 DEF DestroyGlobalConfig, ClearedManager
  <2> QED BY <2>1, ManagersAtFirst DEF ReaderTypes
<1>5. CASE GetFreed
  BY <1>5 DEF GetFreed, ReaderTypes
<1>6. CASE \E l \in Lines : ReadLine(l)
  BY <1>6, LinesKeepTypes
<1>7. CASE LogFinishes
  <2>1. conf' = NullManager /\ UNCHANGED <<lib, reading, ret, process>>
    BY <1>7 DEF LogFinishes
  <2> QED BY <2>1, ManagersAtFirst DEF ReaderTypes
<1>8. CASE \E i \in todo : FillLogConfInfos(i) \/ FillFreedKey(i)
  <2>1. UNCHANGED <<conf, lib, reading, ret>> /\ process' \in {process, "exited", "undefined"}
    BY <1>8 DEF FillLogConfInfos, FillFreedKey
  <2> QED BY <2>1 DEF ReaderTypes
<1>9. CASE UNCHANGED coreVars \/ \E l \in Lines : RestOfFile(l)
  <2>1. UNCHANGED <<lib, conf, reading, ret, process>>
    BY <1>9 DEF coreVars, RestOfFile
  <2> QED BY <2>1 DEF ReaderTypes
<1> QED BY <1>1, <1>2, <1>3, <1>4, <1>5, <1>6, <1>7, <1>8, <1>9
        DEF Next, CoreNext, LogOpens, LogReads, LogConfInfosDestroy, vars

\* The names of the entries, if there are any.
NamesInv == NamesOK(conf.entries, file)

\* A line of the file.
LEMMA LinesKeepNames ==
  ASSUME FileInv, ReaderTypes, NamesInv, NEW l \in Lines, ReadLine(l)
  PROVE  NamesInv'
<1>0. ReadsLine(l) /\ ManagerShape(conf)
  BY DEF FileInv, CloseInv, ReadLine, ReadPlain, ReadSwitch, ReadStart, ReadEnd, ReadEndUndefined, ReadEndError
<1>1. Grows(file, l, file', Len(file)) /\ BlockOK(file, block)
  BY <1>0, NextLine
<1>2. PICK n : n = Len(file) /\ Grows(file, l, file', n)
  BY <1>1
<1>3. ASSUME Sections(file) \subseteq Sections(file'), conf'.entries = conf.entries \/ conf'.entries = << >>
      PROVE  NamesInv'
  <2>1. NamesOK(conf.entries, file')
    BY <1>2, <1>3, NamesStay DEF NamesInv
  <2> QED BY <1>3, <2>1, NoNames DEF NamesInv
<1>4. CASE ReadPlain(l) \/ ReadSwitch(l)
  <2>1. l.kind # "dash"
    BY <1>4 DEF ReadPlain, ReadSwitch
  <2>2. Sections(file') = Sections(file)
    BY <1>1, <2>1, PlainLine
  <2>3. conf'.entries = conf.entries \/ conf'.entries = << >>
    BY <1>0, <1>4, LineTable
  <2> QED BY <1>3, <2>2, <2>3
<1>5. CASE ReadStart(l)
  <2>1. l.kind = "dash" /\ block = << >> /\ conf' = conf
    BY <1>5 DEF ReadStart
  <2>2. Sections(file') = Sections(file)
    BY <1>1, <2>1, StartLine
  <2> QED BY <1>3, <2>1, <2>2
<1>6. CASE ReadEndError(l)
  <2>1. l.kind = "dash" /\ block # << >> /\ l.name # "end" /\ conf' = conf
    BY <1>6 DEF ReadEndError, Exit
  <2>2. Sections(file') = Sections(file)
    BY <1>1, <2>1, WrongLine
  <2> QED BY <1>3, <2>1, <2>2
<1>7. CASE ReadEnd(l) \/ ReadEndUndefined(l)
  <2>1. l.kind = "dash" /\ l.name = "end" /\ block # << >>
    BY <1>7 DEF ReadEnd, ReadEndUndefined
  <2>2. \E s : (\E a : Closes(file, a, block, file', s)) /\ Sections(file') = Sections(file) \cup {s}
                   /\ s \notin (1 .. n) \X (1 .. n)
    BY <1>1, <1>2, <2>1, EndLine
  <2>3. PICK s, a : /\ Closes(file, a, block, file', s) /\ Sections(file') = Sections(file) \cup {s}
                    /\ s \notin (1 .. n) \X (1 .. n)
    BY <2>2
  <2>4. CASE conf' = conf
    BY <1>3, <2>3, <2>4
  <2>5. ASSUME NEW sec \in HandleConfBlock(block), NEW i \in Found(conf.entries, sec.name),
               conf' = [conf EXCEPT !.entries = Insert(conf.entries, sec, i), !.count = @ + 1]
        PROVE  NamesInv'
    <3>1. conf'.tab = conf.tab /\ conf'.entries = Insert(conf.entries, sec, i)
      BY <1>0, <2>5 DEF ManagerShape
    <3> SUFFICES NamesOK(Insert(conf.entries, sec, i), file')
      BY <3>1 DEF NamesInv
    <3>2. NamesOK(conf.entries, file)
      BY DEF NamesInv
    <3>3. PICK S : conf.entries \in Seq(S)
      BY DEF ReaderTypes, ManagerOK
    <3> QED BY <1>2, <2>3, <3>2, <3>3, NamesInserted
  <2> QED BY <1>7, <2>4, <2>5 DEF ReadEnd, ReadEndUndefined
<1> QED BY <1>4, <1>5, <1>6, <1>7 DEF ReadLine

\* The names are an invariant.
LEMMA NamesStep == FileInv /\ ReaderTypes /\ NamesInv /\ [Next]_vars => NamesInv'
<1> SUFFICES ASSUME FileInv, ReaderTypes, NamesInv, [Next]_vars PROVE NamesInv'
  OBVIOUS
<1>1. CASE OpenFile
  <2>1. conf'.entries = << >>
    BY <1>1 DEF OpenFile, FreshManager
  <2> QED BY <2>1, NoNames DEF NamesInv
<1>2. CASE UNCHANGED <<conf, file>>
  BY <1>2 DEF NamesInv
<1>3. CASE EndOfFile
  <2>1. conf' = conf /\ file' = file
    BY <1>3 DEF EndOfFile, Exit
  <2> QED BY <2>1 DEF NamesInv
<1>4. CASE DestroyGlobalConfig \/ LogFinishes
  <2>1. conf'.entries = << >>
    BY <1>4 DEF DestroyGlobalConfig, ClearedManager, NullManager, LogFinishes
  <2> QED BY <2>1, NoNames DEF NamesInv
<1>5. CASE \/ RepeatInit \/ GetFreed \/ LogConfInfosDestroy \/ UNCHANGED vars
           \/ \E i \in todo : FillLogConfInfos(i) \/ FillFreedKey(i)
  <2>1. UNCHANGED <<conf, file>>
    BY <1>5 DEF RepeatInit, GetFreed, LogConfInfosDestroy, vars, coreVars, FillLogConfInfos, FillFreedKey
  <2> QED BY <1>2, <2>1
<1>6. CASE \E l \in Lines : ReadLine(l)
  BY <1>6, LinesKeepNames
<1>7. ASSUME NEW l \in Lines, RestOfFile(l) PROVE NamesInv'
  <2>1. file' = Append(file, l) /\ lib' = lib /\ conf' = conf /\ Misplaced(file) # {}
    BY <1>7 DEF RestOfFile
  <2>2. Grows(file, l, file', Len(file))
    BY <2>1, LongerFile
  <2>3. Sections(file') = Sections(file)
    BY <2>1, <2>2, RestLine
  <2>4. NamesOK(conf.entries, file')
    BY <2>2, <2>3, NamesStay DEF NamesInv
  <2> QED BY <2>1, <2>4 DEF NamesInv
<1> QED BY <1>1, <1>3, <1>4, <1>5, <1>6, <1>7 DEF Next, CoreNext, LogOpens, LogReads

-----------------------------------------------------------------------------
(* The array of the log library, while the sections are visited *)

\* The entry that rules the log named by the section.
EntryFor(section, i) ==
  /\ section.name \in DOMAIN i.names /\ i.names[section.name] >= INFOS_ID_START
  /\ i.sinfo[i.names[section.name]] = InfoFromPairs(section.name, section.pairs)

\* The array after the entries V of the table have been visited.
Filled(entries, V, i) ==
  /\ \A k \in V : entries[k].section.name # TOTAL_SWITCH => EntryFor(entries[k].section, i)
  /\ \A x \in DOMAIN i.names : x \in {DEFAULT_NAME, TOTAL_SWITCH} \/ \E k \in V : entries[k].section.name = x
  /\ i.sinfo[INFOS_ID_DEFAULT] = DefaultInfo(DEFAULT_NAME)
  /\ InfoShape(i.sinfo[INFOS_ID_CTL])
  /\ (\A k \in V : entries[k].section.name # TOTAL_SWITCH) => i.sinfo[INFOS_ID_TOTAL_SWITCH].is_valid = 0
  /\ \A k \in V : entries[k].section.name = TOTAL_SWITCH =>
       GetValue(entries[k].section.pairs, "IS_VALID") = {i.sinfo[INFOS_ID_TOTAL_SWITCH].is_valid}

\* lci_add_info() writes one entry and one name.
Added(i, new, info, id) ==
  /\ DOMAIN new.names = DOMAIN i.names \cup {info.name} /\ new.names[info.name] = id
  /\ \A x \in DOMAIN i.names : x # info.name => new.names[x] = i.names[x]
  /\ new.sinfo[id] = info
  /\ \A k \in DOMAIN i.sinfo : k # id => new.sinfo[k] = i.sinfo[k]

\* An ordinary section takes the next id, the total switch its own.
LEMMA InfoAdded ==
  ASSUME NEW n \in Nat, HasEntries(infos, n), NEW info
  PROVE  /\ Added(infos, AddInfo(info, INFOS_ID_START), info, n)
         /\ Added(infos, AddInfo(info, INFOS_ID_TOTAL_SWITCH), info, INFOS_ID_TOTAL_SWITCH)
<1>1. NumInfos = n
  BY CountOfEntries DEF NumInfos, HasEntries
<1>2. ASSUME NEW id, NEW new,
             new = [alloc |-> Grown, sinfo |-> With(infos.sinfo, id, info), names |-> With(infos.names, info.name, id)]
      PROVE  Added(infos, new, info, id)
  <2>1. new.sinfo = With(infos.sinfo, id, info) /\ new.names = With(infos.names, info.name, id)
    BY <1>2
  <2> QED BY <2>1 DEF With, Added
<1>3. AddInfo(info, INFOS_ID_START) =
        [alloc |-> Grown, sinfo |-> With(infos.sinfo, n, info), names |-> With(infos.names, info.name, n)]
  <2>1. INFOS_ID_START >= INFOS_ID_START
    BY DEF INFOS_ID_START
  <2> QED BY <1>1, <2>1 DEF AddInfo
<1>4. AddInfo(info, INFOS_ID_TOTAL_SWITCH) =
        [alloc |-> Grown, sinfo |-> With(infos.sinfo, INFOS_ID_TOTAL_SWITCH, info),
         names |-> With(infos.names, info.name, INFOS_ID_TOTAL_SWITCH)]
  <2>1. ~ (INFOS_ID_TOTAL_SWITCH >= INFOS_ID_START)
    BY DEF INFOS_ID_START, INFOS_ID_TOTAL_SWITCH
  <2> QED BY <2>1 DEF AddInfo
<1> QED BY <1>2, <1>3, <1>4

\* No two entries have the same name.
Distinct(entries) ==
  \A j, k \in DOMAIN entries : entries[j].section.name = entries[k].section.name => j = k

\* An entry of an ordinary section that stays: no id is used twice.
LEMMA EntryForStays ==
  ASSUME NEW i, NEW n \in Nat, HasEntries(i, n), NEW new, NEW info, NEW id, Added(i, new, info, id),
         id = n \/ id = INFOS_ID_TOTAL_SWITCH, NEW section, EntryFor(section, i), section.name # info.name
  PROVE  EntryFor(section, new)
<1>1. PICK d : d = i.names[section.name] /\ d \in 0 .. (n - 1) /\ d >= INFOS_ID_START
  BY DEF EntryFor, HasEntries
<1>2. d # id
  BY <1>1 DEF INFOS_ID_START, INFOS_ID_TOTAL_SWITCH
<1>3. new.names[section.name] = d /\ section.name \in DOMAIN new.names
  BY <1>1 DEF Added, EntryFor
<1>4. new.sinfo[d] = i.sinfo[d]
  BY <1>1, <1>2 DEF Added, HasEntries
<1> QED BY <1>1, <1>3, <1>4 DEF EntryFor

\* fill_log_conf_infos() of an ordinary section,
LEMMA FillsOrdinary ==
  ASSUME NEW entries, Distinct(entries), NEW V \in SUBSET DOMAIN entries, NEW k \in DOMAIN entries, k \notin V,
         NEW i, NEW n \in Nat, n >= INFOS_ID_START, HasEntries(i, n), Filled(entries, V, i),
         entries[k].section.name # TOTAL_SWITCH, NEW info, NEW new, Added(i, new, info, n),
         info = InfoFromPairs(entries[k].section.name, entries[k].section.pairs),
         info.name = entries[k].section.name
  PROVE  Filled(entries, V \cup {k}, new)
<1>1. EntryFor(entries[k].section, new)
  BY DEF EntryFor, Added
<1>2. ASSUME NEW j \in V, entries[j].section.name # TOTAL_SWITCH PROVE EntryFor(entries[j].section, new)
  <2>1. EntryFor(entries[j].section, i)
    BY <1>2 DEF Filled
  <2>2. entries[j].section.name # info.name
    BY DEF Distinct
  <2> QED BY <2>1, <2>2, EntryForStays
<1>3. \A x \in DOMAIN new.names :
        x \in {DEFAULT_NAME, TOTAL_SWITCH} \/ \E j \in V \cup {k} : entries[j].section.name = x
  BY DEF Added, Filled
<1>4. \A d \in {0, 1, 2} : new.sinfo[d] = i.sinfo[d]
  <2>1. \A d \in {0, 1, 2} : d \in 0 .. (n - 1) /\ d # n
    BY DEF INFOS_ID_START
  <2> QED BY <2>1 DEF Added, HasEntries
<1>5. {INFOS_ID_DEFAULT, INFOS_ID_CTL, INFOS_ID_TOTAL_SWITCH} = {0, 1, 2}
  BY DEF INFOS_ID_DEFAULT, INFOS_ID_CTL, INFOS_ID_TOTAL_SWITCH
<1>6. /\ new.sinfo[INFOS_ID_DEFAULT] = i.sinfo[INFOS_ID_DEFAULT]
      /\ new.sinfo[INFOS_ID_CTL] = i.sinfo[INFOS_ID_CTL]
      /\ new.sinfo[INFOS_ID_TOTAL_SWITCH] = i.sinfo[INFOS_ID_TOTAL_SWITCH]
  BY <1>4, <1>5
<1>7. (\A j \in V \cup {k} : entries[j].section.name # TOTAL_SWITCH) => new.sinfo[INFOS_ID_TOTAL_SWITCH].is_valid = 0
  BY <1>6 DEF Filled
<1>8. \A j \in V \cup {k} : entries[j].section.name = TOTAL_SWITCH =>
        GetValue(entries[j].section.pairs, "IS_VALID") = {new.sinfo[INFOS_ID_TOTAL_SWITCH].is_valid}
  BY <1>6 DEF Filled
<1>9. new.sinfo[INFOS_ID_DEFAULT] = DefaultInfo(DEFAULT_NAME) /\ InfoShape(new.sinfo[INFOS_ID_CTL])
  BY <1>6 DEF Filled
<1>10. \A j \in V \cup {k} : entries[j].section.name # TOTAL_SWITCH => EntryFor(entries[j].section, new)
  BY <1>1, <1>2
<1> QED BY <1>3, <1>7, <1>8, <1>9, <1>10 DEF Filled

\* and of TOTAL_SWITCH.
LEMMA FillsTotal ==
  ASSUME NEW entries, Distinct(entries), NEW V \in SUBSET DOMAIN entries, NEW k \in DOMAIN entries, k \notin V,
         NEW i, NEW n \in Nat, n >= INFOS_ID_START, HasEntries(i, n), Filled(entries, V, i),
         entries[k].section.name = TOTAL_SWITCH, NEW info, NEW new, Added(i, new, info, INFOS_ID_TOTAL_SWITCH),
         info.name = TOTAL_SWITCH, GetValue(entries[k].section.pairs, "IS_VALID") = {info.is_valid}
  PROVE  Filled(entries, V \cup {k}, new)
<1>1. \A j \in V : entries[j].section.name # TOTAL_SWITCH
  BY DEF Distinct
<1>2. ASSUME NEW j \in V PROVE EntryFor(entries[j].section, new)
  <2>1. EntryFor(entries[j].section, i)
    BY <1>1 DEF Filled
  <2>2. entries[j].section.name # info.name
    BY <1>1
  <2> QED BY <2>1, <2>2, EntryForStays
<1>3. \A x \in DOMAIN new.names :
        x \in {DEFAULT_NAME, TOTAL_SWITCH} \/ \E j \in V \cup {k} : entries[j].section.name = x
  BY DEF Added, Filled
<1>4. \A d \in {0, 2} : new.sinfo[d] = i.sinfo[d]
  <2>1. \A d \in {0, 2} : d \in 0 .. (n - 1) /\ d # INFOS_ID_TOTAL_SWITCH
    BY DEF INFOS_ID_START, INFOS_ID_TOTAL_SWITCH
  <2> QED BY <2>1 DEF Added, HasEntries
<1>5. {INFOS_ID_DEFAULT, INFOS_ID_CTL} = {0, 2}
  BY DEF INFOS_ID_DEFAULT, INFOS_ID_CTL
<1>6. new.sinfo[INFOS_ID_DEFAULT] = DefaultInfo(DEFAULT_NAME) /\ InfoShape(new.sinfo[INFOS_ID_CTL])
  BY <1>4, <1>5 DEF Filled
<1>7. new.sinfo[INFOS_ID_TOTAL_SWITCH] = info
  BY DEF Added
<1> QED BY <1>1, <1>2, <1>3, <1>6, <1>7 DEF Filled

\* log_switch is written to.
LEMMA SwitchWritten ==
  ASSUME NEW r, InfoShape(r), NEW x PROVE InfoShape([r EXCEPT !.log_switch = x])
<1>1. PICK e : e = [r EXCEPT !.log_switch = x]
  OBVIOUS
<1>2. InfoFields(r, r.name, r.log_switch, r.is_valid, r.timer, r.list, r.number)
  BY DEF InfoShape
<1>3. InfoFields(e, r.name, x, r.is_valid, r.timer, r.list, r.number)
  BY <1>1, <1>2, FieldWritten
<1>4. /\ e.list = r.list /\ e.number = r.number
      /\ InfoFields(e, e.name, e.log_switch, e.is_valid, e.timer, e.list, e.number)
  BY <1>3, FieldsAre
<1>5. InfoShape(e)
  BY <1>4 DEF InfoShape
<1> QED BY <1>1, <1>5

\* log_conf_infos_init()
LEMMA FilledAtFirst ==
  ASSUME NEW entries PROVE Filled(entries, {}, InitialInfos)
<1>1. /\ InitialInfos.sinfo[0] = [ZeroInfo EXCEPT !.log_switch = 1]
      /\ InitialInfos.sinfo[1] = DefaultInfo("") /\ InitialInfos.sinfo[2] = DefaultInfo(DEFAULT_NAME)
      /\ DOMAIN InitialInfos.names = {DEFAULT_NAME}
  BY DEF InitialInfos, INFOS_ID_CTL, INFOS_ID_TOTAL_SWITCH, INFOS_ID_DEFAULT
<1>2. InfoShape([ZeroInfo EXCEPT !.log_switch = 1])
  <2>1. InfoShape([ZeroInfo EXCEPT !.name = ""])
    BY ZerosFirst
  <2>2. [ZeroInfo EXCEPT !.name = ""] = ZeroInfo
    <3>1. PICK zeros, none : InfoFields(ZeroInfo, "", 0, 0, 0, zeros, none)
      BY DEF ZeroInfo, InfoFields
    <3>2. InfoFields([ZeroInfo EXCEPT !.name = ""], "", 0, 0, 0, zeros, none)
      BY <3>1, FieldWritten
    <3> QED BY <3>1, <3>2 DEF InfoFields
  <2>3. InfoShape(ZeroInfo)
    BY <2>1, <2>2
  <2> QED BY <2>3, SwitchWritten
<1>3. DefaultInfo("").is_valid = 0
  BY DEF DefaultInfo, ZeroInfo
<1> QED BY <1>1, <1>2, <1>3 DEF Filled, INFOS_ID_CTL, INFOS_ID_TOTAL_SWITCH, INFOS_ID_DEFAULT

\* Only the control entry is written to.
OnlyCtl(i, j, n) ==
  j.names = i.names /\ \A d \in 1 .. (n - 1) : j.sinfo[d] = i.sinfo[d]

\* Writing to log_switch or is_valid of the control entry.
LEMMA CtlWritten ==
  ASSUME InfosShape(infos), NEW n \in Nat, n >= INFOS_ID_START, HasEntries(infos, n),
         InfoShape(infos.sinfo[INFOS_ID_CTL]), NEW x
  PROVE  /\ LET new == [infos EXCEPT !.sinfo[INFOS_ID_CTL].log_switch = x]
            IN OnlyCtl(infos, new, n) /\ InfoShape(new.sinfo[INFOS_ID_CTL])
         /\ LET new == [infos EXCEPT !.sinfo[INFOS_ID_CTL].is_valid = x]
            IN OnlyCtl(infos, new, n) /\ new.sinfo[INFOS_ID_CTL].is_valid = x
<1>1. PICK r : r = infos.sinfo[INFOS_ID_CTL] /\ InfoShape(r)
  OBVIOUS
<1>2. INFOS_ID_CTL \in DOMAIN infos.sinfo /\ INFOS_ID_CTL \notin 1 .. (n - 1) /\ 1 .. (n - 1) \subseteq DOMAIN infos.sinfo
  BY DEF INFOS_ID_CTL, INFOS_ID_START, HasEntries
<1>3. ASSUME NEW e, NEW new, new = [infos EXCEPT !.sinfo[INFOS_ID_CTL] = e]
      PROVE  OnlyCtl(infos, new, n) /\ new.sinfo[INFOS_ID_CTL] = e
  <2>1. new.names = infos.names /\ new.sinfo = [infos.sinfo EXCEPT ![INFOS_ID_CTL] = e]
    BY <1>3 DEF InfosShape
  <2> QED BY <1>2, <2>1 DEF OnlyCtl
<1>4. InfoShape([r EXCEPT !.log_switch = x])
  BY <1>1, SwitchWritten
<1>5. [r EXCEPT !.is_valid = x].is_valid = x
  <2>2. InfoFields(r, r.name, r.log_switch, r.is_valid, r.timer, r.list, r.number)
    BY <1>1 DEF InfoShape
  <2>3. InfoFields([r EXCEPT !.is_valid = x], r.name, r.log_switch, x, r.timer, r.list, r.number)
    BY <2>2, FieldWritten
  <2> QED BY <2>3, FieldsAre
<1>6. /\ [infos EXCEPT !.sinfo[INFOS_ID_CTL].log_switch = x] =
           [infos EXCEPT !.sinfo[INFOS_ID_CTL] = [r EXCEPT !.log_switch = x]]
      /\ [infos EXCEPT !.sinfo[INFOS_ID_CTL].is_valid = x] =
           [infos EXCEPT !.sinfo[INFOS_ID_CTL] = [r EXCEPT !.is_valid = x]]
  BY <1>1
<1> QED BY <1>3, <1>4, <1>5, <1>6

\* The copy of log_switch changes nothing else.
LEMMA FilledStays ==
  ASSUME NEW entries, NEW V, NEW i, NEW n \in Nat, n >= INFOS_ID_START, HasEntries(i, n), Filled(entries, V, i),
         NEW j, OnlyCtl(i, j, n), InfoShape(j.sinfo[INFOS_ID_CTL])
  PROVE  Filled(entries, V, j)
<1>1. 1 \in 1 .. (n - 1) /\ 2 \in 1 .. (n - 1)
  BY DEF INFOS_ID_START
<1>2. /\ j.names = i.names
      /\ j.sinfo[INFOS_ID_DEFAULT] = i.sinfo[INFOS_ID_DEFAULT]
      /\ j.sinfo[INFOS_ID_TOTAL_SWITCH] = i.sinfo[INFOS_ID_TOTAL_SWITCH]
  BY <1>1 DEF OnlyCtl, INFOS_ID_DEFAULT, INFOS_ID_TOTAL_SWITCH
<1>3. ASSUME NEW section, EntryFor(section, i) PROVE EntryFor(section, j)
  <2>1. PICK d : d = i.names[section.name] /\ d \in 0 .. (n - 1) /\ d >= INFOS_ID_START
    BY <1>3 DEF EntryFor, HasEntries
  <2>2. d \in 1 .. (n - 1)
    BY <2>1 DEF INFOS_ID_START
  <2>3. j.sinfo[d] = i.sinfo[d]
    BY <2>2 DEF OnlyCtl
  <2> QED BY <1>2, <1>3, <2>1, <2>3 DEF EntryFor
<1> QED BY <1>2, <1>3 DEF Filled

\* Where get_log_conf_infos() is.
StageInv ==
  /\ stage \in {"new", "reading", "filling", "done", "destroyed"}
  /\ stage # "new" => lib = "log"
  /\ stage \in {"new", "reading"} => todo = {}
  /\ stage \in {"reading", "filling"} => conf.tab = "live"
  /\ stage = "reading" => infos = InitialInfos
  /\ stage = "filling" => todo \subseteq DOMAIN conf.entries /\ (ret # 0 => todo = {})

\* The entries of the table that were visited: none when the reader failed.
Visited == IF ret = 0 THEN DOMAIN conf.entries \ todo ELSE {}

FillInv == stage = "filling" /\ process = "running" /\ Unique(file) => Filled(conf.entries, Visited, infos)

\* Strengthening of EntriesAsWritten: between two visits the array has the entries of the
\* sections that were visited.
EntryInv ==
  /\ FileInv /\ ArrayInv /\ ReaderTypes /\ NamesInv /\ StageInv /\ FillInv
  /\ SectionRulesItsLog /\ TotalSwitchAsWritten

\* A line of the log library's file: the reading goes on, or stops with an error.
LEMMA LogLine ==
  ASSUME lib = "log", ManagerShape(conf), NEW l,
         ReadLine(l)
  PROVE  conf'.tab = conf.tab /\ lib' = lib /\ (reading' \/ ret' # 0)
<1>1. reading /\ lib' = lib
  BY DEF ReadLine, ReadsLine, ReadPlain, ReadSwitch, ReadStart, ReadEnd, ReadEndUndefined, ReadEndError
<1>2. CASE ReadPlain(l) \/ ReadStart(l) \/ ReadEndUndefined(l) \/ ReadEndError(l)
  BY <1>1, <1>2 DEF ReadPlain, ReadStart, ReadEndUndefined, ReadEndError
<1>3. CASE ReadSwitch(l)
  <2>1. Switched(l.digit).tab = conf.tab /\ Switched(0).tab = conf.tab
    BY DEF ManagerShape, Switched
  <2>2. CASE Exit(CONF_CLOSE_ALL, Switched(0))
    <3>1. conf' = Switched(0) /\ ret' = 9
      BY <2>2 DEF Exit, CONF_CLOSE_ALL
    <3> QED BY <1>1, <2>1, <3>1
  <2>3. CASE conf' = Switched(l.digit) /\ UNCHANGED reading
    BY <1>1, <2>1, <2>3
  <2> QED BY <1>3, <2>2, <2>3 DEF ReadSwitch
<1>4. CASE ReadEnd(l)
  <2>1. reading' = reading
    BY <1>4 DEF ReadEnd
  <2>2. CASE conf' = conf
    BY <1>1, <2>1, <2>2
  <2>3. CASE \E e, n : conf' = [conf EXCEPT !.entries = e, !.count = n]
    BY <1>1, <2>1, <2>3 DEF ManagerShape
  <2> QED BY <1>4, <2>2, <2>3 DEF ReadEnd
<1> QED BY <1>2, <1>3, <1>4 DEF ReadLine

\* The steps of get_log_conf_infos() that read.
LEMMA LogSteps ==
  ASSUME lib = "log", ManagerShape(conf), LogReads
  PROVE  /\ conf'.tab = conf.tab /\ lib' = lib /\ stage' \in {"reading", "filling"}
         /\ \/ UNCHANGED <<infos, todo>> /\ (stage' = "filling" => ret' # 0)
            \/ /\ stage' = "filling" /\ ret' = 0 /\ todo' = DOMAIN conf'.entries
               /\ infos' = [infos EXCEPT !.sinfo[INFOS_ID_CTL].log_switch = conf.switch]
<1>1. CASE EndOfFile
  <2>1. conf' = conf /\ lib' = lib /\ ~ reading' /\ ret' = 0
    BY <1>1 DEF EndOfFile, Exit
  <2> QED BY <2>1 DEF LogReads
<1>2. CASE \E l \in Lines : ReadLine(l)
  <2>1. conf'.tab = conf.tab /\ lib' = lib /\ (reading' \/ ret' # 0)
    BY <1>2, LogLine
  <2> QED BY <2>1 DEF LogReads
<1> QED BY <1>1, <1>2 DEF LogReads

\* The stages are an invariant.
LEMMA StageStep == FileInv /\ StageInv /\ [Next]_vars => StageInv'
<1> SUFFICES ASSUME FileInv, StageInv, [Next]_vars PROVE StageInv'
  OBVIOUS
<1>0. ManagerShape(conf)
  BY DEF FileInv, CloseInv
<1>1. CASE lib = "utils" /\ CoreNext /\ UNCHANGED <<infos, stage, todo>>
  <2>1. stage = "new" /\ stage' = "new" /\ todo' = {}
    BY <1>1 DEF StageInv
  <2> QED BY <2>1 DEF StageInv
<1>2. CASE LogOpens
  <2>1. /\ conf'.tab = "live" /\ lib' = "log" /\ todo' = {} /\ infos' = InitialInfos
        /\ stage' \in {"reading", "filling"}
    BY <1>2 DEF LogOpens, OpenFile, FreshManager, StageInv
  <2> QED BY <2>1 DEF StageInv
<1>3. CASE LogReads
  <2>0. lib = "log" /\ stage = "reading" /\ todo = {} /\ infos = InitialInfos /\ conf.tab = "live"
    BY <1>3 DEF LogReads, StageInv
  <2>1. /\ conf'.tab = conf.tab /\ lib' = lib /\ stage' \in {"reading", "filling"}
        /\ \/ UNCHANGED <<infos, todo>> /\ (stage' = "filling" => ret' # 0)
           \/ /\ stage' = "filling" /\ ret' = 0 /\ todo' = DOMAIN conf'.entries
              /\ infos' = [infos EXCEPT !.sinfo[INFOS_ID_CTL].log_switch = conf.switch]
    BY <1>0, <1>3, <2>0, LogSteps
  <2>2. stage' = "reading" => UNCHANGED <<infos, todo>>
    BY <2>1
  <2>3. todo' \subseteq DOMAIN conf'.entries /\ (ret' # 0 => todo' = {})
    BY <2>0, <2>1
  <2> QED BY <2>0, <2>1, <2>2, <2>3 DEF StageInv
<1>4. CASE LogFinishes
  <2>1. stage = "filling" /\ stage' = "done" /\ lib' = lib
    BY <1>4 DEF LogFinishes
  <2> QED BY <2>1 DEF StageInv
<1>5. CASE LogConfInfosDestroy
  <2>1. stage = "done" /\ stage' = "destroyed" /\ lib' = lib
    BY <1>5 DEF LogConfInfosDestroy, coreVars
  <2> QED BY <2>1 DEF StageInv
<1>6. CASE \E i \in todo : FillLogConfInfos(i) \/ FillFreedKey(i)
  <2>1. /\ stage = "filling" /\ stage' = stage /\ UNCHANGED <<lib, conf, ret>> /\ todo' \subseteq todo
    BY <1>6 DEF FillLogConfInfos, FillFreedKey
  <2> QED BY <2>1 DEF StageInv
<1>7. CASE UNCHANGED vars
  BY <1>7 DEF vars, coreVars, StageInv
<1> QED BY <1>1, <1>2, <1>3, <1>4, <1>5, <1>6, <1>7 DEF Next

\* fill_log_conf_infos() of one entry, in a file whose sections have different names.
LEMMA FillsOne ==
  ASSUME EntryInv, NEW i \in todo, FillLogConfInfos(i), process' = "running", Unique(file)
  PROVE  Filled(conf.entries, Visited \cup {i}, infos')
<1>1. /\ stage = "filling" /\ process = "running" /\ i \in DOMAIN conf.entries /\ ret = 0
      /\ conf.tab = "live" /\ i \notin Visited /\ Visited \in SUBSET DOMAIN conf.entries
  BY DEF FillLogConfInfos, EntryInv, StageInv, Visited
<1>2. Filled(conf.entries, Visited, infos)
  BY <1>1 DEF EntryInv, FillInv
<1>3. PICK n \in Nat : HasEntries(infos, n) /\ n >= INFOS_ID_START
  BY <1>1 DEF EntryInv, ArrayInv
<1>4. PICK entries : entries = conf.entries
  OBVIOUS
<1>5. Distinct(entries) /\ ~ entries[i].dangling
  BY <1>1, <1>4 DEF EntryInv, NamesInv, NamesOK, Distinct
<1>6. PICK name, pairs : name = entries[i].section.name /\ pairs = entries[i].section.pairs
  OBVIOUS
<1>8. PICK info : info = InfoFromPairs(name, pairs)
  OBVIOUS
<1>9. InfoShape(info) /\ info.name = name
  <2>1. Len(pairs) \in Nat
    BY <1>1, <1>4, <1>6 DEF EntryInv, ReaderTypes, ManagerOK
  <2> QED BY <1>8, <2>1, LastPairRules
<1>10. \/ name # TOTAL_SWITCH /\ infos' = AddInfo(info, INFOS_ID_START)
       \/ /\ name = TOTAL_SWITCH /\ TotalOK(pairs)
          /\ infos' = AddInfo([info EXCEPT
                                 !.is_valid = CHOOSE v \in GetValue(pairs, "IS_VALID") : TRUE,
                                 !.timer = CHOOSE v \in GetValue(pairs, "TIMMER") : TRUE],
                              INFOS_ID_TOTAL_SWITCH)
  BY <1>4, <1>6, <1>8 DEF FillLogConfInfos
<1>11. CASE name # TOTAL_SWITCH /\ infos' = AddInfo(info, INFOS_ID_START)
  <2>1. Added(infos, infos', info, n)
    BY <1>3, <1>11, InfoAdded
  <2>2. Filled(entries, Visited \cup {i}, infos')
    BY <1>1, <1>2, <1>3, <1>4, <1>5, <1>6, <1>8, <1>9, <1>11, <2>1, FillsOrdinary
  <2> QED BY <1>4, <2>2
<1>12. ASSUME name = TOTAL_SWITCH, TotalOK(pairs), NEW v, NEW t, NEW total,
              v = CHOOSE w \in GetValue(pairs, "IS_VALID") : TRUE,
              total = [info EXCEPT !.is_valid = v, !.timer = t],
              infos' = AddInfo(total, INFOS_ID_TOTAL_SWITCH)
       PROVE  Filled(conf.entries, Visited \cup {i}, infos')
  <2>1. GetValue(pairs, "IS_VALID") = {v}
    <3>1. PICK w : w \in GetValue(pairs, "IS_VALID")
      BY <1>12 DEF TotalOK
    <3>2. GetValue(pairs, "IS_VALID") = {w}
      BY <3>1 DEF GetValue
    <3> QED BY <1>12, <3>2
  <2>2. total.name = TOTAL_SWITCH /\ total.is_valid = v
    <3>1. InfoFields(info, info.name, info.log_switch, info.is_valid, info.timer, info.list, info.number)
      BY <1>9 DEF InfoShape
    <3>2. InfoFields(total, info.name, info.log_switch, v, t, info.list, info.number)
      BY <1>12, <3>1 DEF InfoFields
    <3> QED BY <1>9, <1>12, <3>2, FieldsAre
  <2>3. Added(infos, infos', total, INFOS_ID_TOTAL_SWITCH)
    BY <1>3, <1>12, InfoAdded
  <2>4. Filled(entries, Visited \cup {i}, infos')
    BY <1>1, <1>2, <1>3, <1>4, <1>5, <1>6, <1>12, <2>1, <2>2, <2>3, FillsTotal
  <2> QED BY <1>4, <2>4
<1> QED BY <1>10, <1>11, <1>12

\* Every step keeps what Filled says of the array.
LEMMA FillStep == EntryInv /\ [Next]_vars => FillInv'
<1> SUFFICES ASSUME EntryInv, [Next]_vars, stage' = "filling", process' = "running", Unique(file')
             PROVE  Filled(conf'.entries, Visited', infos')
  BY DEF FillInv
<1>0. ManagerShape(conf) /\ StageInv
  BY DEF EntryInv, FileInv, CloseInv
<1>1. CASE lib = "utils" /\ CoreNext /\ UNCHANGED <<infos, stage, todo>>
  BY <1>0, <1>1 DEF StageInv
<1>2. CASE LogOpens
  <2>1. ret' = OPEN_FILE_ERR /\ infos' = InitialInfos
    BY <1>2 DEF LogOpens, OpenFile
  <2>2. Visited' = {}
    BY <2>1 DEF Visited, OPEN_FILE_ERR
  <2> QED BY <2>1, <2>2, FilledAtFirst
<1>3. CASE LogReads
  <2>0. lib = "log" /\ stage = "reading" /\ infos = InitialInfos
    BY <1>0, <1>3 DEF LogReads, StageInv
  <2>1. \/ UNCHANGED <<infos, todo>> /\ ret' # 0
        \/ /\ ret' = 0 /\ todo' = DOMAIN conf'.entries
           /\ infos' = [infos EXCEPT !.sinfo[INFOS_ID_CTL].log_switch = conf.switch]
    BY <1>0, <1>3, <2>0, LogSteps
  <2>2. Visited' = {}
    BY <2>1 DEF Visited
  <2>3. Filled(conf'.entries, {}, infos)
    BY <2>0, FilledAtFirst
  <2>4. CASE infos' = infos
    BY <2>2, <2>3, <2>4
  <2>5. CASE infos' = [infos EXCEPT !.sinfo[INFOS_ID_CTL].log_switch = conf.switch]
    <3>1. PICK n \in Nat : HasEntries(infos, n) /\ n >= INFOS_ID_START
      BY <2>0 DEF EntryInv, ArrayInv
    <3>2. InfosShape(infos) /\ InfoShape(infos.sinfo[INFOS_ID_CTL])
      BY <2>3 DEF EntryInv, ArrayInv, Filled
    <3>3. OnlyCtl(infos, infos', n) /\ InfoShape(infos'.sinfo[INFOS_ID_CTL])
      BY <2>5, <3>1, <3>2, CtlWritten
    <3> QED BY <2>2, <2>3, <3>1, <3>3, FilledStays
  <2> QED BY <2>1, <2>4, <2>5
<1>4. CASE LogFinishes \/ LogConfInfosDestroy
  BY <1>4 DEF LogFinishes, LogConfInfosDestroy
<1>5. ASSUME NEW i \in todo, FillLogConfInfos(i) PROVE Filled(conf'.entries, Visited', infos')
  <2>1. UNCHANGED <<conf, ret, file>> /\ todo' = todo \ {i} /\ stage = "filling"
    BY <1>5 DEF FillLogConfInfos
  <2>2. ret = 0 /\ i \in DOMAIN conf.entries
    BY <1>0, <2>1 DEF StageInv
  <2>3. Visited' = Visited \cup {i}
    BY <2>1, <2>2 DEF Visited
  <2>4. Unique(file)
    BY <2>1
  <2>5. Filled(conf.entries, Visited \cup {i}, infos')
    BY <1>5, <2>4, FillsOne
  <2> QED BY <2>1, <2>3, <2>5
<1>6. CASE UNCHANGED vars
  BY <1>6 DEF vars, coreVars, EntryInv, FillInv, Visited
<1>7. ASSUME NEW i \in todo, FillFreedKey(i) PROVE FALSE
  BY <1>7 DEF FillFreedKey
<1> QED BY <1>1, <1>2, <1>3, <1>4, <1>5, <1>6, <1>7 DEF Next

\* The entry of a well-formed section, once every section has been visited.
LEMMA EntryOfSection ==
  ASSUME FileInv, conf.tab = "live", process = "running", Unique(file), NEW s \in Sections(file), WellFormed(file, s)
  PROVE  \E k \in DOMAIN conf.entries :
           conf.entries[k].section.name = TitleName(file, s) /\ Pairs(conf.entries[k].section.pairs, file, s)
<1>1. Only(file, s)
  BY DEF Unique, Only
<1>2. TableOK(conf.entries, file)
  BY DEF FileInv
<1>3. PICK k : Ruled(conf.entries, file, s, k)
  BY <1>1, <1>2 DEF TableOK, HasEntry
<1> QED BY <1>3 DEF Ruled

\* Of the entries that rule the logs when every section has been visited,
LEMMA RulesAtEnd ==
  ASSUME FileInv, NamesInv, conf.tab = "live", process = "running", Unique(file), Filled(conf.entries, DOMAIN conf.entries, infos),
         NEW n \in LogNames \ {TOTAL_SWITCH}
  PROVE  LET mine == {s \in Sections(file) : TitleName(file, s) = n}
             info == infos.sinfo[ConfId(n)]
         IN /\ mine = {} => info = DefaultInfo(DEFAULT_NAME) /\ ConfId(n) = INFOS_ID_DEFAULT
            /\ \A s \in mine : WellFormed(file, s) =>
                 /\ n \in DOMAIN infos.names /\ ConfId(n) >= INFOS_ID_START
                 /\ info.name = n
                 /\ \A k \in DOMAIN Lists : \A i \in 1 .. Lists[k] : info.list[k][i] = ListSaid(file, s, k, i)
                 /\ \A k \in Numbers : info.number[k] = NumberSaid(file, s, k)
<1> DEFINE mine == {s \in Sections(file) : TitleName(file, s) = n}
<1>1. PICK info : info = infos.sinfo[ConfId(n)]
  OBVIOUS
<1>2. ASSUME mine = {} PROVE info = DefaultInfo(DEFAULT_NAME) /\ ConfId(n) = INFOS_ID_DEFAULT
  <2>1. n = "unnamed"
    BY <1>2 DEF LogNames
  <2>2. \A k \in DOMAIN conf.entries : conf.entries[k].section.name # n
    BY <1>2 DEF NamesInv, NamesOK, HeadedBy
  <2>3. n \notin DOMAIN infos.names
    BY <2>1, <2>2 DEF Filled, DEFAULT_NAME, TOTAL_SWITCH
  <2> QED BY <1>1, <2>3 DEF ConfId, Filled
<1>3. ASSUME NEW s \in mine, WellFormed(file, s)
      PROVE  /\ n \in DOMAIN infos.names /\ ConfId(n) >= INFOS_ID_START
             /\ info.name = n
             /\ \A k \in DOMAIN Lists : \A i \in 1 .. Lists[k] : info.list[k][i] = ListSaid(file, s, k, i)
             /\ \A k \in Numbers : info.number[k] = NumberSaid(file, s, k)
  <2>1. s \in Sections(file) /\ TitleName(file, s) = n
    OBVIOUS
  <2>2. PICK k \in DOMAIN conf.entries :
          conf.entries[k].section.name = n /\ Pairs(conf.entries[k].section.pairs, file, s)
    BY <1>3, <2>1, EntryOfSection
  <2>3. PICK section : section = conf.entries[k].section /\ section.name = n
    BY <2>2
  <2>4. EntryFor(section, infos)
    BY <2>2, <2>3 DEF Filled
  <2>5. n \in DOMAIN infos.names /\ ConfId(n) = infos.names[n] /\ ConfId(n) >= INFOS_ID_START
        /\ info = InfoFromPairs(n, section.pairs)
    BY <1>1, <2>3, <2>4 DEF EntryFor, ConfId
  <2>6. Body(file, s) \in SUBSET Nat
    BY <2>1, SectionNumbers DEF FileInv, CloseInv
  <2>7. Pairs(section.pairs, file, s)
    BY <2>2, <2>3
  <2>8. LET made == InfoFromPairs(n, section.pairs)
        IN /\ InfoShape(made) /\ made.name = n
           /\ \A k1 \in DOMAIN Lists : \A i \in 1 .. Lists[k1] : made.list[k1][i] = ListSaid(file, s, k1, i)
           /\ \A k1 \in Numbers : made.number[k1] = NumberSaid(file, s, k1)
    BY <1>3, <2>6, <2>7, InfoSays
  <2> QED BY <2>5, <2>8
<1> QED BY <1>1, <1>2, <1>3

\* and of the total switch.
LEMMA TotalAtEnd ==
  ASSUME FileInv, NamesInv, conf.tab = "live", process = "running", Unique(file), NEW V, V \subseteq DOMAIN conf.entries,
         Filled(conf.entries, V, infos), NEW is_valid, is_valid = infos.sinfo[INFOS_ID_TOTAL_SWITCH].is_valid
  PROVE  LET total == {s \in Sections(file) : TitleName(file, s) = TOTAL_SWITCH}
         IN /\ is_valid = 1 => V # {} /\ \E s \in total : Says(file, s, "IS_VALID") = {1}
            /\ \A s \in total : V = DOMAIN conf.entries /\ WellFormed(file, s) =>
                 (is_valid = 1 <=> Says(file, s, "IS_VALID") = {1})
<1> DEFINE total == {s \in Sections(file) : TitleName(file, s) = TOTAL_SWITCH}
<1>1. ASSUME is_valid = 1 PROVE V # {} /\ \E s \in total : Says(file, s, "IS_VALID") = {1}
  <2>1. PICK k \in V : conf.entries[k].section.name = TOTAL_SWITCH
    BY <1>1 DEF Filled
  <2>2. GetValue(conf.entries[k].section.pairs, "IS_VALID") = {1}
    BY <1>1, <2>1 DEF Filled
  <2>3. PICK s \in Sections(file) : HeadedBy(conf.entries[k], file, s)
    BY DEF NamesInv, NamesOK
  <2>4. s \in total /\ FirstsAgree(conf.entries[k].section.pairs, file, s)
    BY <2>1, <2>3 DEF HeadedBy
  <2>5. Says(file, s, "IS_VALID") = {1}
    BY <2>2, <2>4 DEF FirstsAgree
  <2> QED BY <2>4, <2>5
<1>2. ASSUME NEW s \in total, V = DOMAIN conf.entries, WellFormed(file, s)
      PROVE  is_valid = 1 <=> Says(file, s, "IS_VALID") = {1}
  <2>1. s \in Sections(file) /\ TitleName(file, s) = TOTAL_SWITCH
    OBVIOUS
  <2>2. PICK k \in DOMAIN conf.entries :
          conf.entries[k].section.name = TOTAL_SWITCH /\ Pairs(conf.entries[k].section.pairs, file, s)
    BY <1>2, <2>1, EntryOfSection
  <2>3. GetValue(conf.entries[k].section.pairs, "IS_VALID") = {is_valid}
    BY <1>2, <2>2 DEF Filled
  <2>4. Body(file, s) \in SUBSET Nat
    BY <2>1, SectionNumbers DEF FileInv, CloseInv
  <2>5. GetValue(conf.entries[k].section.pairs, "IS_VALID") = Says(file, s, "IS_VALID")
    BY <1>2, <2>2, <2>4, FirstValue
  <2> QED BY <2>3, <2>5
<1> QED BY <1>1, <1>2

\* A property of the end is not lost: a step that stays at the end changes nothing.
LEMMA DoneStays ==
  ASSUME StageInv, [Next]_vars, stage' = "done"
  PROVE  LogFinishes \/ UNCHANGED vars
<1>1. CASE lib = "utils" /\ CoreNext /\ UNCHANGED <<infos, stage, todo>>
  BY <1>1 DEF StageInv
<1> QED BY <1>1 DEF Next, LogOpens, LogReads, LogConfInfosDestroy, FillLogConfInfos, FillFreedKey

\* LogFinishes
LEMMA FinishIs ==
  ASSUME EntryInv, LogFinishes, Unique(file)
  PROVE  /\ conf.tab = "live" /\ process = "running" /\ file' = file /\ ret' = ret
         /\ Filled(conf.entries, Visited, infos) /\ Visited = IF ret = 0 THEN DOMAIN conf.entries ELSE {}
         /\ infos'.sinfo[INFOS_ID_CTL].is_valid = infos.sinfo[INFOS_ID_TOTAL_SWITCH].is_valid
         /\ \E n \in Nat : n >= INFOS_ID_START /\ HasEntries(infos, n) /\ OnlyCtl(infos, infos', n)
<1>1. /\ stage = "filling" /\ process = "running" /\ todo = {} /\ UNCHANGED <<ret, file>>
      /\ infos' = [infos EXCEPT !.sinfo[INFOS_ID_CTL].is_valid = infos.sinfo[INFOS_ID_TOTAL_SWITCH].is_valid]
  BY DEF LogFinishes
<1>2. conf.tab = "live"
  BY <1>1 DEF EntryInv, StageInv
<1>3. Filled(conf.entries, Visited, infos)
  BY <1>1 DEF EntryInv, FillInv
<1>4. Visited = IF ret = 0 THEN DOMAIN conf.entries ELSE {}
  BY <1>1 DEF Visited
<1>5. PICK n \in Nat : HasEntries(infos, n) /\ n >= INFOS_ID_START
  BY <1>1 DEF EntryInv, ArrayInv
<1>6. InfosShape(infos) /\ InfoShape(infos.sinfo[INFOS_ID_CTL])
  BY <1>3 DEF EntryInv, ArrayInv, Filled
<1>7. PICK x : x = infos.sinfo[INFOS_ID_TOTAL_SWITCH].is_valid
  OBVIOUS
<1>8. infos' = [infos EXCEPT !.sinfo[INFOS_ID_CTL].is_valid = x]
  BY <1>1, <1>7
<1>9. OnlyCtl(infos, infos', n) /\ infos'.sinfo[INFOS_ID_CTL].is_valid = x
  BY <1>5, <1>6, <1>8, CtlWritten
<1> QED BY <1>1, <1>2, <1>3, <1>4, <1>5, <1>7, <1>9

\* At the end every section rules its log,
LEMMA RulesStep == EntryInv /\ [Next]_vars => SectionRulesItsLog'
<1> SUFFICES ASSUME EntryInv, [Next]_vars,
                    stage' = "done", process' = "running", ret' = 0, UniqueNames',
                    NEW m \in LogNames' \ {TOTAL_SWITCH}
             PROVE  LET mine == {s \in Sections(file') : TitleName(file', s) = m}
                        info == infos'.sinfo[ConfId(m)']
                    IN /\ mine = {} => info = DefaultInfo(DEFAULT_NAME)
                       /\ \A s \in mine : WellFormed(file', s) =>
                            /\ info.name = m
                            /\ \A k \in DOMAIN Lists : \A i \in 1 .. Lists[k] :
                                 info.list[k][i] = ListSaid(file', s, k, i)
                            /\ \A k \in Numbers : info.number[k] = NumberSaid(file', s, k)
  BY DEF SectionRulesItsLog
<1>1. CASE UNCHANGED vars
  <2>1. UNCHANGED <<infos, file, stage, process, ret>>
    BY <1>1 DEF vars, coreVars
  <2>2. ConfId(m)' = ConfId(m) /\ LogNames' = LogNames /\ UniqueNames
    BY <2>1 DEF ConfId, LogNames, UniqueNames
  <2>3. SectionRulesItsLog
    BY DEF EntryInv
  <2> QED BY <2>1, <2>2, <2>3 DEF SectionRulesItsLog
<1>2. CASE LogFinishes
  <2>1. file' = file
    BY <1>2 DEF LogFinishes
  <2>2. Unique(file) /\ m \in LogNames \ {TOTAL_SWITCH}
    BY <2>1 DEF Unique, UniqueNames, LogNames
  <2>3. /\ conf.tab = "live" /\ process = "running" /\ ret' = ret
        /\ Filled(conf.entries, Visited, infos) /\ Visited = IF ret = 0 THEN DOMAIN conf.entries ELSE {}
        /\ \E n \in Nat : n >= INFOS_ID_START /\ HasEntries(infos, n) /\ OnlyCtl(infos, infos', n)
    BY <1>2, <2>2, FinishIs
  <2>4. Filled(conf.entries, DOMAIN conf.entries, infos)
    BY <2>3
  <2>5. FileInv /\ NamesInv
    BY DEF EntryInv
  <2>6. PICK n \in Nat : n >= INFOS_ID_START /\ HasEntries(infos, n) /\ OnlyCtl(infos, infos', n)
    BY <2>3
  <2>7. ConfId(m)' = ConfId(m)
    BY <2>6 DEF ConfId, OnlyCtl
  <2>8. m \in DOMAIN infos.names => ConfId(m) \in 0 .. (n - 1)
    BY <2>6 DEF ConfId, HasEntries
  <2>9. (m \in DOMAIN infos.names /\ ConfId(m) >= INFOS_ID_START) \/ ConfId(m) = INFOS_ID_DEFAULT =>
          infos'.sinfo[ConfId(m)] = infos.sinfo[ConfId(m)]
    <3>1. (m \in DOMAIN infos.names /\ ConfId(m) >= INFOS_ID_START) \/ ConfId(m) = INFOS_ID_DEFAULT =>
            ConfId(m) \in 1 .. (n - 1)
      BY <2>6, <2>8 DEF INFOS_ID_START, INFOS_ID_DEFAULT
    <3> QED BY <2>6, <3>1 DEF OnlyCtl
  <2>10. LET mine == {s \in Sections(file) : TitleName(file, s) = m}
             info == infos.sinfo[ConfId(m)]
         IN /\ mine = {} => info = DefaultInfo(DEFAULT_NAME) /\ ConfId(m) = INFOS_ID_DEFAULT
            /\ \A s \in mine : WellFormed(file, s) =>
                 /\ m \in DOMAIN infos.names /\ ConfId(m) >= INFOS_ID_START
                 /\ info.name = m
                 /\ \A k \in DOMAIN Lists : \A i \in 1 .. Lists[k] : info.list[k][i] = ListSaid(file, s, k, i)
                 /\ \A k \in Numbers : info.number[k] = NumberSaid(file, s, k)
    BY <2>2, <2>3, <2>4, <2>5, RulesAtEnd
  <2> QED BY <2>1, <2>7, <2>9, <2>10
<1> QED BY <1>1, <1>2, DoneStays DEF EntryInv

\* and the total switch is as written.
LEMMA TotalStep == EntryInv /\ [Next]_vars => TotalSwitchAsWritten'
<1> SUFFICES ASSUME EntryInv, [Next]_vars, stage' = "done", process' = "running", UniqueNames'
             PROVE  LET total == {s \in Sections(file') : TitleName(file', s) = TOTAL_SWITCH}
                        rules == infos'.sinfo[INFOS_ID_CTL].is_valid = 1
                    IN /\ rules => ret' = 0 /\ \E s \in total : Says(file', s, "IS_VALID") = {1}
                       /\ \A s \in total : ret' = 0 /\ WellFormed(file', s) =>
                            (rules <=> Says(file', s, "IS_VALID") = {1})
  BY DEF TotalSwitchAsWritten
<1>1. CASE UNCHANGED vars
  <2>1. UNCHANGED <<infos, file, stage, process, ret>>
    BY <1>1 DEF vars, coreVars
  <2>2. UniqueNames
    BY <2>1 DEF UniqueNames
  <2>3. TotalSwitchAsWritten
    BY DEF EntryInv
  <2> QED BY <2>1, <2>2, <2>3 DEF TotalSwitchAsWritten
<1>2. CASE LogFinishes
  <2>1. file' = file
    BY <1>2 DEF LogFinishes
  <2>2. Unique(file)
    BY <2>1 DEF Unique, UniqueNames
  <2>3. /\ conf.tab = "live" /\ process = "running" /\ ret' = ret
        /\ Filled(conf.entries, Visited, infos) /\ Visited = IF ret = 0 THEN DOMAIN conf.entries ELSE {}
        /\ infos'.sinfo[INFOS_ID_CTL].is_valid = infos.sinfo[INFOS_ID_TOTAL_SWITCH].is_valid
    BY <1>2, <2>2, FinishIs
  <2>4. PICK is_valid : is_valid = infos.sinfo[INFOS_ID_TOTAL_SWITCH].is_valid
    OBVIOUS
  <2>5. FileInv /\ NamesInv
    BY DEF EntryInv
  <2>6. PICK V : V = Visited /\ V \subseteq DOMAIN conf.entries /\ Filled(conf.entries, V, infos)
    BY <2>3
  <2>7. LET total == {s \in Sections(file) : TitleName(file, s) = TOTAL_SWITCH}
        IN /\ is_valid = 1 => V # {} /\ \E s \in total : Says(file, s, "IS_VALID") = {1}
           /\ \A s \in total : V = DOMAIN conf.entries /\ WellFormed(file, s) =>
                (is_valid = 1 <=> Says(file, s, "IS_VALID") = {1})
    BY <2>2, <2>3, <2>4, <2>5, <2>6, TotalAtEnd
  <2>8. (V # {} => ret = 0) /\ (ret = 0 => V = DOMAIN conf.entries)
    BY <2>3, <2>6
  <2> QED BY <2>1, <2>3, <2>4, <2>7, <2>8
<1> QED BY <1>1, <1>2, DoneStays DEF EntryInv

\* EntryInv holds at first,
LEMMA EntryInitially == Init => EntryInv
<1> SUFFICES ASSUME Init PROVE EntryInv
  OBVIOUS
<1>1. /\ lib \in {"utils", "log"} /\ conf = NullManager /\ reading = FALSE /\ ret = 0 /\ process = "running"
      /\ file = << >> /\ infos = NoInfos /\ stage = "new" /\ todo = {}
  BY DEF Init, CoreInit
<1>2. conf.tab = "null"
  BY <1>1 DEF NullManager
<1>3. FileInv
  BY <1>1, <1>2, CloseInitially, NothingRead DEF FileInv
<1>4. ArrayInv
  BY <1>1, EmptyArray DEF ArrayInv
<1>5. ReaderTypes
  BY <1>1, ManagersAtFirst DEF ReaderTypes
<1>6. NamesInv /\ StageInv /\ FillInv /\ SectionRulesItsLog /\ TotalSwitchAsWritten
  <2>1. conf.entries = << >>
    BY <1>1 DEF NullManager
  <2>2. NamesInv
    BY <2>1, NoNames DEF NamesInv
  <2> QED BY <1>1, <1>2, <2>2 DEF StageInv, FillInv, SectionRulesItsLog, TotalSwitchAsWritten
<1> QED BY <1>3, <1>4, <1>5, <1>6 DEF EntryInv

\* and is inductive.
LEMMA EntryStep == EntryInv /\ [Next]_vars => EntryInv'
  BY FileStep, ArrayStep, TypesStep, NamesStep, StageStep, FillStep, RulesStep, TotalStep DEF EntryInv

\* iridiumlog_conf.c: for files of any lines and any length, and sections visited in any
\* order, the array has room for its entries, the entry that rules a log is what the file's
\* section of this name says, and the total switch rules as its section says.
THEOREM EntriesAreTheSections == Spec => []EntriesAsWritten
<1>3. EntryInv /\ ArrayHasRoom => EntriesAsWritten
  <2> SUFFICES ASSUME EntryInv, ArrayHasRoom PROVE EntriesAsWritten
    OBVIOUS
  <2>1. CoreTypeOK
    BY DEF EntryInv, ReaderTypes, ManagerOK, CoreTypeOK
  <2> QED BY <2>1 DEF EntryInv, StageInv, TypeOK, EntriesAsWritten
<1>4. Spec => []EntryInv
  BY EntryInitially, EntryStep, PTL DEF Spec
<1> QED BY <1>3, <1>4, IdsStayValid, PTL

-----------------------------------------------------------------------------
(* Undefined behaviour *)

\* A key was freed only if two sections have one name.
LEMMA FreedKeyIs ==
  ASSUME NamesInv, NEW i \in DOMAIN conf.entries, conf.entries[i].dangling
  PROVE  ~ Unique(file)
BY DEF NamesInv, NamesOK

\* "-end", when it is undefined.
LEMMA EndByFile ==
  ASSUME FileInv, NamesInv, NEW l \in Lines, ReadEndUndefined(l)
  PROVE  ~ Unique(file') \/ HasWideTitle(file')
<1>1. ReadsLine(l) /\ l.kind = "dash" /\ l.name = "end" /\ block # << >> /\ EndIsUndefined
  BY DEF ReadEndUndefined
<1>2. PICK n : n = Len(file) /\ Grows(file, l, file', n) /\ BlockOK(file, block)
  BY <1>1, NextLine
<1>3. PICK s, a : Closes(file, a, block, file', s) /\ Sections(file') = Sections(file) \cup {s}
  BY <1>1, <1>2, EndLine
<1>4. CASE TitleOverruns(block)
  <2>1. PICK lines : lines = NoComments(BeforeHuge(block)) /\ lines # << >> /\ lines[1].kind = "wide"
    BY <1>4 DEF TitleOverruns
  <2>2. Title(file', s) # 0 /\ file'[Title(file', s)] = lines[1]
    BY <1>3, <2>1, FirstIsTitle
  <2> QED BY <1>3, <2>1, <2>2 DEF HasWideTitle
<1>5. CASE \E i \in DOMAIN conf.entries : conf.entries[i].dangling
  <2>1. ~ Unique(file)
    BY <1>5, FreedKeyIs
  <2>2. Sections(file) \subseteq Sections(file')
    BY <1>3
  <2> QED BY <1>2, <2>1, <2>2, UniqueBefore
<1> QED BY <1>1, <1>4, <1>5 DEF EndIsUndefined, ReadsFreedKey

\* The steps after which the behaviour is undefined.
LEMMA UndefinedStep ==
  ASSUME EntryInv, UndefinedOnlyByFile, [Next]_vars PROVE UndefinedOnlyByFile'
<1> SUFFICES ASSUME process' = "undefined" PROVE HasZeroSwitch(file') \/ ~ UniqueNames' \/ HasWideTitle(file')
  BY DEF UndefinedOnlyByFile
<1>0. FileInv /\ NamesInv /\ (UniqueNames' <=> Unique(file')) /\ (UniqueNames <=> Unique(file))
  BY DEF EntryInv, UniqueNames, Unique
<1>1. CASE DestroyGlobalConfig \/ GetFreed
  <2>1. file' = file /\ (conf.tab = "dead" \/ \E i \in DOMAIN conf.entries : conf.entries[i].dangling)
    BY <1>1 DEF DestroyGlobalConfig, GetFreed
  <2>2. conf.tab = "dead" => HasZeroSwitch(file)
    BY <1>0 DEF FileInv, CloseInv
  <2> QED BY <1>0, <2>1, <2>2, FreedKeyIs
<1>2. CASE \E i \in todo : FillFreedKey(i)
  <2>1. PICK i \in todo : FillFreedKey(i)
    BY <1>2
  <2>2. file' = file /\ i \in DOMAIN conf.entries /\ conf.entries[i].dangling
    BY <2>1 DEF FillFreedKey, EntryInv, StageInv
  <2> QED BY <1>0, <2>2, FreedKeyIs
<1>3. CASE \E l \in Lines : ReadEndUndefined(l)
  BY <1>0, <1>3, EndByFile
<1>4. CASE UNCHANGED vars
  <2>1. UNCHANGED <<file, process>>
    BY <1>4 DEF vars, coreVars
  <2> QED BY <1>0, <2>1 DEF UndefinedOnlyByFile
<1>5. CASE \E l \in Lines : ReadLine(l) /\ ~ ReadEndUndefined(l)
  <2>1. process' # "undefined"
    BY <1>5 DEF ReadLine, ReadPlain, ReadSwitch, ReadStart, ReadEnd, ReadEndError, ReadsLine
  <2> QED BY <2>1
<1>6. CASE OpenFile \/ RepeatInit \/ EndOfFile \/ (\E l \in Lines : RestOfFile(l)) \/ LogFinishes \/ LogConfInfosDestroy
  <2>1. process' # "undefined"
    BY <1>6 DEF OpenFile, RepeatInit, EndOfFile, RestOfFile, LogFinishes, LogConfInfosDestroy, coreVars
  <2> QED BY <2>1
<1>7. CASE \E i \in todo : FillLogConfInfos(i)
  <2>1. process' # "undefined"
    BY <1>7 DEF FillLogConfInfos
  <2> QED BY <2>1
<1> QED BY <1>1, <1>2, <1>3, <1>4, <1>5, <1>6, <1>7 DEF Next, CoreNext, LogOpens, LogReads

\* Both readers and their callers: for files of any lines and any length, and every order
\* of the calls, freed memory is used or an array overrun only because the file has a zero
\* switch, two sections of one name, or a title of 256 characters or more.
THEOREM OnlyTheFileUndoes == Spec => []UndefinedOnlyByFile
<1>1. Init => UndefinedOnlyByFile
  BY DEF Init, CoreInit, UndefinedOnlyByFile
<1>2. EntryInv /\ UndefinedOnlyByFile /\ [Next]_vars => UndefinedOnlyByFile'
  BY UndefinedStep
<1> QED BY <1>1, <1>2, EntryInitially, EntryStep, PTL DEF Spec
==============================================================================
