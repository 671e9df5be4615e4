-------------------------------- MODULE IriConf --------------------------------
(***************************************************************************)
(* The configuration of the synchronous log library                        *)
(* (iridiumlog_conf/iridiumlog_conf.c): get_log_conf_infos() reads the     *)
(* file with the reader of ConfCore and turns every section into an entry  *)
(* of the array sinfo, found through the hash table names.  It is what     *)
(* IriLog takes as its configuration.                                      *)
(*                                                                         *)
(* A value is a number or, for the three lists of switches, the sequence   *)
(* of its digits.  PRINT_ERR_FATAL() calls exit().                         *)
(***************************************************************************)
EXTENDS ConfCore

CONSTANTS
  FilesMem,  \* DEFAULT_LOG_CONF_FILES_MEM, 50
  Growth     \* by how much sinfo grows, 10

ASSUME IriConfAssumption == FilesMem \in Nat /\ Growth \in Nat \ {0}

VARIABLES
  infos,     \* the log_conf_infos_t: allocated_len, sinfo (from index 0) and names
  stage,     \* "new", "reading", "filling", "done", "destroyed"
  todo       \* entries of the table that log_conf_manager_foreach() has not visited

vars == <<coreVars, infos, stage, todo>>

INFOS_ID_CTL == 0
INFOS_ID_TOTAL_SWITCH == 1
INFOS_ID_DEFAULT == 2
INFOS_ID_START == 3

TOTAL_SWITCH == "TOTAL_SWITCH"
DEFAULT_NAME == "iridium_default"

\* The lists of switches and how many of their digits are used.
Lists == [k \in {"DEBUG.INFO.ERR.FATAL", "LOG_FILE.FILE.FUNC.LINE.DATE", "LOG_TERMINAL.FILE.FUNC.LINE.DATE"} |->
            IF k = "DEBUG.INFO.ERR.FATAL" THEN 4 ELSE 5]
Numbers == {"ROLLBACK_NUMBER", "SINGLE_MAX_SIZE", "IS_PROCESS_LOCK"}

\* g_malloc() and memset()
ZeroInfo == [name |-> "", log_switch |-> 0, is_valid |-> 0, timer |-> 0,
             list |-> [k \in DOMAIN Lists |-> [i \in 1 .. Lists[k] |-> 0]],
             number |-> [k \in Numbers |-> 0]]

\* set_default_single_log_conf_info(), sizes in units of 1024 * 1024
DefaultInfo(name) ==
  [ZeroInfo EXCEPT
     !.name = name,
     !.list["DEBUG.INFO.ERR.FATAL"] = <<0, 1, 1, 1>>,
     !.list["LOG_FILE.FILE.FUNC.LINE.DATE"] = <<1, 1, 1, 1, 1>>,
     !.number["ROLLBACK_NUMBER"] = 5,
     !.number["SINGLE_MAX_SIZE"] = 30]

\* log_conf_infos_init()
InitialInfos ==
  [alloc |-> IF FilesMem > 3 THEN FilesMem ELSE 3,
   sinfo |-> [id \in {INFOS_ID_CTL, INFOS_ID_TOTAL_SWITCH, INFOS_ID_DEFAULT} |->
                CASE id = INFOS_ID_CTL -> [ZeroInfo EXCEPT !.log_switch = 1]
                  [] id = INFOS_ID_TOTAL_SWITCH -> DefaultInfo("")
                  [] id = INFOS_ID_DEFAULT -> DefaultInfo(DEFAULT_NAME)],
   names |-> [n \in {DEFAULT_NAME} |-> INFOS_ID_DEFAULT]]

NoInfos == [alloc |-> 0, sinfo |-> << >>, names |-> << >>]

Init == CoreInit /\ infos = NoInfos /\ stage = "new" /\ todo = {}

-----------------------------------------------------------------------------
(* One section *)

\* is_level_true_inner() accepts only 0 and 1; the first other digit ends the
\* line, and what was set before it stays.
GoodDigits(val) ==
  LET bad == {i \in DOMAIN val : val[i] \notin {0, 1}}
  IN IF bad = {} THEN Len(val) ELSE Min(bad) - 1

SetDigits(list, val) == [i \in DOMAIN list |-> IF i <= GoodDigits(val) THEN val[i] ELSE list[i]]

\* irilog_conf_line_handle()
LineHandle(info, pair) ==
  CASE pair.key \in DOMAIN Lists -> [info EXCEPT !.list[pair.key] = SetDigits(@, pair.val)]
    [] pair.key \in Numbers -> [info EXCEPT !.number[pair.key] = pair.val]
    [] OTHER -> info

\* get_info_from_conf_pairs()
InfoFromPairs(name, pairs) ==
  LET filled[i \in 0 .. Len(pairs)] ==
        IF i = 0 THEN [ZeroInfo EXCEPT !.name = name] ELSE LineHandle(filled[i - 1], pairs[i])
  IN  filled[Len(pairs)]

\* lci_add_info(): the array grows before it is written to.
MustGrow(len, alloc) == len >= alloc

NumInfos == Cardinality(DOMAIN infos.sinfo)
Grown == IF MustGrow(NumInfos, infos.alloc) THEN infos.alloc + Growth ELSE infos.alloc

\* The function f with x mapped to v.
With(f, x, v) == [k \in DOMAIN f \cup {x} |-> IF k = x THEN v ELSE f[k]]

\* An ordinary section takes the next index, a special one replaces its entry.
AddInfo(info, special) ==
  LET id == IF special >= INFOS_ID_START THEN NumInfos ELSE special
  IN [alloc |-> Grown,
      sinfo |-> With(infos.sinfo, id, info),
      names |-> With(infos.names, info.name, id)]

\* The checks on TOTAL_SWITCH: IS_VALID is 0 or 1, TIMMER is there, neither negative.
TotalOK(pairs) ==
  /\ \E v \in GetValue(pairs, "IS_VALID") : v \in {0, 1}
  /\ \E v \in GetValue(pairs, "TIMMER") : v >= 0

-----------------------------------------------------------------------------
(* get_log_conf_infos() *)

\* The steps of the reader, and what get_log_conf_infos() does around them.
LogOpens ==
  /\ lib = "log" /\ stage = "new" /\ OpenFile
  /\ infos' = InitialInfos
  /\ stage' = IF reading' THEN "reading" ELSE "filling"
  /\ UNCHANGED todo

\* After ret == 0 log_switch is copied, and every section visited; after an error
\* neither.
LogReads ==
  /\ lib = "log" /\ stage = "reading"
  /\ EndOfFile \/ \E l \in Lines : ReadLine(l)
  /\ IF ~ reading' /\ ret' = 0
     THEN /\ infos' = [infos EXCEPT !.sinfo[INFOS_ID_CTL].log_switch = conf.switch]
          /\ todo' = DOMAIN conf.entries
     ELSE UNCHANGED <<infos, todo>>
  /\ stage' = IF reading' THEN "reading" ELSE "filling"

\* fill_log_conf_infos(), in the order of the hash table.
FillLogConfInfos(i) ==
  /\ stage = "filling" /\ process = "running" /\ i \in todo
  /\ ~ conf.entries[i].dangling
  /\ LET name == conf.entries[i].section.name
         pairs == conf.entries[i].section.pairs
         info == InfoFromPairs(name, pairs)
     IN \/ /\ name # TOTAL_SWITCH
           /\ infos' = AddInfo(info, INFOS_ID_START)
           /\ UNCHANGED process
        \/ /\ name = TOTAL_SWITCH /\ TotalOK(pairs)
           /\ infos' = AddInfo([info EXCEPT
                                  !.is_valid = CHOOSE v \in GetValue(pairs, "IS_VALID") : TRUE,
                                  !.timer = CHOOSE v \in GetValue(pairs, "TIMMER") : TRUE],
                               INFOS_ID_TOTAL_SWITCH)
           /\ UNCHANGED process
        \/ /\ name = TOTAL_SWITCH /\ ~ TotalOK(pairs)
           /\ process' = "exited"
           /\ UNCHANGED infos
  /\ todo' = todo \ {i}
  /\ UNCHANGED <<lib, conf, block, reading, ret, file, stage>>

\* It takes the name of the entry from its key, which may have been freed.
FillFreedKey(i) ==
  /\ stage = "filling" /\ process = "running" /\ i \in todo
  /\ conf.entries[i].dangling
  /\ process' = "undefined"
  /\ UNCHANGED <<lib, conf, block, reading, ret, file, infos, stage, todo>>

\* is_valid of the control entry; log_destroy_iri_conf().
LogFinishes ==
  /\ stage = "filling" /\ process = "running" /\ todo = {}
  /\ infos' = [infos EXCEPT !.sinfo[INFOS_ID_CTL].is_valid = infos.sinfo[INFOS_ID_TOTAL_SWITCH].is_valid]
  /\ conf' = NullManager
  /\ stage' = "done"
  /\ UNCHANGED <<lib, block, reading, ret, process, file, todo>>

\* log_conf_infos_destroy()
LogConfInfosDestroy ==
  /\ stage = "done" /\ process = "running"
  /\ infos' = NoInfos /\ stage' = "destroyed"
  /\ UNCHANGED <<coreVars, todo>>

\* get_log_conf_info(): the bounds check.
GetLogConfInfo(id) == IF id < 0 \/ id >= NumInfos THEN {} ELSE {infos.sinfo[id]}

\* transparent_iridium_write_log(): the section of a log name, by its id in names.
\* (Mutant: a name without a section gets the control entry.)
ConfIdOrCtl(name) == IF name \in DOMAIN infos.names THEN infos.names[name] ELSE INFOS_ID_CTL
ConfId(name) == IF name \in DOMAIN infos.names THEN infos.names[name] ELSE INFOS_ID_DEFAULT

Next ==
  \/ lib = "utils" /\ CoreNext /\ UNCHANGED <<infos, stage, todo>>
  \/ LogOpens \/ LogReads \/ LogFinishes \/ LogConfInfosDestroy
  \/ \E i \in todo : FillLogConfInfos(i) \/ FillFreedKey(i)

Spec == Init /\ [][Next]_vars

-----------------------------------------------------------------------------
(* Properties *)

\* The array has room for its entries, also while it grows entry by entry, and
\* every id in names is in the array.
ArrayHasRoom ==
  /\ DOMAIN infos.sinfo = 0 .. (NumInfos - 1)
  /\ NumInfos <= infos.alloc
  /\ \A n \in DOMAIN infos.names : GetLogConfInfo(infos.names[n]) # {}

\* The reader's types, and those of the array.
TypeOK ==
  /\ CoreTypeOK
  /\ stage \in {"new", "reading", "filling", "done", "destroyed"}
  /\ ArrayHasRoom

\* What the last line of a section that sets it says of position i of a list, or
\* of a number; 0 when no line does.
ListSaid(f, s, key, i) ==
  LET hits == {n \in (Title(f, s) + 1) .. (s[2] - 1) :
                 f[n].kind = "pair" /\ f[n].key = key /\ i <= GoodDigits(f[n].val)}
  IN IF hits = {} THEN 0 ELSE f[Max(hits)].val[i]
NumberSaid(f, s, key) ==
  LET hits == {n \in (Title(f, s) + 1) .. (s[2] - 1) : f[n].kind = "pair" /\ f[n].key = key}
  IN IF hits = {} THEN 0 ELSE f[Max(hits)].val

LogNames == {"unnamed"} \cup {TitleName(file, s) : s \in Sections(file)}

\* The entry that rules a log name is built from the file's section of this name,
\* whatever the order in which the hash table is visited; a name without a
\* section has the default entry, which no section changes.  The names of the
\* sections must be unique: see ReadsFreedKey and FillFreedKey.
SectionRulesItsLog ==
  stage = "done" /\ process = "running" /\ ret = 0 /\ UniqueNames =>
    \A n \in LogNames \ {TOTAL_SWITCH} :
      LET mine == {s \in Sections(file) : TitleName(file, s) = n}
          info == infos.sinfo[ConfId(n)]
      IN /\ mine = {} => info = DefaultInfo(DEFAULT_NAME)
         /\ \A s \in mine : WellFormed(file, s) =>
              /\ info.name = n
              /\ \A k \in DOMAIN Lists : \A i \in 1 .. Lists[k] : info.list[k][i] = ListSaid(file, s, k, i)
              /\ \A k \in Numbers : info.number[k] = NumberSaid(file, s, k)

\* The total switch rules only when the file has a TOTAL_SWITCH section whose
\* IS_VALID is 1, and does so when this section is well-formed.
TotalSwitchAsWritten ==
  stage = "done" /\ process = "running" /\ UniqueNames =>
    LET total == {s \in Sections(file) : TitleName(file, s) = TOTAL_SWITCH}
        rules == infos.sinfo[INFOS_ID_CTL].is_valid = 1
    IN /\ rules => ret = 0 /\ \E s \in total : Says(file, s, "IS_VALID") = {1}
       /\ \A s \in total : ret = 0 /\ WellFormed(file, s) => (rules <=> Says(file, s, "IS_VALID") = {1})

\* The entries of the log library are the file's sections, whatever the order in
\* which they are visited, and the array has room for them.
EntriesAsWritten == TypeOK /\ SectionRulesItsLog /\ TotalSwitchAsWritten

\* readme.md:107, of @LOG_SWITCH: "0 switches the log off".  iridium_init_log()
\* looks at log_switch of the control entry.
LogSwitchZeroCloses ==
  stage = "done" /\ (\E i \in DOMAIN file : file[i].kind = "switch" /\ file[i].digit = 0) =>
    infos.sinfo[INFOS_ID_CTL].log_switch = 0
=============================================================================
