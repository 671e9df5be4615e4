------------------------------- MODULE ConfCore -------------------------------
(***************************************************************************)
(* The reader of configuration files.  It exists twice, with few           *)
(* differences: utils/config/iridium_conf_core.c (lib = "utils", used      *)
(* through iridium_conf.c) and iridiumlog_conf/iridium_conf_core.c         *)
(* (lib = "log", used through iridiumlog_conf.c, see IriConf).             *)
(*                                                                         *)
(* A line of the file is abstracted to what the reader tells apart:        *)
(*   comment  empty, or a '#' after blanks only                            *)
(*   switch   "@CONF_SWITCH=d" or "@LOG_SWITCH=d"                          *)
(*   dash     "-name"; name is "" when nothing, or a comment, follows,     *)
(*            and "end" when it begins with these three letters            *)
(*   pair     "key = val"                                                  *)
(*   bare     text, or blanks, without '='                                 *)
(*   long     '=' with a name or value that does not fit                   *)
(*   wide     256 characters or more, but fewer than MAX_LINE_LEN          *)
(*   huge     MAX_LINE_LEN characters or more                              *)
(* ("-name" with a name that is too long is a dash with the name "" and    *)
(* then such a line.)                                                      *)
(* malloc() and fread() do not fail in the model.                          *)
(***************************************************************************)
EXTENDS Integers, Sequences, SequencesExt

CONSTANTS
  UtilsLines,  \* the lines that may occur in a file of the application
  LogLines,    \* the lines that may occur in a file of the log library
  MaxNodeNum,  \* CONF_MAX_NODE_NUM, 64
  IntSpan,     \* the number of values of an int, 2^32
  LongSpan,    \* the number of values of a long, 2^64
  MaxUtilsLines, MaxLogLines \* bounds on the lengths of these files

\* A line with '@' in the first place is a switch; the application's values are numbers
\* that fit a long; transfer_char_to_int() gives a digit, or -1.
ASSUME ConfCoreAssumption ==
  /\ MaxNodeNum \in Nat \ {0} /\ {MaxUtilsLines, MaxLogLines} \subseteq Nat
  /\ \A span \in {IntSpan, LongSpan} : span \in Nat \ {0} /\ span % 2 = 0
  /\ \A l \in UtilsLines \cup LogLines : l.kind = "pair" => l.key # "@SWITCH"
  /\ \A l \in UtilsLines : l.kind = "pair" => l.val \in -(LongSpan \div 2) .. ((LongSpan \div 2) - 1)
  /\ \A l \in LogLines : l.kind = "switch" => l.digit \in -1 .. 9

VARIABLES
  lib,      \* which of the two copies of the code runs
  conf,     \* the iri_conf_manager_t, see Manager
  block,    \* lines since block_start; << >> when block_start_flag is set
  reading,  \* whether get_conf_info_from_file() is under way
  ret,      \* what it returned last
  process,  \* "running", "exited", or "undefined" once freed memory is used
            \* or an array is overrun
  file      \* history: the lines of the file that the last call read

coreVars == <<lib, conf, block, reading, ret, process, file>>

\* The error codes of the log library; those of utils are negative.
REPEAT_INIT_ERR == 3
OPEN_FILE_ERR == 4
CONF_CLOSE_ALL == 9

\* iri_conf: a hash table, NULL, or a table that was destroyed.  Its entries are
\* in the order of insertion; `dangling' marks a key that points into a section
\* that was freed when another of the same name replaced it.
NullManager == [tab |-> "null", entries |-> << >>, count |-> 0, init |-> FALSE, switch |-> 0]

\* init_manager()
FreshManager == [tab |-> "live", entries |-> << >>, count |-> 0, init |-> TRUE, switch |-> 1]

CoreInit ==
  /\ lib \in {"utils", "log"}
  /\ conf = NullManager
  /\ block = << >> /\ reading = FALSE /\ ret = 0 /\ process = "running" /\ file = << >>

-----------------------------------------------------------------------------
(* One section of the file *)

\* check_comment_line(): nothing is left of the line.
IsComment(l) == l.kind = "comment" \/ (l.kind = "dash" /\ l.name = "")

\* iri_conf_line_handle() succeeds.  A switch line in a section is a pair too.
IsPair(l) == l.kind \in {"pair", "switch"}

Pair(l) == IF l.kind = "pair" THEN [key |-> l.key, val |-> l.val]
                              ELSE [key |-> "@SWITCH", val |-> l.digit]

\* get_string() of the first line that is not a comment
ModeName(l) == CASE l.kind = "dash" -> l.name
                 [] l.kind = "pair" -> l.key
                 [] OTHER -> l.kind

\* A line of MAX_LINE_LEN characters ends the section.
BeforeHuge(b) ==
  LET huge == {i \in DOMAIN b : b[i].kind = "huge"}
  IN IF huge = {} THEN b ELSE SubSeq(b, 1, Min(huge) - 1)

\* The lines of b that are not comments.
NoComments(b) ==
  LET kept[i \in 0 .. Len(b)] ==
        IF i = 0 THEN << >>
        ELSE IF IsComment(b[i]) THEN kept[i - 1] ELSE Append(kept[i - 1], b[i])
  IN  kept[Len(b)]

\* handle_conf_block(): {} for NULL, or the section in a singleton.  A line that
\* is no pair drops the whole section; after MaxNodeNum pairs nothing is read.
HandleConfBlock(b) ==
  LET lines == NoComments(BeforeHuge(b))
      body == SubSeq(lines, 2, IF Len(lines) > MaxNodeNum THEN MaxNodeNum + 1 ELSE Len(lines))
  IN IF lines = << >> \/ lines[1].kind \in {"long", "wide"} \/ \E i \in DOMAIN body : ~ IsPair(body[i])
     THEN {}
     ELSE {[name |-> ModeName(lines[1]),
            pairs |-> [i \in DOMAIN body |-> Pair(body[i])]]}

\* get_string() copies the title into line[256], however long it is.
TitleOverruns(b) ==
  LET lines == NoComments(BeforeHuge(b))
  IN lines # << >> /\ lines[1].kind = "wide"

\* get_value(): the first pair with the name.  (Mutant: the last one.)
LastValue(pairs, key) ==
  LET hits == {i \in DOMAIN pairs : pairs[i].key = key}
  IN IF hits = {} THEN {} ELSE {pairs[Max(hits)].val}
GetValue(pairs, key) ==
  LET hits == {i \in DOMAIN pairs : pairs[i].key = key}
  IN IF hits = {} THEN {} ELSE {pairs[Min(hits)].val}

-----------------------------------------------------------------------------
(* The hash table *)

\* g_hash_table_lookup(): the entry it stops at, 0 for none.
Found(entries, name) ==
  LET mine == {i \in DOMAIN entries : entries[i].section.name = name}
  IN IF mine = {} THEN {0} ELSE mine

\* It compares the name with a key in freed memory.
ReadsFreedKey(entries, name) ==
  \E i \in DOMAIN entries : entries[i].dangling /\ entries[i].section.name = name

\* insert_new_node(): g_hash_table_insert() of an existing key keeps the old key
\* and frees the old section, which holds it.
Insert(entries, section, i) ==
  IF i = 0 THEN Append(entries, [section |-> section, dangling |-> FALSE])
           ELSE [entries EXCEPT ![i] = [section |-> section, dangling |-> TRUE]]

-----------------------------------------------------------------------------
(* get_conf_info_from_file() *)

\* The dash lines of a file open and close sections in turn; a misplaced one would
\* have to be "-end".
Dashes(f) == {i \in DOMAIN f : f[i].kind = "dash"}
Before(f, i) == Cardinality({d \in Dashes(f) : d < i})
Misplaced(f) == {i \in Dashes(f) : Before(f, i) % 2 = 1 /\ f[i].name # "end"}

\* init_global_config(), which clears the manager, and get_log_conf_infos(),
\* whose manager is new: both start afresh.  fopen() may fail.
OpenFile ==
  /\ process = "running" /\ ~ reading
  /\ conf' = FreshManager
  /\ block' = << >> /\ file' = << >>
  /\ \/ reading' = TRUE /\ UNCHANGED ret
     \/ reading' = FALSE /\ ret' = OPEN_FILE_ERR
  /\ UNCHANGED <<lib, process>>

\* get_conf_info_from_file() on a manager in use.
RepeatInit ==
  /\ process = "running" /\ ~ reading /\ lib = "utils" /\ conf.init
  /\ ret' = REPEAT_INIT_ERR
  /\ UNCHANGED <<lib, conf, block, reading, process, file>>

\* get_conf_info_from_file_err_exit.  After an error the copy in utils destroys
\* the table and keeps the pointer.
Exit(r, manager) ==
  /\ reading' = FALSE /\ ret' = r
  /\ conf' = IF r # 0 /\ lib = "utils" THEN [manager EXCEPT !.tab = "dead", !.entries = << >>]
                                        ELSE manager

MaxLines == IF lib = "utils" THEN MaxUtilsLines ELSE MaxLogLines
Lines == IF lib = "utils" THEN UtilsLines ELSE LogLines

ReadsLine(l) ==
  /\ process = "running" /\ reading /\ Len(file) < MaxLines
  /\ file' = Append(file, l)
  /\ UNCHANGED lib

\* The line belongs to the block, if there is one.
Keeps(l) == block' = IF block = << >> THEN block ELSE Append(block, l)

ReadPlain(l) ==
  /\ ReadsLine(l) /\ l.kind \notin {"switch", "dash"}
  /\ Keeps(l)
  /\ UNCHANGED <<conf, reading, ret, process>>

\* '@': a zero ends the reading; only the log library records the digit.
Switched(digit) == IF lib = "log" THEN [conf EXCEPT !.switch = digit] ELSE conf

ReadSwitch(l) ==
  /\ ReadsLine(l) /\ l.kind = "switch"
  /\ \/ l.digit = 0 /\ Exit(CONF_CLOSE_ALL, Switched(0)) /\ UNCHANGED block
     \/ l.digit # 0 /\ conf' = Switched(l.digit) /\ Keeps(l) /\ UNCHANGED <<reading, ret>>
  /\ UNCHANGED process

ReadStart(l) ==
  /\ ReadsLine(l) /\ l.kind = "dash" /\ block = << >>
  /\ block' = <<l>>
  /\ UNCHANGED <<conf, reading, ret, process>>

\* Closing the block is undefined: its title overruns line[256], or the table
\* compares its name with a key that was freed.
EndIsUndefined ==
  \/ TitleOverruns(block)
  \/ \E s \in HandleConfBlock(block) : ReadsFreedKey(conf.entries, s.name)

\* "-end"
ReadEnd(l) ==
  /\ ReadsLine(l) /\ l.kind = "dash" /\ l.name = "end" /\ block # << >>
  /\ ~ EndIsUndefined
  /\ LET sections == HandleConfBlock(block)
     IN \/ sections = {} /\ UNCHANGED conf
        \/ \E s \in sections : \E i \in Found(conf.entries, s.name) :
             conf' = [conf EXCEPT !.entries = Insert(conf.entries, s, i), !.count = @ + 1]
  /\ block' = << >>
  /\ UNCHANGED <<reading, ret, process>>

ReadEndUndefined(l) ==
  /\ ReadsLine(l) /\ l.kind = "dash" /\ l.name = "end" /\ block # << >>
  /\ EndIsUndefined
  /\ process' = "undefined"
  /\ UNCHANGED <<conf, block, reading, ret>>

\* "end error, need destroy!": the copy in utils leaves with ret still 0, and
\* PRINT_ERR_FATAL() of the log library calls exit().
ReadEndError(l) ==
  /\ ReadsLine(l) /\ l.kind = "dash" /\ l.name # "end" /\ block # << >>
  /\ \/ lib = "utils" /\ Exit(0, conf) /\ UNCHANGED process
     \/ lib = "log" /\ process' = "exited" /\ UNCHANGED <<conf, reading, ret>>
  /\ UNCHANGED block

\* The rest of that file is not read.  It is part of the history, for the properties
\* to see what is lost.
RestOfFile(l) ==
  /\ process = "running" /\ lib = "utils" /\ ~ reading /\ conf.tab = "live"
  /\ Misplaced(file) # {} /\ Len(file) < MaxLines
  /\ file' = Append(file, l)
  /\ UNCHANGED <<lib, conf, block, reading, ret, process>>

\* The steps of the loop.
ReadLine(l) ==
  \/ ReadPlain(l) \/ ReadSwitch(l) \/ ReadStart(l)
  \/ ReadEnd(l) \/ ReadEndUndefined(l) \/ ReadEndError(l)

EndOfFile ==
  /\ process = "running" /\ reading
  /\ Exit(0, conf)
  /\ UNCHANGED <<lib, block, process, file>>

-----------------------------------------------------------------------------
(* iridium_conf.c: the rest of the application's interface *)

\* memset() after destroy_iri_conf().  (Mutant: it is left out.)
DestroyedManager == [conf EXCEPT !.tab = "dead", !.entries = << >>]
ClearedManager == NullManager

\* destroy_global_config(): g_hash_table_destroy() of a destroyed table is
\* undefined.
DestroyGlobalConfig ==
  /\ process = "running" /\ ~ reading /\ lib = "utils"
  /\ process' = IF conf.tab = "dead" THEN "undefined" ELSE process
  /\ conf' = ClearedManager
  /\ UNCHANGED <<lib, block, reading, ret, file>>

\* get_iri_conf_*() of a destroyed table, or of a name whose key was freed; else a
\* lookup changes nothing, see GetIriConf.
GetFreed ==
  /\ process = "running" /\ ~ reading /\ lib = "utils"
  /\ conf.tab = "dead" \/ \E i \in DOMAIN conf.entries : conf.entries[i].dangling
  /\ process' = "undefined"
  /\ UNCHANGED <<lib, conf, block, reading, ret, file>>

\* get_iridium_config_value(), where it is defined: {} for NULL.
GetConfigValue(mode, key) ==
  IF conf.tab # "live" THEN {{}}
  ELSE {IF i = 0 THEN {} ELSE GetValue(conf.entries[i].section.pairs, key) :
          i \in Found(conf.entries, mode)}

\* The bits that are kept of an integer: (gint8)(v & 0xff) and so on.
Narrow(v, span, signed) ==
  LET low == v % span
  IN IF signed /\ 2 * low >= span THEN low - span ELSE low

IntTypes == {"int", "gint8", "gint16", "gint32", "gint64", "guint8", "guint16", "guint32", "guint64"}
Signed(type) == type \in {"int", "gint8", "gint16", "gint32", "gint64"}
Span(type) == CASE type \in {"gint8", "guint8"} -> 256
                [] type \in {"gint16", "guint16"} -> 65536
                [] type \in {"int", "gint32", "guint32"} -> IntSpan
                [] OTHER -> LongSpan

\* READ_IRIDIUM_CONFIG_AND_LOG(): the number of the file as the type takes it, by
\* sscanf(), or by atoi() or strtoul() and a mask; "str" and "double" keep it.
Converted(x, type) == IF type \in IntTypes THEN Narrow(x, Span(type), Signed(type)) ELSE x

\* get_iri_conf_int() and the others: a missing value is logged, and 0 is returned.
GetIriConf(mode, key, type) ==
  UNION {IF v = {} THEN {0} ELSE {Converted(x, type) : x \in v} : v \in GetConfigValue(mode, key)}

CoreNext ==
  \/ OpenFile \/ RepeatInit \/ EndOfFile
  \/ \E l \in Lines : ReadLine(l) \/ RestOfFile(l)
  \/ DestroyGlobalConfig \/ GetFreed

-----------------------------------------------------------------------------
(* Properties *)

\* The reader's state: a section never has more pairs than its array, and
\* mode_count counts at least the entries.
CoreTypeOK ==
  /\ lib \in {"utils", "log"} /\ reading \in BOOLEAN
  /\ ret \in {0, REPEAT_INIT_ERR, OPEN_FILE_ERR, CONF_CLOSE_ALL}
  /\ process \in {"running", "exited", "undefined"}
  /\ conf.tab \in {"null", "live", "dead"} /\ conf.init \in BOOLEAN
  /\ conf.switch \in -1 .. 9
  /\ Len(conf.entries) <= conf.count
  /\ \A i \in DOMAIN conf.entries : Len(conf.entries[i].section.pairs) <= MaxNodeNum

(***************************************************************************)
(* What a file says, without the order in which it is read: the sections   *)
(* before the first misplaced dash.                                        *)
(***************************************************************************)
Opens(f, i) == i \in Dashes(f) /\ Before(f, i) % 2 = 0
Sections(f) ==
  {s \in (DOMAIN f) \X (DOMAIN f) :
     /\ Opens(f, s[1]) /\ s[1] < s[2] /\ s[2] \in Dashes(f)
     /\ \A d \in Dashes(f) : ~ (s[1] < d /\ d < s[2])
     /\ \A d \in Misplaced(f) : s[2] < d}

\* The line that names a section; 0 if there is none.
Title(f, s) ==
  LET named == {i \in s[1] .. (s[2] - 1) : f[i].kind # "comment" /\ ~ (i = s[1] /\ f[i].name = "")}
  IN IF named = {} THEN 0 ELSE Min(named)

TitleName(f, s) == IF Title(f, s) = 0 THEN "" ELSE ModeName(f[Title(f, s)])

\* Below its title the section has nothing but pairs and comments, and not too many.
WellFormed(f, s) ==
  /\ Title(f, s) # 0 /\ f[Title(f, s)].kind \notin {"long", "wide", "huge"}
  /\ \A i \in (Title(f, s) + 1) .. (s[2] - 1) : f[i].kind \in {"pair", "switch", "comment"}
  /\ Cardinality({i \in (Title(f, s) + 1) .. (s[2] - 1) : f[i].kind # "comment"}) <= MaxNodeNum

Says(f, s, key) ==
  LET hits == {i \in (Title(f, s) + 1) .. (s[2] - 1) : f[i].kind = "pair" /\ f[i].key = key}
  IN IF hits = {} THEN {} ELSE {f[Min(hits)].val}

UniqueNames == \A s, t \in Sections(file) : TitleName(file, s) = TitleName(file, t) => s = t

Modes == {TitleName(file, s) : s \in Sections(file)} \cup {file[i].name : i \in Dashes(file)} \cup {"unknown"}
Keys == {file[i].key : i \in {j \in DOMAIN file : file[j].kind = "pair"}}

Successful == ~ reading /\ ret = 0 /\ conf.tab = "live" /\ process = "running"

\* After a call that returned 0, a lookup yields exactly what the file says before
\* its first misplaced '-': the first value of the key in a well-formed section
\* whose name no other section has, and nothing for a name that heads no section,
\* whatever else the file contains (malformed sections, repeated names, a section
\* left open at the end).  The sections behind a misplaced '-' read as missing: the
\* reader stops there and returns 0 all the same, although the comment on it has
\* "fail : < 0" and the message says "end error, need destroy!".
ReadsWhatIsWritten ==
  Successful =>
    \A mode \in Modes, key \in Keys :
      LET mine == {s \in Sections(file) : TitleName(file, s) = mode}
      IN /\ mine = {} => GetConfigValue(mode, key) = {{}}
         /\ \A s \in mine : mine = {s} /\ WellFormed(file, s) =>
              GetConfigValue(mode, key) = {Says(file, s, key)}

\* get_iri_conf_int() and its siblings: the result has the type's range and
\* differs by a multiple of the range from the number in the file, which
\* get_iri_conf_str() returns, also for negative numbers read as unsigned.
ConversionsWrap ==
  Successful /\ lib = "utils" =>
    \A mode \in Modes, key \in Keys, type \in IntTypes :
      LET low == IF Signed(type) THEN -(Span(type) \div 2) ELSE 0
      IN  /\ GetIriConf(mode, key, type) \subseteq low .. (low + Span(type) - 1)
          /\ \A r \in GetIriConf(mode, key, type) : \E x \in GetIriConf(mode, key, "str") :
               (r - x) % Span(type) = 0

HasZeroSwitch(f) == \E i \in DOMAIN f : f[i].kind = "switch" /\ f[i].digit = 0
HasWideTitle(f) == \E s \in Sections(f) : Title(f, s) # 0 /\ f[Title(f, s)].kind = "wide"

\* The readers and their callers, in any order of calls, use freed memory or overrun
\* an array only because of what the file last read contains: a zero switch (then
\* init_global_config() returns CONF_CLOSE_ALL, having destroyed the table and kept
\* the pointer), two sections of one name (the table keeps the key that lies in the
\* section it freed), or a title of 256 characters or more.
UndefinedOnlyByFile ==
  process = "undefined" => HasZeroSwitch(file) \/ ~ UniqueNames \/ HasWideTitle(file)

\* The values of a file reach the callers, in the types they ask for.
ValuesAsWritten == ReadsWhatIsWritten /\ ConversionsWrap
=============================================================================
