-------------------------------- MODULE OptEntry --------------------------------
(***************************************************************************)
(* utils/opt_entry: getopt_long_entry() turns the command line of the      *)
(* packet filter and the deep analysis into structures, and checks them.   *)
(* A string is 1 when given and 0 when NULL; a number is the value its     *)
(* argument spells; times, unsigned long, are not negative.  getopt_long(), *)
(* external, returns "?" for what the short option string does not have    *)
(* ('p' among them), and the letter for what it has.                       *)
(***************************************************************************)
EXTENDS Integers, Sequences

CONSTANTS
  CommandLine, \* the options users give: pairs of what getopt_long() returns and optarg
  MaxArgs      \* bound on their number

VARIABLES
  opts,       \* the fields of format_opts, filter_option and deep_dissector_option
  onlyFilter, \* is_only_filter_lib
  onlyDeep,   \* is_only_deep
  parsing,    \* where getopt_long_entry() is
  optRet,     \* what it returned
  args        \* number of options parsed

oeVars == <<opts, onlyFilter, onlyDeep, parsing, optRet, args>>

\* The options that set a field to their argument.
Strings == [r |-> "pcap_file_name", t |-> "d_table_tag", p |-> "conf_file",
            f |-> "download_file_name", k |-> "key_name", ip |-> "ip", sip |-> "sip",
            dip |-> "dip", mac |-> "mac", smac |-> "smac", dmac |-> "dmac",
            protocol |-> "protocol", domain |-> "domain_id", application |-> "app_id"]
Integers32 == [a |-> "start_timestamp", z |-> "end_timestamp", s |-> "pkts_num",
               find_type |-> "find_type"]
Shorts == [port |-> "port", sport |-> "sport", dport |-> "dport"]
Flags == [c |-> "is_only_check", m |-> "is_non_deamon", ipv6 |-> "is_ipv6"]

Targets(table) == {table[o] : o \in DOMAIN table}
Fields == Targets(Strings) \cup Targets(Integers32) \cup Targets(Shorts) \cup Targets(Flags)
          \cup {"is_from_pcap"}

\* What getopt_long() returns, with the number an argument spells.
Options == DOMAIN Strings \cup DOMAIN Integers32 \cup DOMAIN Shorts \cup DOMAIN Flags
           \cup {"o", "v", "V", "h", "?", "n"}

ASSUME OptEntryAssumption ==
  /\ MaxArgs \in Nat
  /\ \A o \in CommandLine : o[1] \in Options /\ o[2] \in Int /\ (o[1] \in {"a", "z"} => o[2] >= 0)

OptEntryInit ==
  /\ opts = [x \in Fields |-> 0]
  /\ onlyFilter = FALSE /\ onlyDeep = FALSE
  /\ parsing = "called" /\ optRet = 0 /\ args = 0

\* memset() of both structures, and the defaults: packets come from a pcap file.
Enter ==
  /\ parsing = "called"
  /\ opts' = [x \in Fields |-> IF x \in {"is_from_pcap", "d_table_tag", "conf_file"}
                               THEN 1 ELSE 0]
  /\ parsing' = "parse"
  /\ UNCHANGED <<onlyFilter, onlyDeep, optRet, args>>

\* argc < 2
NoArguments ==
  /\ parsing = "called"
  /\ parsing' = "returned" /\ optRet' = -1
  /\ UNCHANGED <<opts, onlyFilter, onlyDeep, args>>

\* The option that sets the field, and the value it stores: a port is an
\* unsigned short.  (Mutant: it is an int.)
FieldOf(o) ==
  CASE o \in DOMAIN Strings -> Strings[o] [] o \in DOMAIN Integers32 -> Integers32[o]
    [] o \in DOMAIN Shorts -> Shorts[o] [] o \in DOMAIN Flags -> Flags[o]
    [] o = "o" -> "is_from_pcap"
Stored(o, arg) ==
  CASE o \in DOMAIN Strings \cup DOMAIN Flags -> 1 [] o \in DOMAIN Integers32 -> arg
    [] o \in DOMAIN Shorts -> arg % 65536 [] o = "o" -> 0

\* One turn of the loop; an unknown option is reported and passed over.
Option(o, arg) ==
  /\ parsing = "parse" /\ args < MaxArgs
  /\ args' = args + 1
  /\ \/ /\ o \in {"v", "V", "h"}
        /\ parsing' = "exited"
        /\ UNCHANGED <<opts, onlyFilter, onlyDeep>>
     \/ /\ o \in {"?", "n"}
        /\ UNCHANGED <<opts, onlyFilter, onlyDeep, parsing>>
     \/ /\ o \notin {"v", "V", "h", "?", "n"}
        /\ opts' = [opts EXCEPT ![FieldOf(o)] = Stored(o, arg)]
        /\ onlyFilter' = (onlyFilter \/ o \in {"o", "f", "c"})
        /\ onlyDeep' = (onlyDeep \/ o = "r")
        /\ UNCHANGED parsing
  /\ UNCHANGED optRet

Given(x) == opts[x] # 0

\* check_filter_opts(); the last conflict tests smac twice and dmac never.
CheckFilterOpts ==
  /\ Given("start_timestamp") /\ Given("end_timestamp")
  /\ opts.start_timestamp <= opts.end_timestamp
  /\ Given("is_only_check") => Given("key_name")
  /\ Given("download_file_name") => Given("key_name")
  /\ ~ (Given("is_only_check") /\ Given("download_file_name"))
  /\ ~ ((Given("sip") \/ Given("dip")) /\ Given("ip"))
  /\ ~ ((Given("sport") \/ Given("dport")) /\ Given("port"))
  /\ ~ (Given("smac") /\ Given("mac"))

\* check_deep_opts()
CheckDeepOpts ==
  /\ Given("is_from_pcap") => Given("pcap_file_name")
  /\ ~ Given("is_from_pcap") => ~ Given("pcap_file_name")
  /\ opts.pkts_num > 0

\* Which checks apply: the filter alone, the analysis alone, or both.
\* (Mutant: -r is looked at first.)
VerdictDeepFirst ==
  IF onlyDeep THEN CheckDeepOpts
  ELSE CheckFilterOpts /\ (onlyFilter \/ CheckDeepOpts)
Verdict ==
  IF ~ onlyFilter /\ ~ onlyDeep THEN CheckFilterOpts /\ CheckDeepOpts
  ELSE IF onlyFilter THEN CheckFilterOpts ELSE CheckDeepOpts

\* The options are over.
Leave ==
  /\ parsing = "parse"
  /\ optRet' = IF Verdict THEN 0 ELSE -1
  /\ parsing' = "returned"
  /\ UNCHANGED <<opts, onlyFilter, onlyDeep, args>>

OptEntryNext ==
  \/ Enter \/ NoArguments \/ Leave
  \/ \E o \in CommandLine : Option(o[1], o[2])

OptEntrySpec == OptEntryInit /\ [][OptEntryNext]_oeVars

-----------------------------------------------------------------------------
UShort == 0 .. 65535

\* The types of the structures; a port has 16 bits.
OptEntryTypeOK ==
  /\ opts \in [Fields -> Int]
  /\ \A s \in DOMAIN Shorts : opts[Shorts[s]] \in UShort
  /\ onlyFilter \in BOOLEAN /\ onlyDeep \in BOOLEAN
  /\ parsing \in {"called", "parse", "exited", "returned"} /\ optRet \in {0, -1}

Accepted == parsing = "returned" /\ optRet = 0

\* The filter library reads the packets, or only counts or stores them.
UsesFilter == ~ Given("is_from_pcap") \/ Given("is_only_check") \/ Given("download_file_name")

\* opt_entry_inner.c:309-312: the checks of the filter's options are left out
\* only when the filter is not used.  Whatever the order and repetition of the
\* options, a command line that is accepted and uses the filter has a period, stores
\* or counts under a key and does not do both, and names no ip, port or mac both with
\* and without a direction, but for one pair: line 73 tests smac twice, so that --mac
\* with --dmac is accepted, against the message at line 74.
FilterRunsAreChecked ==
  Accepted /\ UsesFilter =>
    /\ 0 < opts.start_timestamp /\ opts.start_timestamp <= opts.end_timestamp
    /\ Given("is_only_check") \/ Given("download_file_name") => Given("key_name")
    /\ ~ (Given("is_only_check") /\ Given("download_file_name"))
    /\ Given("ip") => ~ Given("sip") /\ ~ Given("dip")
    /\ Given("port") => ~ Given("sport") /\ ~ Given("dport")
    /\ Given("mac") => ~ Given("smac")

\* An accepted command line that does not use the filter has a pcap file, and a
\* number of packets to read from it.  Only then are the options of the deep analysis
\* checked: with -o it runs too (line 187), with any -s and -r, and the message at
\* line 103 never comes.
PcapRunsAreChecked ==
  Accepted /\ ~ UsesFilter =>
    Given("is_from_pcap") /\ Given("pcap_file_name") /\ opts.pkts_num > 0

\* Whatever the order and repetition of the options: a command line that uses the
\* filter has passed the filter's checks, any other those of the deep analysis.
OptEntryInv == OptEntryTypeOK /\ FilterRunsAreChecked /\ PcapRunsAreChecked
=============================================================================
