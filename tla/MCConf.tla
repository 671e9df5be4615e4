-------------------------------- MODULE MCConf --------------------------------
(***************************************************************************)
(* Instances of ConfCore and IriConf for TLC: the lines a file is made of. *)
(***************************************************************************)
EXTENDS IriConf

Line(kind) == [kind |-> kind]
Dash(name) == [kind |-> "dash", name |-> name]
Switch(digit) == [kind |-> "switch", digit |-> digit]
Setting(key, val) == [kind |-> "pair", key |-> key, val |-> val]

\* One section name, a section without one, and two values for one key of which
\* none fits all the types.  (TLC's integers have 32 bits, so IntSpan and LongSpan
\* are smaller than those of the code; the proofs are for every even number.)
AppLines ==
  {Line("comment"), Line("bare"), Line("long"), Line("wide"), Line("huge"),
   Dash("a"), Dash(""), Dash("end"), Switch(0), Switch(1),
   Setting("k", -1), Setting("k", IntSpan + 40000)}

\* The total switch, the default name and another one, switches of which the
\* second list has a digit that is not allowed.
ManyLogLines ==
  {Dash(TOTAL_SWITCH), Dash(DEFAULT_NAME), Dash("a"), Dash("end"), Switch(0),
   Setting("IS_VALID", 1), Setting("TIMMER", 1),
   Setting("DEBUG.INFO.ERR.FATAL", <<1, 1, 2, 1>>), Setting("SINGLE_MAX_SIZE", 7)}
FewLogLines == {Switch(0), Dash("a"), Dash("end")}
=============================================================================
