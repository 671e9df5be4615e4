------------------------------- MODULE MCIriLog -------------------------------
(***************************************************************************)
(* Instances of IriLog for TLC: configurations that take every early       *)
(* return, with and without the process lock.                              *)
(***************************************************************************)
EXTENDS IriLog, TLC

Section(file, terminal, levels, max, plock) ==
  [file |-> file, terminal |-> terminal, levels |-> levels, max |-> max, plock |-> plock]

Default == Section(TRUE, FALSE, {"other"}, 2, FALSE)
Verbose == Section(TRUE, TRUE, Levels, 1, TRUE)
Screen == Section(FALSE, TRUE, Levels, 1, FALSE)
Off == Section(FALSE, FALSE, Levels, 1, FALSE)

\* LOG_SWITCH = 0, as iridium_init_log() tests it (IriConf shows what the reader
\* of the file makes of it); TOTAL_SWITCH valid with a timer; per-name sections
ManyConfs ==
  LET n == CHOOSE x \in Names : TRUE
  IN {[switch |-> FALSE, valid |-> FALSE, timer |-> FALSE,
       total |-> Default, default |-> Default, named |-> << >>],
      [switch |-> TRUE, valid |-> TRUE, timer |-> TRUE,
       total |-> Verbose, default |-> Default, named |-> << >>],
      [switch |-> TRUE, valid |-> FALSE, timer |-> FALSE,
       total |-> Default, default |-> Screen, named |-> (n :> Default)],
      [switch |-> TRUE, valid |-> FALSE, timer |-> FALSE,
       total |-> Default, default |-> Default, named |-> (n :> Off)]}

\* One configuration that logs everything to files, under the process lock.
OneConf == {[switch |-> TRUE, valid |-> TRUE, timer |-> FALSE,
             total |-> Verbose, default |-> Default, named |-> << >>]}

Symmetry == Permutations(Writers) \cup Permutations(Dates)
=============================================================================
