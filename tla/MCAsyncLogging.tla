--------------------------- MODULE MCAsyncLogging ---------------------------
(***************************************************************************)
(* Instances of AsyncLogging for TLC.                                      *)
(***************************************************************************)
EXTENDS AsyncLogging, TLC

Symmetry == Permutations(Backends)
=============================================================================
