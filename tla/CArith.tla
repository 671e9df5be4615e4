-------------------------------- MODULE CArith --------------------------------
(***************************************************************************)
(* Integer division of C and C++: the quotient is truncated, and the       *)
(* remainder has the sign of the dividend.                                 *)
(***************************************************************************)
EXTENDS Integers

Quot(a, b) == IF a >= 0 THEN a \div b ELSE - ((- a) \div b)
Remainder(a, b) == a - b * Quot(a, b)
=============================================================================
