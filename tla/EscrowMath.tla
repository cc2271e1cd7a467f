---------------------------- MODULE EscrowMath ----------------------------
(***************************************************************************)
(* The integer arithmetic of program/src/lib.rs: the protocol fee and the  *)
(* widened multiply-then-divide.  Every amount is a number of lamports.    *)
(* Both functions compute in u128 and narrow to u64, and a commission is   *)
(* capped far below 2^64, so no bound on the width is needed here.         *)
(***************************************************************************)
EXTENDS Integers

CONSTANTS
    FEE_BPS,            \* the protocol fee, in basis points (100 in lib.rs)
    BPS_DENOMINATOR     \* basis points in the whole (10000 in lib.rs)

ASSUME FeeAssumption ==
    /\ BPS_DENOMINATOR \in Nat \ {0}
    /\ FEE_BPS \in 0 .. BPS_DENOMINATOR

mul_div(total, numerator, denominator) == (total * numerator) \div denominator

\* SLIP: the net rounded on its own.
split_fee_rounded_twice(gross) ==
    [ fee |-> mul_div(gross, FEE_BPS, BPS_DENOMINATOR),
      net |-> mul_div(gross, BPS_DENOMINATOR - FEE_BPS, BPS_DENOMINATOR) ]

split_fee(gross) ==
    LET fee == mul_div(gross, FEE_BPS, BPS_DENOMINATOR)
    IN  [fee |-> fee, net |-> gross - fee]
=============================================================================
