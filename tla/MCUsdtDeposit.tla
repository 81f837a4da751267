--------------------------- MODULE MCUsdtDeposit ---------------------------
(***************************************************************************)
(* One deposit for TLC, two observe calls and two ticks at a time, and     *)
(* thresholds of 1 and 2 confirmations for the code's 1 and 19: a report   *)
(* is then unseen, shallow or deep, which is all observe tells apart.      *)
(***************************************************************************)
EXTENDS UsdtDeposit, TLC

CONSTANTS d1, o1, o2, s1, s2

=============================================================================
