---------------------------- MODULE MCKrwDeposit ----------------------------
(***************************************************************************)
(* Two requests for TLC that can be offered a common amount, two exchange  *)
(* rates, and two calls in flight.                                         *)
(***************************************************************************)
EXTENDS KrwDeposit, TLC

CONSTANTS r1, r2, c1, c2, x1, x2

MCOffer == [r \in Request |-> IF r = r1 THEN {101, 102} ELSE {102}]

CallerSymmetry == Permutations(Caller)

=============================================================================
