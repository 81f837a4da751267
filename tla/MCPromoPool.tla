---------------------------- MODULE MCPromoPool ----------------------------
(***************************************************************************)
(* Two mission accruals, one with a hold, and one edge with both payouts,  *)
(* out of a pool that pays for one of them.                                *)
(***************************************************************************)
EXTENDS PromoPool, TLC

CONSTANTS a1, a2, e1, k1, c1, c2

MCAmount == [r \in Reward |-> IF r = <<e1, "L3">> THEN 1 ELSE 2]

CallerSymmetry == Permutations(Caller)

=============================================================================
