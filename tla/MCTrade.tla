------------------------------ MODULE MCTrade ------------------------------
(***************************************************************************)
(* Two trades for TLC, of capital 1 and 2 out of a principal of 2, so that *)
(* only one of them can be locked unless the other was released, and a     *)
(* locked balance of 1 that belongs to a mining position.                  *)
(***************************************************************************)
EXTENDS Trade, TLC

CONSTANTS t1, t2, c1, c2

MCCapital == [t \in Trade |-> IF t = t1 THEN 1 ELSE 2]

CallerSymmetry == Permutations(Caller)

=============================================================================
