----------------------------- MODULE MCWithdraw -----------------------------
(* Values of Withdraw's constants for the run withdraw.cfg. *)
EXTENDS Withdraw, TLC

CONSTANTS profit, small, large

\* At first Seoul is a date ahead of UTC.
MCUtcDate == (0 :> 1) @@ (1 :> 2)
MCSeoulDate == (0 :> 2) @@ (1 :> 2)

MCPrincipal == (profit :> 0) @@ (small :> 1) @@ (large :> 2)

MCSymmetry ==
    Permutations(Challenge) \cup Permutations(Key) \cup Permutations(Request) \cup Permutations(Caller)
=============================================================================
