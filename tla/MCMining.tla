------------------------------ MODULE MCMining ------------------------------
(***************************************************************************)
(* One position and two calls at a time, on a pool of three connections:   *)
(* a call at work needs two of them, and one that waits for it has one.    *)
(***************************************************************************)
EXTENDS Mining

CONSTANTS p1, plot, k1, c1, c2

MCPlotOf == [p \in Position |-> plot]
MCRequested == [p \in Position |-> 1]

=============================================================================
