---------------------------- MODULE MCStateStore ----------------------------
(* Two users with row keys of their own, for TLC.                          *)
EXTENDS StateStore, TLC

CONSTANTS u1, u2, k1, k2

Keys     == u1 :> k1 @@ u2 :> k2
Symmetry == Permutations(Object)
=============================================================================
