---------------------------- MODULE MCModRoutes ----------------------------
(* Small instances of ModRoutes for TLC. *)
EXTENDS ModRoutes, TLC

Symmetric == Permutations(Call) \cup Permutations(Item) \cup Permutations(Depth)
=============================================================================
