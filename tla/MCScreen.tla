------------------------------ MODULE MCScreen ------------------------------
(***************************************************************************)
(* Three sub-agents for two tabs; the third bitmap fills the cache alone.  *)
(***************************************************************************)
EXTENDS Screen, TLC

CONSTANTS a1, a2, a3, k1, k2, k3

Sizes == k1 :> 1 @@ k2 :> 1 @@ k3 :> 2

AgentsAlike == Permutations(Agents)
=============================================================================
