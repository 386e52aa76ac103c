-------------------------- MODULE MCInstanceManager --------------------------
(* Small instances of InstanceManager.                                     *)
EXTENDS InstanceManager, TLC

Interchangeable == Permutations(Calls) \cup Permutations(Names)
=============================================================================
