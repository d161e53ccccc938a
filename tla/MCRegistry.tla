----------------------------- MODULE MCRegistry -----------------------------
(* Instances of Registry for TLC. *)
EXTENDS Registry, TLC

Symmetry == Permutations(Commands) \cup Permutations(IDs) \cup Permutations(Configs)
=============================================================================
