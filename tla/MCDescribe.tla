------------------------------ MODULE MCDescribe ------------------------------
(* Instance of Describe for TLC. *)
EXTENDS Describe, TLC

Symmetry == Permutations(Players)

\* Two-ticket matches.
Pairs == {r \in SUBSET Tickets : Cardinality(r) = 2}
=============================================================================
