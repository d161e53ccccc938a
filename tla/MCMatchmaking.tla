---------------------------- MODULE MCMatchmaking ----------------------------
(* Instances of Matchmaking for TLC. *)
EXTENDS Matchmaking, TLC

Symmetry == Permutations(Tickets) \cup Permutations(MatchIDs) \cup Permutations(Players)

\* Two-ticket matches.
Pairs == {r \in SUBSET Tickets : Cardinality(r) = 2}
=============================================================================
