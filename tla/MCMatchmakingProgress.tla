------------------------ MODULE MCMatchmakingProgress ------------------------
(* Instance of MatchmakingProgress for TLC. *)
EXTENDS MatchmakingProgress

\* Two-ticket matches.
Pairs == {r \in SUBSET Tickets : Cardinality(r) = 2}
=============================================================================
