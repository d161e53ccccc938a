------------------------------ MODULE MCServer ------------------------------
(* Instances of Server for TLC. *)
EXTENDS Server

\* All requests and ticks on one configuration.
OneLane == [p \in Producers |-> CHOOSE l \in Lanes : TRUE]
=============================================================================
