----------------------------- MODULE MCDelivery -----------------------------
(* Instances of Delivery for TLC. *)
EXTENDS Delivery, TLC

Symmetry == Permutations(Producers) \cup Permutations(Workers)

\* All commands on one configuration.
OneLane == [p \in Producers |-> CHOOSE l \in Lanes : TRUE]

\* The first configuration has one command, the second all others.
TwoLanes == [p \in Producers |-> IF p = CHOOSE q \in Producers : TRUE THEN 1 ELSE 2]
=============================================================================
