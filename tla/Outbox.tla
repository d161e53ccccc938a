------------------------------- MODULE Outbox -------------------------------
(***************************************************************************)
(* What notification delivery promises, without lanes, slots, locks or     *)
(* goroutines: each configuration has a bounded queue of batches, every    *)
(* batch is handed to the publishers once, in the order of generation, and *)
(* a shutdown that reports success comes after the last of them.           *)
(***************************************************************************)
EXTENDS Naturals, Sequences

CONSTANTS
  Lanes,     \* configurations
  Served,    \* configurations whose publishers answer
  Batches,   \* what commands generate
  Capacity   \* batches a configuration may have outstanding

VARIABLES
  gen,       \* per configuration, the batches generated so far
  att,       \* per configuration, the batches handed over so far
  shut       \* a shutdown has reported success

outboxVars == <<gen, att, shut>>

OutboxInit == /\ gen = [l \in Lanes |-> <<>>]
              /\ att = [l \in Lanes |-> <<>>]
              /\ shut = FALSE

Generate(l, b) ==
  /\ ~shut
  /\ Len(gen[l]) - Len(att[l]) < Capacity
  /\ \A k \in Lanes : \A i \in 1..Len(gen[k]) : gen[k][i] # b
  /\ gen' = [gen EXCEPT ![l] = Append(@, b)]
  /\ UNCHANGED <<att, shut>>

Attempt(l) ==
  /\ Len(att[l]) < Len(gen[l])
  /\ att' = [att EXCEPT ![l] = Append(@, gen[l][Len(att[l]) + 1])]
  /\ UNCHANGED <<gen, shut>>

Shut ==
  /\ ~shut /\ att = gen
  /\ shut' = TRUE
  /\ UNCHANGED <<gen, att>>

OutboxNext == \/ \E l \in Lanes, b \in Batches : Generate(l, b)
              \/ \E l \in Lanes : Attempt(l)
              \/ Shut

OutboxSpec == OutboxInit /\ [][OutboxNext]_outboxVars

OutboxFairSpec == OutboxSpec /\ \A l \in Served : WF_outboxVars(Attempt(l))
=============================================================================
