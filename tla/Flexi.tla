-------------------------------- MODULE Flexi --------------------------------
(***************************************************************************)
(* The matchmaking engine of one configuration (github.com/moepig/flexi),  *)
(* which is not part of the repository: its interface as the service and   *)
(* its tests use it.  What the repository does not determine is left       *)
(* nondeterministic:                                                       *)
(*   - which of the legal rosters a tick forms, and which requests it      *)
(*     times out;                                                          *)
(*   - when an acceptance deadline passes;                                 *)
(*   - what becomes of the other tickets of a proposal torn down by        *)
(*     Cancel (each is cancelled or requeued);                             *)
(*   - whether Cancel of a finished ticket reports success (with the       *)
(*     constant CancelFinished), an unknown ticket, or another error.      *)
(***************************************************************************)
EXTENDS Ticket, FiniteSets

CONSTANTS
  Tickets,             \* ticket ids
  Rosters,             \* the sets of tickets the rule set can seat together
  Times,               \* creation times of proposals
  CancelFinished,      \* Cancel of a finished ticket may report success
  Policies             \* the values of acceptanceRequired to consider

ASSUME FlexiConstants ==
  /\ Rosters \subseteq (SUBSET Tickets) \ {{}}
  /\ Policies \subseteq BOOLEAN /\ CancelFinished \in BOOLEAN

VARIABLES
  eng,                 \* the engine's tickets
  pending,             \* proposals waiting for acceptance
  AcceptanceRequired   \* the configuration's acceptance policy, which is fixed

engVars == <<eng, pending>>

Unknown == "UNKNOWN"   \* Status reports ErrUnknownTicket
InPool  == {"QUEUED", "SEARCHING"}

EngineTicket == [status   : Statuses \cup {Unknown},
                 accepted : SUBSET Players,
                 backfill : BOOLEAN]

Proposal == [ids : SUBSET Tickets, createdAt : Times, expired : BOOLEAN]

FlexiTypeOK == /\ eng \in [Tickets -> EngineTicket]
               /\ pending \in SUBSET Proposal
               /\ AcceptanceRequired \in Policies

NoEngineTicket == [status |-> Unknown, accepted |-> {}, backfill |-> FALSE]

FlexiInit == /\ eng = [t \in Tickets |-> NoEngineTicket]
             /\ pending = {}
             /\ AcceptanceRequired \in Policies

\* Enqueue and EnqueueBackfill refuse an id the engine still holds.
Enqueued(e, t, backfill) ==
  [e EXCEPT ![t] = [status |-> "QUEUED", accepted |-> {}, backfill |-> backfill]]

\* PendingAcceptances: a proposal at or past its deadline is not reported.
PendingAcceptances == {p \in pending : ~p.expired}

\* Every player of the ticket has accepted the proposal it is in.
FullyAccepted(t) == eng[t].accepted = Players

\* A ticket leaves a proposal that will not become a match.
Dropped(t, status) == [eng[t] EXCEPT !.status = status, !.accepted = {}]

\* The engine's tickets once the proposals F have failed acceptance: a ticket
\* whose players all accepted is requeued, any other is cancelled.  A ticket of
\* lost never counts as accepted.
Failed(F, lost) ==
  [t \in Tickets |->
     IF \E p \in F : t \in p.ids
     THEN Dropped(t, IF FullyAccepted(t) /\ t \notin lost THEN "SEARCHING"
                     ELSE "CANCELLED")
     ELSE eng[t]]

Accept(t, ids) == [eng EXCEPT ![t].accepted = @ \cup ids]

\* Reject settles the ticket's proposals at once.
ProposalsOf(t) == {p \in pending : t \in p.ids}
Reject(t) == Failed(ProposalsOf(t), {t})

\* Cancel of a ticket the engine is still working on; requeued are the other
\* tickets of its proposal that go back to the pool.
Cancelled(t, requeued) ==
  [u \in Tickets |->
     IF u = t THEN Dropped(t, "CANCELLED")
     ELSE IF \E p \in ProposalsOf(t) : u \in p.ids
          THEN Dropped(u, IF u \in requeued THEN "SEARCHING" ELSE "CANCELLED")
          ELSE eng[u]]

Siblings(t) == (UNION {p.ids : p \in ProposalsOf(t)}) \ {t}
Live(t)     == eng[t].status \in InPool \cup {"REQUIRES_ACCEPTANCE"}

-----------------------------------------------------------------------------
(* Tick: accepted proposals become matches, lapsed ones fail, requests time
   out, and new rosters form from the pool. *)

AcceptedProposals == {p \in pending : \A t \in p.ids : FullyAccepted(t)}

\* A request that times out while its proposal is pending takes it down too.
LapsedProposals(timedOut) ==
  {p \in pending \ AcceptedProposals : p.expired \/ p.ids \cap timedOut # {}}

\* Requests whose budget may run out at this tick.
MayTimeOut == {t \in Tickets : Live(t) /\ ~\E p \in AcceptedProposals : t \in p.ids}

\* The engine's tickets before new rosters form.
Settled(timedOut) ==
  [t \in Tickets |->
     IF t \in timedOut THEN Dropped(t, "TIMED_OUT")
     ELSE IF \E p \in AcceptedProposals : t \in p.ids THEN Dropped(t, "PLACING")
     ELSE Failed(LapsedProposals(timedOut), {})[t]]

\* At most one backfill request in a match, and at least one new ticket.
Seats(r, e) ==
  /\ \A t \in r : e[t].status \in InPool
  /\ \E t \in r : ~e[t].backfill
  /\ \A t, u \in r : e[t].backfill /\ e[u].backfill => t = u

Disjoint(formed) == \A r, s \in formed : r # s => r \cap s = {}

MayForm(e) == {formed \in SUBSET {r \in Rosters : Seats(r, e)} : Disjoint(formed)}

TickMatches(formed) ==
  {p.ids : p \in AcceptedProposals} \cup (IF AcceptanceRequired THEN {} ELSE formed)

\* The proposals pending after the tick.
TickPending(timedOut, formed, now) ==
  (pending \ (AcceptedProposals \cup LapsedProposals(timedOut)))
  \cup (IF AcceptanceRequired
        THEN {[ids |-> r, createdAt |-> now, expired |-> FALSE] : r \in formed}
        ELSE {})

TickTickets(timedOut, formed) ==
  LET e == Settled(timedOut)
  IN  [t \in Tickets |->
         IF t \in UNION formed
         THEN [e[t] EXCEPT !.status = IF AcceptanceRequired
                                      THEN "REQUIRES_ACCEPTANCE" ELSE "PLACING"]
         ELSE e[t]]

\* MarkCompleted of the tickets S, and Evict, which refuses a live ticket.
MarkCompleted(e, S) ==
  [t \in Tickets |-> IF t \in S THEN [e[t] EXCEPT !.status = "COMPLETED"] ELSE e[t]]

Evicted(e, S) ==
  [t \in Tickets |-> IF t \in S /\ IsTerminal(e[t].status) THEN NoEngineTicket ELSE e[t]]

\* The clock passes the acceptance deadlines of the proposals P.
Lapse(proposals, P) == {IF p \in P THEN [p EXCEPT !.expired = TRUE] ELSE p : p \in proposals}

Deadline(p) ==
  /\ p \in PendingAcceptances
  /\ pending' = Lapse(pending, {p})
  /\ UNCHANGED eng
=============================================================================
