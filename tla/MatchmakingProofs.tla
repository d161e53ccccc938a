------------------------- MODULE MatchmakingProofs -------------------------
(***************************************************************************)
(* Proofs about Matchmaking, for every set of tickets, players, rosters    *)
(* and match ids: the service's account of its tickets, its tracker of     *)
(* matches and the engine's tickets and proposals never come apart.        *)
(*                                                                         *)
(* The properties are not inductive alone.  That a proposal is tracked     *)
(* depends on the tick having named it, that a tracked match will be       *)
(* settled depends on what became of its tickets in the engine, and that   *)
(* the engine never matches a ticket the service has finished depends on   *)
(* both.  IInv says all of it at once.  Its steps:                         *)
(*  - a command that takes a ticket down takes its proposal down with it   *)
(*    (Collapses), and a failed answer does so late (Lapsed);              *)
(*  - a command that brings a ticket in may supersede an earlier one       *)
(*    (Superseded, BringsIn);                                              *)
(*  - a tick is proved phase by phase, in the order Tick runs them, with   *)
(*    Between as the assertion between two phases.                         *)
(***************************************************************************)
EXTENDS Matchmaking, TLAPS, SequenceTheorems

-----------------------------------------------------------------------------
(* Ticket.tla: the types of the transitions, and what they leave alone *)

\* What no method changes.
Fixed(t) == <<t.isBackfill, t.session>>

LEMMA NewTicketType ==
  ASSUME NEW b \in BOOLEAN, NEW session \in Sessions \cup {NoSession}
  PROVE  /\ newTicket(b, session) \in Ticket
         /\ newTicket(b, session).status = "QUEUED"
         /\ Fixed(newTicket(b, session)) = <<b, session>>
<1>1. <<"MatchmakingSearching">> \in Seq(TicketEvents)
  BY DEF TicketEvents
<1>2. Undecided \in [Players -> Decisions]
  BY DEF Undecided, Decisions
<1>. QED
  BY <1>1, <1>2 DEF newTicket, Ticket, Statuses, Active, Teams, Fixed

LEMMA AppendEvent ==
  ASSUME NEW t \in Ticket, NEW event \in TicketEvents
  PROVE  Append(t.events, event) \in Seq(TicketEvents)
<1>1. t.events \in Seq(TicketEvents)
  BY DEF Ticket
<1>. QED
  BY <1>1

LEMMA CancelledTicket ==
  ASSUME NEW t \in Ticket, NEW message \in {"stopped by client", "superseded", "not accepted"}
  PROVE  LET u == MarkCancelled(t, message)
         IN  /\ u \in Ticket /\ Fixed(u) = Fixed(t) /\ u.matchID = t.matchID
             /\ t.status \in {"QUEUED", "SEARCHING", "REQUIRES_ACCEPTANCE", "CANCELLED"} =>
                  u.status = "CANCELLED"
             /\ t.status \notin {"QUEUED", "SEARCHING", "REQUIRES_ACCEPTANCE", "CANCELLED"} =>
                  u = t
<1>1. Append(t.events, "MatchmakingCancelled") \in Seq(TicketEvents)
  BY AppendEvent DEF TicketEvents
<1>2. t.status \in Statuses
  BY DEF Ticket
<1>3. canTransitionTo(t.status, "CANCELLED")
        <=> t.status \in {"QUEUED", "SEARCHING", "REQUIRES_ACCEPTANCE", "CANCELLED"}
  BY <1>2 DEF canTransitionTo, allowedTransitions, Statuses, Active, Terminal
<1>4. CASE canTransitionTo(t.status, "CANCELLED")
  <2>. DEFINE u == [t EXCEPT !.status = "CANCELLED", !.reason = "Cancelled", !.message = message,
                             !.events = Append(@, "MatchmakingCancelled")]
  <2>1. u \in Ticket /\ u.status = "CANCELLED" /\ u.matchID = t.matchID /\ Fixed(u) = Fixed(t)
    BY <1>1 DEF Ticket, Statuses, Terminal, Fixed
  <2>. QED
    BY <1>3, <1>4, <2>1 DEF MarkCancelled
<1>5. CASE ~canTransitionTo(t.status, "CANCELLED")
  BY <1>3, <1>5 DEF MarkCancelled
<1>. QED
  BY <1>4, <1>5

LEMMA TimedOutTicket ==
  ASSUME NEW t \in Ticket
  PROVE  LET u == MarkTimedOut(t)
         IN  /\ u \in Ticket /\ Fixed(u) = Fixed(t) /\ u.matchID = t.matchID
             /\ t.status \in {"QUEUED", "SEARCHING", "REQUIRES_ACCEPTANCE", "TIMED_OUT"} =>
                  u.status = "TIMED_OUT"
             /\ t.status \notin {"QUEUED", "SEARCHING", "REQUIRES_ACCEPTANCE", "TIMED_OUT"} =>
                  u = t
<1>1. Append(t.events, "MatchmakingTimedOut") \in Seq(TicketEvents)
  BY AppendEvent DEF TicketEvents
<1>2. t.status \in Statuses
  BY DEF Ticket
<1>3. canTransitionTo(t.status, "TIMED_OUT")
        <=> t.status \in {"QUEUED", "SEARCHING", "REQUIRES_ACCEPTANCE", "TIMED_OUT"}
  BY <1>2 DEF canTransitionTo, allowedTransitions, Statuses, Active, Terminal
<1>4. CASE canTransitionTo(t.status, "TIMED_OUT")
  <2>. DEFINE u == [t EXCEPT !.status = "TIMED_OUT", !.reason = "TimedOut", !.message = "timed out",
                             !.events = Append(@, "MatchmakingTimedOut")]
  <2>1. u \in Ticket /\ u.status = "TIMED_OUT" /\ u.matchID = t.matchID /\ Fixed(u) = Fixed(t)
    BY <1>1 DEF Ticket, Statuses, Terminal, Fixed
  <2>. QED
    BY <1>3, <1>4, <2>1 DEF MarkTimedOut
<1>5. CASE ~canTransitionTo(t.status, "TIMED_OUT")
  BY <1>3, <1>5 DEF MarkTimedOut
<1>. QED
  BY <1>4, <1>5

LEMMA ReturnedTicket ==
  ASSUME NEW t \in Ticket
  PROVE  LET u == ReturnToSearching(t, "ACCEPTANCE_FAILED")
         IN  /\ u \in Ticket /\ Fixed(u) = Fixed(t)
             /\ t.status = "REQUIRES_ACCEPTANCE" => u.status = "SEARCHING" /\ u.matchID = NoMatch
<1>1. Append(t.events, "MatchmakingSearching") \in Seq(TicketEvents)
  BY AppendEvent DEF TicketEvents
<1>2. Undecided \in [Players -> Decisions]
  BY DEF Undecided, Decisions
<1>3. t.status = "REQUIRES_ACCEPTANCE" => canTransitionTo(t.status, "SEARCHING")
  BY DEF canTransitionTo, allowedTransitions
<1>4. CASE canTransitionTo(t.status, "SEARCHING")
  <2>. DEFINE seats == IF t.isBackfill THEN "seats" ELSE "none"
              u == [t EXCEPT !.status = "SEARCHING", !.matchID = NoMatch,
                             !.acceptances = Undecided, !.teams = seats,
                             !.reason = "ACCEPTANCE_FAILED", !.message = "",
                             !.events = Append(@, "MatchmakingSearching")]
  <2>1. seats \in Teams
    BY DEF Teams
  <2>. HIDE DEF seats
  <2>2. u \in Ticket /\ u.status = "SEARCHING" /\ u.matchID = NoMatch /\ Fixed(u) = Fixed(t)
    BY <1>1, <1>2, <2>1 DEF Ticket, Statuses, Active, Fixed
  <2>. QED
    BY <1>4, <2>2 DEF ReturnToSearching, seats
<1>5. CASE ~canTransitionTo(t.status, "SEARCHING")
  BY <1>3, <1>5 DEF ReturnToSearching
<1>. QED
  BY <1>4, <1>5

\* PullEvents changes nothing that is looked at here.
LEMMA PulledTicket ==
  ASSUME NEW t \in Ticket
  PROVE  LET u == PullEvents(t)
         IN  u \in Ticket /\ Fixed(u) = Fixed(t) /\ u.status = t.status /\ u.matchID = t.matchID
<1>1. <<>> \in Seq(TicketEvents)
  OBVIOUS
<1>. QED
  BY <1>1 DEF PullEvents, Ticket, Fixed

\* What transitionFromEngine makes of a ticket that waits for its match.
LEMMA ObservedTicket ==
  ASSUME NEW t \in Ticket, NEW curr
  PROVE  LET u == transitionFromEngine(t, curr)
         IN  /\ u \in Ticket /\ Fixed(u) = Fixed(t)
             /\ t.status \in InPool => u.matchID = t.matchID
             /\ t.status \in InPool /\ curr \in InPool => u.status = "SEARCHING"
             /\ t.status = "REQUIRES_ACCEPTANCE" /\ curr \in InPool =>
                  u.status = "SEARCHING" /\ u.matchID = NoMatch
             /\ t.status \in InPool \cup {"REQUIRES_ACCEPTANCE"}
                /\ curr \in {"CANCELLED", "TIMED_OUT"} => u.status = curr
             /\ curr \notin InPool \cup {"CANCELLED", "TIMED_OUT"} => u = t
<1>1. CASE curr \in InPool /\ t.status = "REQUIRES_ACCEPTANCE"
  <2>1. transitionFromEngine(t, curr) = ReturnToSearching(t, "ACCEPTANCE_FAILED")
    BY <1>1 DEF transitionFromEngine, InPool, StatusReason
  <2>. QED
    BY <1>1, <2>1, ReturnedTicket DEF InPool
<1>2. CASE curr \in InPool /\ t.status # "REQUIRES_ACCEPTANCE"
  <2>1. transitionFromEngine(t, curr) = ObserveSearching(t)
    BY <1>2 DEF transitionFromEngine, InPool
  <2>. QED
    BY <1>2, <2>1 DEF ObserveSearching, Ticket, Statuses, Active, Fixed, InPool
<1>3. CASE curr = "CANCELLED"
  <2>1. PICK message \in {"stopped by client", "superseded", "not accepted"} :
          transitionFromEngine(t, curr) = MarkCancelled(t, message)
    BY <1>3 DEF transitionFromEngine, InPool, MarkCancelledByAPI,
                MarkCancelledByAcceptanceFailure
  <2>2. LET u == MarkCancelled(t, message)
        IN  /\ u \in Ticket /\ Fixed(u) = Fixed(t) /\ u.matchID = t.matchID
            /\ t.status \in {"QUEUED", "SEARCHING", "REQUIRES_ACCEPTANCE"} =>
                 u.status = "CANCELLED"
    BY CancelledTicket
  <2>. QED
    BY <1>3, <2>1, <2>2 DEF InPool
<1>4. CASE curr = "TIMED_OUT"
  <2>1. transitionFromEngine(t, curr) = MarkTimedOut(t)
    BY <1>4 DEF transitionFromEngine, InPool
  <2>. QED
    BY <1>4, <2>1, TimedOutTicket DEF InPool
<1>5. CASE curr \notin InPool \cup {"CANCELLED", "TIMED_OUT"}
  BY <1>5 DEF transitionFromEngine, InPool
<1>. QED
  BY <1>1, <1>2, <1>3, <1>4, <1>5

\* A ticket that a match takes is completed.
LEMMA PlacedTicket ==
  ASSUME NEW t \in Ticket, NEW m \in MatchIDs
  PROVE  LET u == placing(t, m)[3]
         IN  /\ u \in Ticket /\ Fixed(u) = Fixed(t)
             /\ t.status \in {"QUEUED", "SEARCHING", "REQUIRES_ACCEPTANCE"} =>
                  u.status = "COMPLETED"
<1>. DEFINE seated == SetPlayerTeams(t, m)
            placed == MoveToPlacing(seated, m)
<1>1. seated \in Ticket /\ Fixed(seated) = Fixed(t) /\ seated.status = t.status
  BY DEF SetPlayerTeams, Ticket, Fixed, Teams
<1>2. /\ placed \in Ticket /\ Fixed(placed) = Fixed(t)
      /\ t.status \in {"QUEUED", "SEARCHING", "REQUIRES_ACCEPTANCE"} => placed.status = "PLACING"
  <2>1. t.status \in {"QUEUED", "SEARCHING", "REQUIRES_ACCEPTANCE"} =>
          canTransitionTo(t.status, "PLACING")
    BY DEF canTransitionTo, allowedTransitions
  <2>. HIDE DEF seated
  <2>2. CASE canTransitionTo(seated.status, "PLACING")
    <3>1. placed = [seated EXCEPT !.status = "PLACING", !.matchID = m]
      BY <2>2 DEF MoveToPlacing
    <3>. QED
      BY <1>1, <3>1 DEF Ticket, Fixed, Statuses, Active
  <2>3. CASE ~canTransitionTo(seated.status, "PLACING")
    BY <1>1, <2>1, <2>3 DEF MoveToPlacing
  <2>. QED
    BY <2>2, <2>3
<1>3. /\ Complete(placed) \in Ticket /\ Fixed(Complete(placed)) = Fixed(t)
      /\ placed.status = "PLACING" => Complete(placed).status = "COMPLETED"
  <2>1. canTransitionTo("PLACING", "COMPLETED")
    BY DEF canTransitionTo, allowedTransitions
  <2>. HIDE DEF placed
  <2>2. CASE canTransitionTo(placed.status, "COMPLETED")
    <3>1. Complete(placed) = [placed EXCEPT !.status = "COMPLETED"]
      BY <2>2 DEF Complete
    <3>. QED
      BY <1>2, <3>1 DEF Ticket, Fixed, Statuses, Terminal
  <2>3. CASE ~canTransitionTo(placed.status, "COMPLETED")
    BY <1>2, <2>1, <2>3 DEF Complete
  <2>. QED
    BY <2>2, <2>3
<1>4. placing(t, m)[3] = Complete(placed)
  BY DEF placing
<1>. QED
  BY <1>2, <1>3, <1>4

\* A ticket from the pool goes into a proposal.
LEMMA ProposedTicket ==
  ASSUME NEW t \in Ticket, NEW m \in MatchIDs
  PROVE  LET u == proposing(t, m)[2]
         IN  /\ u \in Ticket /\ Fixed(u) = Fixed(t)
             /\ t.status \in InPool => u.status = "REQUIRES_ACCEPTANCE" /\ u.matchID = m
<1>. DEFINE assigned == AssignToProposal(t, m)
<1>1. /\ assigned \in Ticket /\ Fixed(assigned) = Fixed(t)
      /\ t.status \in InPool => assigned.status = "REQUIRES_ACCEPTANCE" /\ assigned.matchID = m
  <2>1. t.status \in InPool => canTransitionTo(t.status, "REQUIRES_ACCEPTANCE")
    BY DEF canTransitionTo, allowedTransitions, InPool
  <2>. QED
    BY <2>1 DEF AssignToProposal, Ticket, Fixed, Statuses, Active
<1>2. proposing(t, m)[2] = SetPlayerTeams(assigned, m)
  BY DEF proposing
<1>. HIDE DEF assigned
<1>. QED
  BY <1>1, <1>2 DEF SetPlayerTeams, Ticket, Fixed, Teams

-----------------------------------------------------------------------------
(* Matchmaking.tla: what each method does to the service *)

KeepsTracker(s, u) == /\ u.matchIDs = s.matchIDs /\ u.byMatch = s.byMatch
                      /\ u.createdAt = s.createdAt

KeepsTickets(s, u) == u.tickets = s.tickets /\ u.tk = s.tk /\ u.active = s.active

\* The tracker forgets the matches M.
Forgets(s, u, M) ==
  /\ \A r \in Rosters : u.matchIDs[r] = IF \E m \in M : s.byMatch[m] = r
                                        THEN NoMatch ELSE s.matchIDs[r]
  /\ \A m \in MatchIDs : /\ u.byMatch[m] = IF m \in M THEN {} ELSE s.byMatch[m]
                         /\ u.createdAt[m] = IF m \in M THEN NoTime ELSE s.createdAt[m]

\* The rosters D become the matches ids.
Assigns(s, u, D, ids) ==
  /\ \A r \in Rosters : u.matchIDs[r] = IF r \in D THEN ids[r] ELSE s.matchIDs[r]
  /\ \A r \in D : u.byMatch[ids[r]] = r
  /\ \A m \in MatchIDs : (\A r \in D : ids[r] # m) =>
       u.byMatch[m] = s.byMatch[m] /\ u.createdAt[m] = s.createdAt[m]

Stamps(u, D, ids, times) == \A r \in D : u.createdAt[ids[r]] = times[r]

LEMMA ServiceFields ==
  ASSUME NEW s \in Service
  PROVE  /\ s.tickets \in SUBSET Tickets /\ s.tk \in [Tickets -> Ticket]
         /\ s.active \in SUBSET Tickets
         /\ s.matchIDs \in [Rosters -> MatchIDs \cup {NoMatch}]
         /\ s.byMatch \in [MatchIDs -> SUBSET Tickets]
         /\ s.createdAt \in [MatchIDs -> Times \cup {NoTime}]
         /\ s.feed \in [Tickets -> Seq(Detail(TicketEvents))]
         /\ s.matchFeed \in [MatchIDs -> Seq(Detail(MatchEvents))]
BY DEF Service

LEMMA SaveTicketEffect ==
  ASSUME NEW s \in Service, NEW S \in SUBSET Tickets
  PROVE  LET u == SaveTicket(s, S)
         IN  /\ u \in Service /\ u.tickets = s.tickets /\ u.tk = s.tk /\ KeepsTracker(s, u)
             /\ u.active = (s.active \ S) \cup {t \in S : ~IsTerminal(s.tk[t].status)}
<1>. DEFINE active == (s.active \ S) \cup {t \in S : ~IsTerminal(s.tk[t].status)}
<1>1. active \in SUBSET Tickets
  BY ServiceFields
<1>. HIDE DEF active
<1>2. [s EXCEPT !.active = active] \in Service
  BY <1>1 DEF Service
<1>3. SaveTicket(s, S) = [s EXCEPT !.active = active]
  BY DEF SaveTicket, active
<1>. QED
  BY <1>2, <1>3 DEF Service, KeepsTracker, active

LEMMA SnapshotTeams ==
  ASSUME NEW s \in Service, NEW S \in SUBSET Tickets
  PROVE  snapshot(s, S) \subseteq Teams
<1>1. \A t \in Tickets : s.tk[t].teams \in Teams
  BY ServiceFields DEF Ticket
<1>. QED
  BY <1>1 DEF snapshot

\* addTicket hands over the events and changes nothing else.
LEMMA AddTicketEffect ==
  ASSUME NEW s \in Service, NEW S \in SUBSET Tickets
  PROVE  LET u == addTicket(s, S)
         IN  /\ u \in Service /\ u.tickets = s.tickets /\ u.active = s.active
             /\ KeepsTracker(s, u)
             /\ \A t \in Tickets : u.tk[t] = IF t \in S THEN PullEvents(s.tk[t]) ELSE s.tk[t]
<1>. DEFINE told(t) == [i \in DOMAIN s.tk[t].events |->
                         buildDetail(s.tk[t].events[i], snapshot(s, {t}))]
            feed == [t \in Tickets |-> IF t \notin S THEN s.feed[t] ELSE s.feed[t] \o told(t)]
            tk == [t \in Tickets |-> IF t \in S THEN PullEvents(s.tk[t]) ELSE s.tk[t]]
<1>1. ASSUME NEW t \in Tickets PROVE feed[t] \in Seq(Detail(TicketEvents))
  <2>1. s.tk[t].events \in Seq(TicketEvents) /\ s.feed[t] \in Seq(Detail(TicketEvents))
    BY ServiceFields DEF Ticket
  <2>2. \A i \in DOMAIN s.tk[t].events :
          buildDetail(s.tk[t].events[i], snapshot(s, {t})) \in Detail(TicketEvents)
    BY <2>1, SnapshotTeams DEF buildDetail, Detail
  <2>3. told(t) \in Seq(Detail(TicketEvents))
    <3>1. Len(s.tk[t].events) \in Nat /\ DOMAIN s.tk[t].events = 1..Len(s.tk[t].events)
      BY <2>1
    <3>2. told(t) \in [1..Len(s.tk[t].events) -> Detail(TicketEvents)]
      BY <2>2, <3>1
    <3>. HIDE DEF told
    <3>. QED
      BY <3>1, <3>2
  <2>. HIDE DEF told
  <2>. QED
    BY <2>1, <2>3
<1>2. feed \in [Tickets -> Seq(Detail(TicketEvents))]
  BY <1>1
<1>3. tk \in [Tickets -> Ticket]
  BY ServiceFields, PulledTicket
<1>. HIDE DEF feed, tk
<1>4. addTicket(s, S) = [s EXCEPT !.feed = feed, !.tk = tk]
  BY DEF addTicket, feed, tk
<1>5. [s EXCEPT !.feed = feed, !.tk = tk] \in Service
  BY <1>2, <1>3 DEF Service
<1>6. /\ addTicket(s, S).tk = tk /\ addTicket(s, S).tickets = s.tickets
      /\ addTicket(s, S).active = s.active /\ KeepsTracker(s, addTicket(s, S))
  BY <1>4 DEF Service, KeepsTracker
<1>. QED
  BY <1>4, <1>5, <1>6 DEF tk

\* A match-level event changes only what has been published.
LEMMA AnnounceEffect ==
  ASSUME NEW s \in Service, NEW M \in SUBSET MatchIDs, NEW event \in MatchEvents
  PROVE  LET u == Announce(s, M, event)
         IN  u \in Service /\ KeepsTickets(s, u) /\ KeepsTracker(s, u)
<1>. DEFINE feed == [m \in MatchIDs |-> IF m \notin M THEN s.matchFeed[m]
                       ELSE Append(s.matchFeed[m], buildDetail(event, snapshot(s, s.byMatch[m])))]
<1>1. ASSUME NEW m \in MatchIDs PROVE feed[m] \in Seq(Detail(MatchEvents))
  <2>1. s.matchFeed[m] \in Seq(Detail(MatchEvents)) /\ s.byMatch[m] \in SUBSET Tickets
    BY ServiceFields
  <2>2. buildDetail(event, snapshot(s, s.byMatch[m])) \in Detail(MatchEvents)
    BY <2>1, SnapshotTeams DEF buildDetail, Detail
  <2>. QED
    BY <2>1, <2>2
<1>2. feed \in [MatchIDs -> Seq(Detail(MatchEvents))]
  BY <1>1
<1>. HIDE DEF feed
<1>3. Announce(s, M, event) = [s EXCEPT !.matchFeed = feed]
  BY DEF Announce, feed
<1>. QED
  BY <1>2, <1>3 DEF Service, KeepsTickets, KeepsTracker

LEMMA ForgetEffect ==
  ASSUME NEW s \in Service, NEW M \in SUBSET MatchIDs
  PROVE  LET u == forget(s, M)
         IN  u \in Service /\ KeepsTickets(s, u) /\ Forgets(s, u, M)
<1>. DEFINE ids == [r \in Rosters |-> IF \E m \in M : s.byMatch[m] = r
                                     THEN NoMatch ELSE s.matchIDs[r]]
            rosters == [m \in MatchIDs |-> IF m \in M THEN {} ELSE s.byMatch[m]]
            times == [m \in MatchIDs |-> IF m \in M THEN NoTime ELSE s.createdAt[m]]
<1>1. /\ ids \in [Rosters -> MatchIDs \cup {NoMatch}] /\ rosters \in [MatchIDs -> SUBSET Tickets]
      /\ times \in [MatchIDs -> Times \cup {NoTime}]
  BY ServiceFields
<1>. HIDE DEF ids, rosters, times
<1>2. forget(s, M) = [s EXCEPT !.matchIDs = ids, !.byMatch = rosters, !.createdAt = times]
  BY DEF forget, ids, rosters, times
<1>3. [s EXCEPT !.matchIDs = ids, !.byMatch = rosters, !.createdAt = times] \in Service
  BY <1>1 DEF Service
<1>4. /\ forget(s, M).matchIDs = ids /\ forget(s, M).byMatch = rosters
      /\ forget(s, M).createdAt = times /\ KeepsTickets(s, forget(s, M))
  BY <1>2 DEF Service, KeepsTickets
<1>. QED
  BY <1>2, <1>3, <1>4 DEF ids, rosters, times, Forgets

LEMMA CommitTicketEffect ==
  ASSUME NEW s \in Service, NEW t \in Tickets, NEW ticket \in Ticket
  PROVE  LET u == commitTicket(s, t, ticket)
         IN  /\ u \in Service /\ u.tickets = s.tickets \cup {t} /\ KeepsTracker(s, u)
             /\ \A x \in Tickets : u.tk[x] = IF x = t THEN ticket ELSE s.tk[x]
             /\ u.active = (s.active \ {t}) \cup {x \in {t} : ~IsTerminal(ticket.status)}
<1>. DEFINE tk == [s.tk EXCEPT ![t] = ticket]
            feed == [s.feed EXCEPT ![t] = <<>>]
            v == [s EXCEPT !.tickets = s.tickets \cup {t}, !.tk = tk, !.feed = feed]
<1>1. tk \in [Tickets -> Ticket] /\ \A x \in Tickets : tk[x] = IF x = t THEN ticket ELSE s.tk[x]
  BY ServiceFields
<1>2. feed \in [Tickets -> Seq(Detail(TicketEvents))]
  <2>1. <<>> \in Seq(Detail(TicketEvents))
    OBVIOUS
  <2>. QED
    BY <2>1, ServiceFields
<1>. HIDE DEF tk, feed
<1>3. /\ v \in Service /\ v.tickets = s.tickets \cup {t} /\ v.tk = tk /\ v.active = s.active
      /\ KeepsTracker(s, v)
  BY <1>1, <1>2 DEF Service, KeepsTracker
<1>4. commitTicket(s, t, ticket) = SaveTicket(v, {t})
  BY DEF commitTicket, tk, feed
<1>. HIDE DEF v
<1>. QED
  BY <1>1, <1>3, <1>4, SaveTicketEffect DEF KeepsTracker

LEMMA EvictEffect ==
  ASSUME NEW s \in Service, NEW expired \in SUBSET Tickets
  PROVE  LET u == evictExpiredTickets(s, expired)
         IN  /\ u \in Service /\ u.tickets = s.tickets \ expired /\ u.active = s.active \ expired
             /\ KeepsTracker(s, u)
             /\ \A t \in Tickets : t \notin expired => u.tk[t] = s.tk[t]
<1>. DEFINE tk == [t \in Tickets |-> IF t \in expired THEN Blank ELSE s.tk[t]]
            feed == [t \in Tickets |-> IF t \in expired THEN <<>> ELSE s.feed[t]]
            tickets == s.tickets \ expired
            active == s.active \ expired
<1>1. Blank \in Ticket
  BY NewTicketType, PulledTicket DEF Blank
<1>2. tk \in [Tickets -> Ticket] /\ tickets \in SUBSET Tickets /\ active \in SUBSET Tickets
  BY <1>1, ServiceFields
<1>3. feed \in [Tickets -> Seq(Detail(TicketEvents))]
  <2>1. <<>> \in Seq(Detail(TicketEvents))
    OBVIOUS
  <2>. QED
    BY <2>1, ServiceFields
<1>. HIDE DEF tk, feed, tickets, active
<1>4. evictExpiredTickets(s, expired)
        = [s EXCEPT !.tickets = tickets, !.active = active, !.tk = tk, !.feed = feed]
  BY DEF evictExpiredTickets, tk, feed, tickets, active
<1>5. LET u == evictExpiredTickets(s, expired)
      IN  /\ u \in Service /\ u.tickets = tickets /\ u.active = active /\ u.tk = tk
          /\ KeepsTracker(s, u)
  BY <1>2, <1>3, <1>4 DEF Service, KeepsTracker
<1>. QED
  BY <1>5 DEF tk, tickets, active

\* NewID gives every roster a match of its own.
LEMMA AssignAtEffect ==
  ASSUME NEW s \in Service, NEW D \in SUBSET Rosters, NEW ids \in [D -> MatchIDs],
         NEW times \in [D -> Times \cup {NoTime}],
         \A r1, r2 \in D : ids[r1] = ids[r2] => r1 = r2
  PROVE  LET u == assignAt(s, ids, times)
         IN  /\ u \in Service /\ KeepsTickets(s, u)
             /\ Assigns(s, u, D, ids) /\ Stamps(u, D, ids, times)
<1>. DEFINE assigned == {ids[r] : r \in DOMAIN ids}
            of(m) == CHOOSE r \in DOMAIN ids : ids[r] = m
            named == [r \in Rosters |-> IF r \in DOMAIN ids THEN ids[r] ELSE s.matchIDs[r]]
            rosters == [m \in MatchIDs |-> IF m \in assigned THEN of(m) ELSE s.byMatch[m]]
            stamps == [m \in MatchIDs |-> IF m \in assigned THEN times[of(m)] ELSE s.createdAt[m]]
<1>1. \A r \in D : ids[r] \in assigned /\ of(ids[r]) = r
  OBVIOUS
<1>2. \A m \in assigned : of(m) \in D
  BY <1>1
<1>3. Rosters \subseteq SUBSET Tickets
  BY FlexiConstants DEF FlexiConstants
<1>. HIDE DEF of
<1>4. /\ named \in [Rosters -> MatchIDs \cup {NoMatch}] /\ rosters \in [MatchIDs -> SUBSET Tickets]
      /\ stamps \in [MatchIDs -> Times \cup {NoTime}]
  BY <1>2, <1>3, ServiceFields
<1>5. /\ \A r \in Rosters : named[r] = IF r \in D THEN ids[r] ELSE s.matchIDs[r]
      /\ \A r \in D : rosters[ids[r]] = r /\ stamps[ids[r]] = times[r]
      /\ \A m \in MatchIDs : (\A r \in D : ids[r] # m) =>
           rosters[m] = s.byMatch[m] /\ stamps[m] = s.createdAt[m]
  BY <1>1
<1>. HIDE DEF named, rosters, stamps
<1>6. assignAt(s, ids, times)
        = [s EXCEPT !.matchIDs = named, !.byMatch = rosters, !.createdAt = stamps]
  BY DEF assignAt, named, rosters, stamps, assigned, of
<1>7. LET u == assignAt(s, ids, times)
      IN  /\ u \in Service /\ KeepsTickets(s, u) /\ u.matchIDs = named
          /\ u.byMatch = rosters /\ u.createdAt = stamps
  BY <1>4, <1>6 DEF Service, KeepsTickets
<1>. QED
  BY <1>5, <1>7 DEF Assigns, Stamps

LEMMA SetTickets ==
  ASSUME NEW s \in Service, NEW tk \in [Tickets -> Ticket]
  PROVE  LET u == [s EXCEPT !.tk = tk]
         IN  /\ u \in Service /\ u.tk = tk /\ u.tickets = s.tickets /\ u.active = s.active
             /\ KeepsTracker(s, u)
BY DEF Service, KeepsTracker

LEMMA SupersedeEffect ==
  ASSUME NEW s \in Service, NEW prev \in SUBSET Tickets
  PROVE  LET u == supersedeBackfill(s, prev)
         IN  /\ u \in Service /\ u.tickets = s.tickets /\ KeepsTracker(s, u)
             /\ \A t \in Tickets : u.tk[t] = IF t \in prev
                                           THEN PullEvents(MarkCancelledBySuperseded(s.tk[t]))
                                           ELSE s.tk[t]
             /\ u.active = (s.active \ prev) \cup {t \in prev : ~IsTerminal(u.tk[t].status)}
<1>. DEFINE tk == [t \in Tickets |-> IF t \in prev THEN MarkCancelledBySuperseded(s.tk[t])
                                     ELSE s.tk[t]]
            v == [s EXCEPT !.tk = tk]
            w == SaveTicket(v, prev)
<1>1. tk \in [Tickets -> Ticket]
  BY ServiceFields, CancelledTicket DEF MarkCancelledBySuperseded
<1>2. /\ v \in Service /\ v.tk = tk /\ v.tickets = s.tickets /\ v.active = s.active
      /\ KeepsTracker(s, v)
  BY <1>1, SetTickets
<1>. HIDE DEF v
<1>3. /\ w \in Service /\ w.tk = tk /\ w.tickets = s.tickets /\ KeepsTracker(s, w)
      /\ w.active = (s.active \ prev) \cup {t \in prev : ~IsTerminal(tk[t].status)}
  BY <1>2, SaveTicketEffect DEF KeepsTracker
<1>4. supersedeBackfill(s, prev) = addTicket(w, prev)
  BY DEF supersedeBackfill, v
<1>. HIDE DEF w
<1>5. LET u == supersedeBackfill(s, prev)
      IN  /\ u \in Service /\ u.tickets = s.tickets /\ KeepsTracker(s, u) /\ u.active = w.active
          /\ \A t \in Tickets : u.tk[t] = IF t \in prev THEN PullEvents(tk[t]) ELSE tk[t]
  BY <1>3, <1>4, AddTicketEffect DEF KeepsTracker
<1>6. \A t \in prev : PullEvents(tk[t]).status = tk[t].status
  BY <1>1, PulledTicket
<1>. QED
  BY <1>3, <1>5, <1>6

-----------------------------------------------------------------------------
(* What each phase of a tick does to the service *)

\* The tickets S have moved, to tk; the index follows.
Moves(s, u, S, tk(_)) ==
  /\ u \in Service /\ u.tickets = s.tickets
  /\ \A t \in Tickets : u.tk[t] = IF t \in S THEN tk(t) ELSE s.tk[t]
  /\ u.active = (s.active \ S) \cup {t \in S : ~IsTerminal(u.tk[t].status)}

\* Tickets move, hand over their events and are saved.
LEMMA MoveAndPublish ==
  ASSUME NEW s \in Service, NEW S \in SUBSET Tickets, NEW tk \in [Tickets -> Ticket],
         \A t \in Tickets : t \notin S => tk[t] = s.tk[t]
  PROVE  LET u == addTicket(SaveTicket([s EXCEPT !.tk = tk], S), S)
         IN  Moves(s, u, S, LAMBDA t : PullEvents(tk[t])) /\ KeepsTracker(s, u)
<1>. DEFINE v == [s EXCEPT !.tk = tk]
            w == SaveTicket(v, S)
<1>1. /\ v \in Service /\ v.tk = tk /\ v.tickets = s.tickets /\ v.active = s.active
      /\ KeepsTracker(s, v)
  BY SetTickets
<1>. HIDE DEF v
<1>2. /\ w \in Service /\ w.tk = tk /\ w.tickets = s.tickets /\ KeepsTracker(s, w)
      /\ w.active = (s.active \ S) \cup {t \in S : ~IsTerminal(tk[t].status)}
  BY <1>1, SaveTicketEffect DEF KeepsTracker
<1>. HIDE DEF w
<1>. DEFINE u == addTicket(w, S)
<1>3. /\ u \in Service /\ u.tickets = s.tickets /\ KeepsTracker(s, u) /\ u.active = w.active
      /\ \A t \in Tickets : u.tk[t] = IF t \in S THEN PullEvents(tk[t]) ELSE tk[t]
  BY <1>2, AddTicketEffect DEF KeepsTracker
<1>4. \A t \in S : PullEvents(tk[t]).status = tk[t].status
  BY PulledTicket
<1>. HIDE DEF u
<1>5. u = addTicket(SaveTicket([s EXCEPT !.tk = tk], S), S)
  BY DEF u, w, v
<1>. QED
  BY <1>2, <1>3, <1>4, <1>5 DEF Moves

LEMMA CompleteAcceptanceEffect ==
  ASSUME NEW s \in Service, NEW M \in SUBSET MatchIDs
  PROVE  LET u == completeAcceptance(s, M)
         IN  u \in Service /\ KeepsTickets(s, u) /\ KeepsTracker(s, u)
<1>. DEFINE rejected == {m \in M : acceptanceFailureOutcome(s, m) = "Rejected"}
            v == Announce(s, rejected, "Rejected")
            u == Announce(v, M \ rejected, "TimedOut")
<1>1. rejected \in SUBSET MatchIDs /\ M \ rejected \in SUBSET MatchIDs
  OBVIOUS
<1>2. {"Rejected", "TimedOut"} \subseteq MatchEvents
  BY DEF MatchEvents
<1>. HIDE DEF rejected
<1>3. v \in Service /\ KeepsTickets(s, v) /\ KeepsTracker(s, v)
  BY <1>1, <1>2, AnnounceEffect
<1>. HIDE DEF v
<1>4. u \in Service /\ KeepsTickets(v, u) /\ KeepsTracker(v, u)
  BY <1>1, <1>2, <1>3, AnnounceEffect
<1>5. u = completeAcceptance(s, M)
  BY DEF completeAcceptance, v, rejected
<1>. QED
  BY <1>3, <1>4, <1>5 DEF KeepsTickets, KeepsTracker

\* The tickets of the matches M that leave REQUIRES_ACCEPTANCE, and how.
Leaving(s, e, M) == {t \in s.tickets : /\ \E m \in M : t \in s.byMatch[m]
                                       /\ s.tk[t].status = "REQUIRES_ACCEPTANCE"
                                       /\ e[t].status # Unknown}

Released(s, e, t) == IF e[t].status = "REQUIRES_ACCEPTANCE"
                     THEN ReturnToSearching(s.tk[t], "ACCEPTANCE_FAILED")
                     ELSE transitionFromEngine(s.tk[t], e[t].status)

LEMMA ReleaseEffect ==
  ASSUME NEW s \in Service, NEW e, NEW M \in SUBSET MatchIDs
  PROVE  LET u == releaseTickets(s, e, M)
         IN  /\ Moves(s, u, Leaving(s, e, M), LAMBDA t : PullEvents(Released(s, e, t)))
             /\ KeepsTracker(s, u)
<1>. DEFINE left == Leaving(s, e, M)
            tk == [t \in Tickets |-> IF t \notin left THEN s.tk[t] ELSE Released(s, e, t)]
            u == addTicket(SaveTicket([s EXCEPT !.tk = tk], left), left)
<1>1. left \in SUBSET Tickets
  BY ServiceFields DEF Leaving
<1>2. tk \in [Tickets -> Ticket]
  BY ServiceFields, ReturnedTicket, ObservedTicket DEF Released
<1>3. \A t \in Tickets : tk[t] = IF t \notin left THEN s.tk[t] ELSE Released(s, e, t)
  OBVIOUS
<1>4. u = releaseTickets(s, e, M)
  BY DEF releaseTickets, Leaving, Released
<1>. HIDE DEF left, tk
<1>5. Moves(s, u, left, LAMBDA t : PullEvents(tk[t])) /\ KeepsTracker(s, u)
  BY <1>1, <1>2, <1>3, MoveAndPublish
<1>. HIDE DEF u
<1>6. Moves(s, u, left, LAMBDA t : PullEvents(Released(s, e, t)))
  BY <1>1, <1>3, <1>5 DEF Moves
<1>. QED
  BY <1>4, <1>5, <1>6 DEF left

\* settleOldProposals releases the tickets of the settled proposals, and forgets
\* these.
LEMMA SettleEffect ==
  ASSUME NEW s \in Service, NEW e, NEW matches, NEW after
  PROVE  LET u == settleOldProposals(s, e, matches, after)
             gone == SettledProposals(s, matches, after)
         IN  /\ Moves(s, u, Leaving(s, e, gone), LAMBDA t : PullEvents(Released(s, e, t)))
             /\ Forgets(s, u, gone)
<1>. DEFINE gone == SettledProposals(s, matches, after)
            told == {m \in gone : ~CancelledByAPI(s, m)}
            v == completeAcceptance(s, told)
            w == releaseTickets(v, e, gone)
            u == forget(w, gone)
<1>1. gone \in SUBSET MatchIDs /\ told \in SUBSET MatchIDs
  BY DEF SettledProposals
<1>2. u = settleOldProposals(s, e, matches, after)
  BY DEF settleOldProposals
<1>. HIDE DEF gone, told
<1>3. v \in Service /\ KeepsTickets(s, v) /\ KeepsTracker(s, v)
  BY <1>1, CompleteAcceptanceEffect
<1>. HIDE DEF v
<1>4. /\ Moves(v, w, Leaving(v, e, gone), LAMBDA t : PullEvents(Released(v, e, t)))
      /\ KeepsTracker(v, w)
  BY <1>1, <1>3, ReleaseEffect
<1>. HIDE DEF w
<1>5. Leaving(v, e, gone) = Leaving(s, e, gone)
  BY <1>3 DEF Leaving, KeepsTickets, KeepsTracker
<1>6. \A t : Released(v, e, t) = Released(s, e, t)
  BY <1>3 DEF Released, KeepsTickets
<1>7. /\ Moves(s, w, Leaving(s, e, gone), LAMBDA t : PullEvents(Released(s, e, t)))
      /\ KeepsTracker(s, w)
  BY <1>3, <1>4, <1>5, <1>6 DEF Moves, KeepsTickets, KeepsTracker
<1>8. u \in Service /\ KeepsTickets(w, u) /\ Forgets(w, u, gone)
  BY <1>1, <1>7, ForgetEffect DEF Moves
<1>. HIDE DEF u
<1>9. Moves(s, u, Leaving(s, e, gone), LAMBDA t : PullEvents(Released(s, e, t)))
  BY <1>7, <1>8 DEF Moves, KeepsTickets
<1>10. Forgets(s, u, gone)
  BY <1>7, <1>8 DEF Forgets, KeepsTracker
<1>. QED
  BY <1>2, <1>9, <1>10 DEF gone

\* The match a roster is known under, and the one it gets.
MatchOf(s, fresh, r) == IF s.matchIDs[r] = NoMatch THEN fresh[r] ELSE s.matchIDs[r]

\* The two maps of the proposal tracker are inverse to each other.
Paired(s) ==
  /\ \A m \in MatchIDs : s.byMatch[m] # {} =>
       s.byMatch[m] \in Rosters /\ s.matchIDs[s.byMatch[m]] = m
  /\ \A r \in Rosters : s.matchIDs[r] # NoMatch => s.byMatch[s.matchIDs[r]] = r

\* Match ids for the rosters D that no match has.
Names(fresh, D, s) == /\ fresh \in [D -> MatchIDs]
                      /\ \A r1, r2 \in D : fresh[r1] = fresh[r2] => r1 = r2
                      /\ \A r \in D : s.byMatch[fresh[r]] = {}

\* The tracker forgets the rosters.
Drops(s, u, rosters) ==
  /\ \A r \in Rosters : u.matchIDs[r] = IF r \in rosters THEN NoMatch ELSE s.matchIDs[r]
  /\ \A m \in MatchIDs :
       /\ u.byMatch[m] = IF s.byMatch[m] \in rosters THEN {} ELSE s.byMatch[m]
       /\ u.byMatch[m] # {} => u.createdAt[m] = s.createdAt[m]

LEMMA RosterOfTicket ==
  ASSUME NEW t, NEW rosters, t \in UNION rosters
  PROVE  RosterOf(t, rosters) \in rosters /\ t \in RosterOf(t, rosters)
BY DEF RosterOf

\* The tracker once the matches have been named and forgotten.
LEMMA NamedAndForgotten ==
  ASSUME NEW s \in Service, NEW v \in Service, NEW u \in Service, Paired(s),
         NEW matches \in SUBSET Rosters, NEW D, NEW fresh, Names(fresh, D, s),
         NEW direct \in SUBSET D,
         \A r : r \in direct <=> r \in matches /\ s.matchIDs[r] = NoMatch,
         NEW M, \A m : m \in M <=> \E r \in matches : m = MatchOf(s, fresh, r),
         Assigns(s, v, direct, fresh), Forgets(v, u, M)
  PROVE  Drops(s, u, matches)
<1>1. \A r \in Rosters : r # {}
  BY FlexiConstants DEF FlexiConstants
<1>2. \A r \in Rosters : s.matchIDs[r] \in MatchIDs \cup {NoMatch}
  BY ServiceFields
<1>3. ASSUME NEW r \in matches PROVE MatchOf(s, fresh, r) \in MatchIDs /\ v.byMatch[MatchOf(s, fresh, r)] = r
  <2>1. CASE r \in direct
    BY <2>1 DEF MatchOf, Names, Assigns
  <2>2. CASE r \notin direct
    <3>1. MatchOf(s, fresh, r) = s.matchIDs[r] /\ s.matchIDs[r] # NoMatch
      BY <2>2 DEF MatchOf
    <3>2. s.matchIDs[r] \in MatchIDs /\ s.byMatch[s.matchIDs[r]] = r
      BY <1>2, <3>1 DEF Paired
    <3>3. \A q \in direct : fresh[q] # s.matchIDs[r]
      BY <1>1, <3>2 DEF Names
    <3>. QED
      BY <3>1, <3>2, <3>3 DEF Assigns
  <2>. QED
    BY <2>1, <2>2
<1>4. M \subseteq MatchIDs /\ \A m \in M : v.byMatch[m] \in matches
  BY <1>3
<1>5. ASSUME NEW r \in Rosters
      PROVE  u.matchIDs[r] = IF r \in matches THEN NoMatch ELSE s.matchIDs[r]
  <2>1. (\E m \in M : v.byMatch[m] = r) <=> r \in matches
    BY <1>3, <1>4
  <2>. QED
    BY <2>1 DEF Assigns, Forgets, MatchOf
<1>6. ASSUME NEW m \in MatchIDs
      PROVE  /\ u.byMatch[m] = IF s.byMatch[m] \in matches THEN {} ELSE s.byMatch[m]
             /\ u.byMatch[m] # {} => u.createdAt[m] = s.createdAt[m]
  <2>1. CASE m \in M
    <3>1. PICK r \in matches : m = MatchOf(s, fresh, r)
      BY <2>1
    <3>2. s.byMatch[m] = {} \/ s.byMatch[m] \in matches
      BY <1>2, <3>1 DEF MatchOf, Names, Paired
    <3>. QED
      BY <2>1, <3>2 DEF Forgets
  <2>2. CASE m \notin M
    <3>1. \A r \in direct : fresh[r] # m
      BY <2>2 DEF MatchOf
    <3>2. s.byMatch[m] \notin matches
      <4>1. SUFFICES ASSUME s.byMatch[m] \in matches PROVE FALSE
        OBVIOUS
      <4>2. s.matchIDs[s.byMatch[m]] = m /\ m # NoMatch
        BY <1>1, <4>1, TicketConstants DEF Paired, TicketConstants
      <4>3. MatchOf(s, fresh, s.byMatch[m]) = m
        BY <4>2 DEF MatchOf
      <4>. QED
        BY <2>2, <4>1, <4>3
    <3>. QED
      BY <2>2, <3>1, <3>2 DEF Assigns, Forgets
  <2>. QED
    BY <2>1, <2>2
<1>. QED
  BY <1>5, <1>6 DEF Drops

\* finalizeMatches completes the tickets of the matches, and forgets these.
LEMMA FinalizeEffect ==
  ASSUME NEW s \in Service, Paired(s), NEW matches \in SUBSET Rosters,
         NEW D, NEW fresh, Names(fresh, D, s),
         \A r \in matches : s.matchIDs[r] = NoMatch => r \in D
  PROVE  LET u == finalizeMatches(s, matches, fresh)
         IN  /\ Moves(s, u, s.tickets \cap UNION matches,
                       LAMBDA t : placing(s.tk[t], MatchOf(s, fresh, RosterOf(t, matches)))[3])
             /\ \A t \in s.tickets \cap UNION matches :
                  MatchOf(s, fresh, RosterOf(t, matches)) \in MatchIDs
             /\ Drops(s, u, matches)
<1>. DEFINE direct == {r \in matches : s.matchIDs[r] = NoMatch}
            ids == [r \in direct |-> fresh[r]]
            known == assignAt(s, ids, [r \in direct |-> NoTime])
            placed == s.tickets \cap UNION matches
            accepted == {r \in matches : /\ AcceptanceRequired
                                         /\ \E t \in r \cap s.tickets :
                                              s.tk[t].status = "REQUIRES_ACCEPTANCE"}
            tk == [t \in Tickets |-> IF t \notin placed THEN s.tk[t]
                    ELSE placing(s.tk[t], known.matchIDs[RosterOf(t, matches)])[3]]
            Of(rosters) == {known.matchIDs[r] : r \in rosters}
            moved == [known EXCEPT !.tk = tk]
            saved == SaveTicket(moved, placed)
            told1 == Announce(saved, Of(direct), "PotentialMatchCreated")
            told2 == Announce(told1, Of(accepted), "Accepted")
            told3 == Announce(told2, Of(matches), "MatchmakingSucceeded")
            u == forget(told3, Of(matches))
<1>1. u = finalizeMatches(s, matches, fresh)
  BY DEF finalizeMatches
<1>2. direct \subseteq Rosters /\ direct \subseteq D /\ placed \in SUBSET Tickets
      /\ accepted \subseteq matches
  BY ServiceFields
<1>3. direct = {r \in matches : s.matchIDs[r] = NoMatch} /\ placed = s.tickets \cap UNION matches
  OBVIOUS
<1>. HIDE DEF direct, placed, accepted
<1>4. known \in Service /\ KeepsTickets(s, known) /\ Assigns(s, known, direct, fresh)
  <2>. DEFINE times == [r \in direct |-> NoTime]
  <2>1. /\ ids \in [direct -> MatchIDs] /\ times \in [direct -> Times \cup {NoTime}]
        /\ \A r1, r2 \in direct : ids[r1] = ids[r2] => r1 = r2
        /\ \A r \in direct : ids[r] = fresh[r]
    BY <1>2 DEF Names
  <2>2. known = assignAt(s, ids, times)
    OBVIOUS
  <2>. HIDE DEF ids, times, known
  <2>3. known \in Service /\ KeepsTickets(s, known) /\ Assigns(s, known, direct, ids)
    BY <1>2, <2>1, <2>2, AssignAtEffect
  <2>. QED
    BY <2>1, <2>3 DEF Assigns
<1>. HIDE DEF known
<1>5. \A r \in matches : known.matchIDs[r] = MatchOf(s, fresh, r) /\ known.matchIDs[r] \in MatchIDs
  <2>1. \A r \in matches : s.matchIDs[r] \in MatchIDs \cup {NoMatch}
    BY ServiceFields
  <2>. QED
    BY <1>2, <1>3, <1>4, <2>1 DEF MatchOf, Names, Assigns
<1>6. /\ Of(direct) \in SUBSET MatchIDs /\ Of(accepted) \in SUBSET MatchIDs
      /\ Of(matches) \in SUBSET MatchIDs /\ Of(matches) = {MatchOf(s, fresh, r) : r \in matches}
  BY <1>2, <1>3, <1>5
<1>7. \A t \in placed : RosterOf(t, matches) \in matches
  BY <1>3, RosterOfTicket
<1>8. /\ tk \in [Tickets -> Ticket]
      /\ \A t \in Tickets : tk[t] = IF t \notin placed THEN s.tk[t]
                                   ELSE placing(s.tk[t], MatchOf(s, fresh, RosterOf(t, matches)))[3]
  BY <1>5, <1>7, ServiceFields, PlacedTicket
<1>. HIDE DEF tk, Of
<1>9. /\ moved \in Service /\ moved.tk = tk /\ moved.tickets = s.tickets
      /\ moved.active = s.active /\ KeepsTracker(known, moved)
  BY <1>4, <1>8, SetTickets DEF KeepsTickets
<1>. HIDE DEF moved
<1>10. /\ saved \in Service /\ saved.tk = tk /\ saved.tickets = s.tickets
       /\ KeepsTracker(known, saved)
       /\ saved.active = (s.active \ placed) \cup {t \in placed : ~IsTerminal(tk[t].status)}
  BY <1>2, <1>9, SaveTicketEffect DEF KeepsTracker
<1>. HIDE DEF saved
<1>11. {"PotentialMatchCreated", "Accepted", "MatchmakingSucceeded"} \subseteq MatchEvents
  BY DEF MatchEvents
<1>12. told1 \in Service /\ KeepsTickets(saved, told1) /\ KeepsTracker(saved, told1)
  BY <1>6, <1>10, <1>11, AnnounceEffect
<1>. HIDE DEF told1
<1>13. told2 \in Service /\ KeepsTickets(told1, told2) /\ KeepsTracker(told1, told2)
  BY <1>6, <1>11, <1>12, AnnounceEffect
<1>. HIDE DEF told2
<1>14. told3 \in Service /\ KeepsTickets(told2, told3) /\ KeepsTracker(told2, told3)
  BY <1>6, <1>11, <1>13, AnnounceEffect
<1>. HIDE DEF told3
<1>15. u \in Service /\ KeepsTickets(told3, u) /\ Forgets(told3, u, Of(matches))
  BY <1>6, <1>14, ForgetEffect
<1>. HIDE DEF u
<1>16. KeepsTickets(saved, u)
  BY <1>12, <1>13, <1>14, <1>15 DEF KeepsTickets
<1>17. Moves(s, u, placed, LAMBDA t : placing(s.tk[t], MatchOf(s, fresh, RosterOf(t, matches)))[3])
  BY <1>8, <1>10, <1>15, <1>16 DEF Moves, KeepsTickets
<1>18. KeepsTracker(known, told3)
  BY <1>10, <1>12, <1>13, <1>14 DEF KeepsTracker
<1>19. Forgets(known, u, Of(matches))
  BY <1>15, <1>18 DEF KeepsTracker, Forgets
<1>20. Drops(s, u, matches)
  <2>. DEFINE M == Of(matches)
  <2>1. \A m : m \in M <=> \E r \in matches : m = MatchOf(s, fresh, r)
    BY <1>6
  <2>2. \A r : r \in direct <=> r \in matches /\ s.matchIDs[r] = NoMatch
    BY <1>3
  <2>3. Forgets(known, u, M)
    BY <1>19
  <2>. HIDE DEF M
  <2>. QED
    BY <1>2, <1>4, <1>15, <2>1, <2>2, <2>3, NamedAndForgotten
<1>. QED
  BY <1>1, <1>3, <1>5, <1>7, <1>17, <1>20

\* applyNewProposals names the new proposals, and their tickets go into them.
LEMMA ProposeEffect ==
  ASSUME NEW s \in Service, NEW after \in SUBSET Proposal,
         \A p \in after : p.ids \in Rosters,
         NEW D, NEW fresh, Names(fresh, D, s), NewProposals(s, after) \subseteq D
  PROVE  LET u == applyNewProposals(s, after, fresh)
             new == NewProposals(s, after)
         IN  /\ Moves(s, u, s.tickets \cap UNION new,
                       LAMBDA t : proposing(s.tk[t], fresh[RosterOf(t, new)])[2])
             /\ Assigns(s, u, new, fresh)
             /\ \A r \in new : u.createdAt[fresh[r]] = CreatedAt(r, after)
<1>. DEFINE new == NewProposals(s, after)
            ids == [r \in new |-> fresh[r]]
            times == [r \in new |-> CreatedAt(r, after)]
            tracked == assignAt(s, ids, times)
            proposed == s.tickets \cap UNION new
            tk == [t \in Tickets |-> IF t \notin proposed THEN s.tk[t]
                    ELSE proposing(s.tk[t], fresh[RosterOf(t, new)])[2]]
            moved == [tracked EXCEPT !.tk = tk]
            saved == SaveTicket(moved, proposed)
            M == {fresh[r] : r \in new}
            u == Announce(saved, M, "PotentialMatchCreated")
<1>1. u = applyNewProposals(s, after, fresh)
  BY DEF applyNewProposals
<1>2. new \subseteq Rosters /\ new \subseteq D /\ \A r \in new : \E p \in after : p.ids = r
  BY DEF NewProposals
<1>3. proposed = s.tickets \cap UNION new /\ proposed \in SUBSET Tickets
  BY ServiceFields
<1>. HIDE DEF new, proposed
<1>4. ASSUME NEW r \in new PROVE CreatedAt(r, after) \in Times
  BY <1>2 DEF CreatedAt, Proposal
<1>5. /\ tracked \in Service /\ KeepsTickets(s, tracked) /\ Assigns(s, tracked, new, fresh)
      /\ \A r \in new : tracked.createdAt[fresh[r]] = CreatedAt(r, after)
  <2>1. /\ ids \in [new -> MatchIDs] /\ times \in [new -> Times \cup {NoTime}]
        /\ \A r1, r2 \in new : ids[r1] = ids[r2] => r1 = r2
    BY <1>2, <1>4 DEF Names
  <2>2. \A r \in new : ids[r] = fresh[r] /\ times[r] = CreatedAt(r, after)
    OBVIOUS
  <2>3. tracked = assignAt(s, ids, times)
    OBVIOUS
  <2>. HIDE DEF ids, times, tracked
  <2>4. /\ tracked \in Service /\ KeepsTickets(s, tracked) /\ Assigns(s, tracked, new, ids)
        /\ Stamps(tracked, new, ids, times)
    BY <1>2, <2>1, <2>3, AssignAtEffect
  <2>. QED
    BY <2>2, <2>4 DEF Assigns, Stamps
<1>. HIDE DEF tracked
<1>6. \A t \in proposed : RosterOf(t, new) \in new
  BY <1>3, RosterOfTicket
<1>7. /\ tk \in [Tickets -> Ticket]
      /\ \A t \in Tickets : tk[t] = IF t \notin proposed THEN s.tk[t]
                                   ELSE proposing(s.tk[t], fresh[RosterOf(t, new)])[2]
  BY <1>2, <1>6, ServiceFields, ProposedTicket DEF Names
<1>. HIDE DEF tk
<1>8. /\ moved \in Service /\ moved.tk = tk /\ moved.tickets = s.tickets
      /\ moved.active = s.active /\ KeepsTracker(tracked, moved)
  BY <1>5, <1>7, SetTickets DEF KeepsTickets
<1>. HIDE DEF moved
<1>9. /\ saved \in Service /\ saved.tk = tk /\ saved.tickets = s.tickets
      /\ KeepsTracker(tracked, saved)
      /\ saved.active = (s.active \ proposed) \cup {t \in proposed : ~IsTerminal(tk[t].status)}
  BY <1>3, <1>8, SaveTicketEffect DEF KeepsTracker
<1>. HIDE DEF saved
<1>10. u \in Service /\ KeepsTickets(saved, u) /\ KeepsTracker(saved, u)
  <2>1. M \in SUBSET MatchIDs /\ "PotentialMatchCreated" \in MatchEvents
    BY <1>2 DEF Names, MatchEvents
  <2>. HIDE DEF M
  <2>. QED
    BY <1>9, <2>1, AnnounceEffect
<1>. HIDE DEF u
<1>11. Moves(s, u, proposed, LAMBDA t : proposing(s.tk[t], fresh[RosterOf(t, new)])[2])
  BY <1>7, <1>9, <1>10 DEF Moves, KeepsTickets
<1>12. /\ Assigns(s, u, new, fresh)
       /\ \A r \in new : u.createdAt[fresh[r]] = CreatedAt(r, after)
  BY <1>5, <1>9, <1>10 DEF Assigns, KeepsTracker
<1>. QED
  BY <1>1, <1>3, <1>11, <1>12 DEF new

\* The tickets syncActiveTickets finds behind the engine.
Behind(s, e) == {t \in s.active : e[t].status \notin {Unknown, s.tk[t].status}}

\* syncActiveTickets forgets no match when no ticket waits for acceptance in vain.
LEMMA SyncEffect ==
  ASSUME NEW s \in Service, NEW e,
         \A t \in Behind(s, e) : s.tk[t].status # "REQUIRES_ACCEPTANCE"
  PROVE  LET u == syncActiveTickets(s, e)
         IN  /\ Moves(s, u, Behind(s, e),
                       LAMBDA t : PullEvents(transitionFromEngine(s.tk[t], e[t].status)))
             /\ KeepsTracker(s, u)
<1>. DEFINE behind == Behind(s, e)
            late == {s.tk[t].matchID :
                       t \in {t \in behind : /\ s.tk[t].status = "REQUIRES_ACCEPTANCE"
                                             /\ e[t].status = "CANCELLED"
                                             /\ ~s.tk[t].cancelByAPI}} \ {NoMatch}
            rejected == {m \in late : acceptanceFailureOutcome(s, m) = "Rejected"}
            tk == [t \in Tickets |-> IF t \in behind THEN transitionFromEngine(s.tk[t], e[t].status)
                                     ELSE s.tk[t]]
            saved == addTicket(SaveTicket([s EXCEPT !.tk = tk], behind), behind)
            told1 == Announce(saved, rejected, "Rejected")
            told2 == Announce(told1, late \ rejected, "TimedOut")
            u == forget(told2, late)
<1>1. u = syncActiveTickets(s, e)
  BY DEF syncActiveTickets, Behind
<1>2. late = {}
  OBVIOUS
<1>. HIDE DEF late
<1>3. rejected = {}
  BY <1>2
<1>. HIDE DEF rejected
<1>4. behind \in SUBSET Tickets
  BY ServiceFields DEF Behind
<1>5. /\ tk \in [Tickets -> Ticket]
      /\ \A t \in Tickets : tk[t] = IF t \in behind THEN transitionFromEngine(s.tk[t], e[t].status)
                                   ELSE s.tk[t]
  BY ServiceFields, ObservedTicket
<1>. HIDE DEF behind, tk
<1>6. Moves(s, saved, behind, LAMBDA t : PullEvents(tk[t])) /\ KeepsTracker(s, saved)
  BY <1>4, <1>5, MoveAndPublish
<1>. HIDE DEF saved
<1>7. {} \in SUBSET MatchIDs /\ {"Rejected", "TimedOut"} \subseteq MatchEvents
  BY DEF MatchEvents
<1>8. told1 \in Service /\ KeepsTickets(saved, told1) /\ KeepsTracker(saved, told1)
  BY <1>3, <1>6, <1>7, AnnounceEffect DEF Moves
<1>. HIDE DEF told1
<1>9. told2 \in Service /\ KeepsTickets(told1, told2) /\ KeepsTracker(told1, told2)
  BY <1>2, <1>3, <1>7, <1>8, AnnounceEffect
<1>. HIDE DEF told2
<1>10. u \in Service /\ KeepsTickets(told2, u) /\ Forgets(told2, u, {})
  BY <1>2, <1>7, <1>9, ForgetEffect
<1>. HIDE DEF u
<1>11. KeepsTracker(told2, u)
  <2>1. /\ u.matchIDs = told2.matchIDs /\ u.byMatch = told2.byMatch
        /\ u.createdAt = told2.createdAt
    BY <1>9, <1>10, ServiceFields DEF Forgets
  <2>. QED
    BY <2>1 DEF KeepsTracker
<1>12. KeepsTracker(s, u)
  BY <1>6, <1>8, <1>9, <1>11 DEF KeepsTracker
<1>13. Moves(s, u, behind, LAMBDA t : PullEvents(transitionFromEngine(s.tk[t], e[t].status)))
  BY <1>4, <1>5, <1>6, <1>8, <1>9, <1>10 DEF Moves, KeepsTickets
<1>. QED
  BY <1>1, <1>12, <1>13 DEF behind

-----------------------------------------------------------------------------
(* What a tick does to the engine *)

\* Between two ticks a ticket waits for acceptance exactly while it is in one
\* pending proposal, and nothing is accepted otherwise.
EngineShape ==
  /\ \A t \in Tickets :
       /\ eng[t].status \notin {"PLACING", "FAILED"}
       /\ eng[t].status # "REQUIRES_ACCEPTANCE" => eng[t].accepted = {}
       /\ eng[t].status = "REQUIRES_ACCEPTANCE" <=> \E p \in pending : t \in p.ids
  /\ \A p \in pending : p.ids \in Rosters
  /\ \A p, q \in pending : p.ids \cap q.ids # {} => p = q
  /\ pending # {} => AcceptanceRequired

LEMMA DroppedType ==
  ASSUME FlexiTypeOK, NEW t \in Tickets, NEW s \in Statuses
  PROVE  /\ Dropped(t, s) \in EngineTicket /\ Dropped(t, s).status = s
         /\ Dropped(t, s).accepted = {}
BY DEF Dropped, FlexiTypeOK, EngineTicket

LEMMA SettledFates ==
  ASSUME FlexiTypeOK, EngineShape, NEW timedOut \in SUBSET MayTimeOut
  PROVE  /\ Settled(timedOut) \in [Tickets -> EngineTicket]
         /\ \A t \in Tickets :
              LET u == Settled(timedOut)[t]
              IN  \/ t \in timedOut /\ u.status = "TIMED_OUT" /\ u.accepted = {}
                  \/ /\ \E p \in AcceptedProposals : t \in p.ids
                     /\ t \notin timedOut /\ u.status = "PLACING" /\ u.accepted = {}
                  \/ /\ \E p \in LapsedProposals(timedOut) : t \in p.ids
                     /\ t \notin timedOut /\ u.status \in {"SEARCHING", "CANCELLED"} /\ u.accepted = {}
                  \/ /\ \A p \in AcceptedProposals \cup LapsedProposals(timedOut) : t \notin p.ids
                     /\ t \notin timedOut /\ u = eng[t]
         /\ \A p \in LapsedProposals(timedOut) : \E t \in p.ids :
              Settled(timedOut)[t].status \in {"CANCELLED", "TIMED_OUT"}
<1>. DEFINE A == AcceptedProposals
            L == LapsedProposals(timedOut)
            F == Failed(L, {})
            S == Settled(timedOut)
<1>1. {"SEARCHING", "CANCELLED", "TIMED_OUT", "PLACING"} \subseteq Statuses
  BY DEF Statuses, Active, Terminal
<1>2. \A t \in Tickets : F[t] = IF \E p \in L : t \in p.ids
                              THEN Dropped(t, IF FullyAccepted(t) THEN "SEARCHING" ELSE "CANCELLED")
                              ELSE eng[t]
  BY DEF Failed
<1>3. \A t \in Tickets : S[t] = IF t \in timedOut THEN Dropped(t, "TIMED_OUT")
                              ELSE IF \E p \in A : t \in p.ids THEN Dropped(t, "PLACING")
                              ELSE F[t]
  BY DEF Settled
<1>4. S = [t \in Tickets |-> S[t]]
  BY DEF Settled
<1>5. A \subseteq pending /\ L \subseteq pending \ A
  BY DEF AcceptedProposals, LapsedProposals
<1>. HIDE DEF A, L, F, S
<1>6. \A t \in Tickets : /\ Dropped(t, "TIMED_OUT") \in EngineTicket
                        /\ Dropped(t, "PLACING") \in EngineTicket /\ F[t] \in EngineTicket
  BY <1>1, <1>2, DroppedType DEF FlexiTypeOK
<1>7. S \in [Tickets -> EngineTicket]
  BY <1>3, <1>4, <1>6
<1>8. ASSUME NEW t \in Tickets
      PROVE  \/ t \in timedOut /\ S[t].status = "TIMED_OUT" /\ S[t].accepted = {}
             \/ /\ \E p \in A : t \in p.ids
                /\ t \notin timedOut /\ S[t].status = "PLACING" /\ S[t].accepted = {}
             \/ /\ \E p \in L : t \in p.ids
                /\ t \notin timedOut /\ S[t].status \in {"SEARCHING", "CANCELLED"} /\ S[t].accepted = {}
             \/ /\ \A p \in A \cup L : t \notin p.ids
                /\ t \notin timedOut /\ S[t] = eng[t]
  BY <1>1, <1>2, <1>3, DroppedType
<1>9. ASSUME NEW p \in L PROVE \E t \in p.ids : S[t].status \in {"CANCELLED", "TIMED_OUT"}
  <2>1. p \in pending /\ p \notin A /\ p.ids \subseteq Tickets
    BY <1>5 DEF FlexiTypeOK, Proposal
  <2>2. PICK t \in p.ids : ~FullyAccepted(t)
    BY <2>1 DEF A, AcceptedProposals
  <2>3. t \in Tickets
    BY <2>1, <2>2
  <2>4. \A q \in A : t \notin q.ids
    BY <1>5, <2>1, <2>2 DEF EngineShape
  <2>5. t \notin timedOut => S[t] = Dropped(t, "CANCELLED")
    BY <1>2, <1>3, <2>2, <2>3, <2>4
  <2>6. t \in timedOut => S[t] = Dropped(t, "TIMED_OUT")
    BY <1>3, <2>3
  <2>. QED
    BY <1>1, <2>2, <2>3, <2>5, <2>6, DroppedType
<1>. QED
  BY <1>7, <1>8, <1>9 DEF A, L, S

\* A tick of the engine: the requests that time out and the rosters that form.
EngineTicks(timedOut, formed) ==
  timedOut \in SUBSET MayTimeOut /\ formed \in MayForm(Settled(timedOut))

\* A ticket that forms a roster was in the pool, or in a proposal that lapsed.
LEMMA FormedTickets ==
  ASSUME FlexiTypeOK, EngineShape, NEW timedOut, NEW formed, EngineTicks(timedOut, formed),
         NEW r \in formed, NEW t \in r
  PROVE  /\ r \in Rosters /\ t \in Tickets /\ t \notin timedOut
         /\ Settled(timedOut)[t].status \in InPool /\ Settled(timedOut)[t].accepted = {}
         /\ \A q \in formed : t \in q => q = r
         /\ \A p \in pending : t \in p.ids => p \in LapsedProposals(timedOut)
         /\ eng[t].status \in InPool \cup {"REQUIRES_ACCEPTANCE"}
<1>. DEFINE S == Settled(timedOut)
<1>1. timedOut \in SUBSET MayTimeOut
  BY DEF EngineTicks
<1>2. /\ formed \in SUBSET {q \in Rosters : Seats(q, S)} /\ Disjoint(formed)
  BY DEF EngineTicks, MayForm
<1>3. r \in Rosters /\ t \in Tickets /\ S[t].status \in InPool
  BY <1>2, FlexiConstants DEF Seats, FlexiConstants
<1>4. \A q \in formed : t \in q => q = r
  BY <1>2 DEF Disjoint
<1>. HIDE DEF S
<1>5. \/ t \in timedOut /\ S[t].status = "TIMED_OUT" /\ S[t].accepted = {}
      \/ /\ \E p \in AcceptedProposals : t \in p.ids
         /\ t \notin timedOut /\ S[t].status = "PLACING" /\ S[t].accepted = {}
      \/ /\ \E p \in LapsedProposals(timedOut) : t \in p.ids
         /\ t \notin timedOut /\ S[t].status \in {"SEARCHING", "CANCELLED"} /\ S[t].accepted = {}
      \/ /\ \A p \in AcceptedProposals \cup LapsedProposals(timedOut) : t \notin p.ids
         /\ t \notin timedOut /\ S[t] = eng[t]
  BY <1>1, <1>3, SettledFates DEF S
<1>6. CASE \E p \in LapsedProposals(timedOut) : t \in p.ids
  <2>1. PICK p \in LapsedProposals(timedOut) : t \in p.ids
    BY <1>6
  <2>2. p \in pending
    BY <2>1 DEF LapsedProposals
  <2>3. \A q \in pending : t \in q.ids => q = p
    BY <2>1, <2>2 DEF EngineShape
  <2>4. eng[t].status = "REQUIRES_ACCEPTANCE"
    BY <1>3, <2>1, <2>2 DEF EngineShape
  <2>5. t \notin timedOut /\ S[t].accepted = {}
    BY <1>3, <1>5, <1>6 DEF InPool
  <2>. QED
    BY <1>3, <1>4, <2>1, <2>3, <2>4, <2>5 DEF S
<1>7. CASE ~\E p \in LapsedProposals(timedOut) : t \in p.ids
  <2>1. t \notin timedOut /\ S[t] = eng[t]
    BY <1>3, <1>5, <1>7 DEF InPool
  <2>2. eng[t].status \in InPool /\ eng[t].accepted = {} /\ \A q \in pending : t \notin q.ids
    BY <1>3, <2>1 DEF EngineShape, InPool
  <2>. QED
    BY <1>3, <1>4, <2>1, <2>2 DEF S
<1>. QED
  BY <1>6, <1>7

\* What becomes of a ticket, before the matches are marked completed.
LEMMA TicketFates ==
  ASSUME FlexiTypeOK, EngineShape, NEW timedOut, NEW formed, EngineTicks(timedOut, formed),
         NEW t \in Tickets
  PROVE  LET S == Settled(timedOut)
             e == TickTickets(timedOut, formed)
         IN  /\ e[t] \in EngineTicket
             /\ t \notin UNION formed => e[t] = S[t]
             /\ t \in UNION formed =>
                  /\ e[t].accepted = {}
                  /\ e[t].status = IF AcceptanceRequired THEN "REQUIRES_ACCEPTANCE" ELSE "PLACING"
<1>1. {"REQUIRES_ACCEPTANCE", "PLACING"} \subseteq Statuses
  BY DEF Statuses, Active
<1>2. timedOut \in SUBSET MayTimeOut
  BY DEF EngineTicks
<1>3. Settled(timedOut)[t] \in EngineTicket
  BY <1>2, SettledFates
<1>4. CASE t \notin UNION formed
  BY <1>3, <1>4 DEF TickTickets
<1>5. CASE t \in UNION formed
  <2>1. Settled(timedOut)[t].accepted = {}
    BY <1>5, FormedTickets
  <2>. DEFINE s == IF AcceptanceRequired THEN "REQUIRES_ACCEPTANCE" ELSE "PLACING"
  <2>2. TickTickets(timedOut, formed)[t] = [Settled(timedOut)[t] EXCEPT !.status = s]
    BY <1>5 DEF TickTickets
  <2>3. s \in Statuses
    BY <1>1
  <2>. HIDE DEF s
  <2>4. /\ TickTickets(timedOut, formed)[t] \in EngineTicket
        /\ TickTickets(timedOut, formed)[t].accepted = {}
        /\ TickTickets(timedOut, formed)[t].status = s
    BY <1>3, <2>1, <2>2, <2>3 DEF EngineTicket
  <2>. QED
    BY <1>5, <2>4 DEF s
<1>. QED
  BY <1>4, <1>5

Dead == {"CANCELLED", "TIMED_OUT"}

\* A proposal that was pending before the tick and still is.
Stays(p, e) == /\ p \in pending /\ ~p.expired /\ \E t \in p.ids : ~FullyAccepted(t)
               /\ \A t \in p.ids : e[t] = eng[t]

\* A proposal of this tick; a ticket of it that was in one before has lost another
\* ticket of that one.
Forms(p, e, now) ==
  /\ ~p.expired /\ p.createdAt = now
  /\ \A t \in p.ids :
       /\ e[t].accepted = {} /\ eng[t].status \in InPool \cup {"REQUIRES_ACCEPTANCE"}
       /\ \A q \in pending : t \in q.ids => \E u \in q.ids : e[u].status \in Dead

\* What a tick may make of the engine: its tickets e, the matches, and the
\* proposals that are left.
Ticked(e, matches, left, now) ==
  /\ e \in [Tickets -> EngineTicket] /\ matches \subseteq Rosters /\ left \subseteq Proposal
  /\ \A t \in Tickets :
       /\ e[t].status # "FAILED" /\ e[t].status # "REQUIRES_ACCEPTANCE" => e[t].accepted = {}
       /\ e[t].status = "REQUIRES_ACCEPTANCE" <=> \E p \in left : t \in p.ids
       /\ e[t].status = "PLACING" <=> t \in UNION matches
       /\ eng[t].status \notin InPool \cup {"REQUIRES_ACCEPTANCE"} => e[t].status = eng[t].status
       /\ eng[t].status \in InPool \cup {"REQUIRES_ACCEPTANCE"} =>
            e[t].status \in InPool \cup {"REQUIRES_ACCEPTANCE", "PLACING"} \cup Dead
  /\ \A q, r \in matches : q \cap r # {} => q = r
  /\ \A p \in left : p.ids \in Rosters /\ (Stays(p, e) \/ Forms(p, e, now))
  /\ \A p, q \in left : p.ids \cap q.ids # {} => p = q
  /\ \A p \in pending : \/ p \in left
                        \/ p.ids \in matches /\ \A t \in p.ids : FullyAccepted(t)
                        \/ \E t \in p.ids : e[t].status \in Dead
  /\ IF AcceptanceRequired
     THEN \A r \in matches : \E p \in pending : p.ids = r /\ \A t \in r : FullyAccepted(t)
     ELSE left = {} /\ pending = {}

LEMMA TickFates ==
  ASSUME FlexiTypeOK, EngineShape, NEW timedOut, NEW formed, EngineTicks(timedOut, formed),
         NEW now \in Times
  PROVE  Ticked(TickTickets(timedOut, formed), TickMatches(formed),
                TickPending(timedOut, formed, now), now)
<1>. DEFINE A == AcceptedProposals
            L == LapsedProposals(timedOut)
            S == Settled(timedOut)
            e == TickTickets(timedOut, formed)
            matches == TickMatches(formed)
            old == pending \ (A \cup L)
            new == IF AcceptanceRequired
                   THEN {[ids |-> r, createdAt |-> now, expired |-> FALSE] : r \in formed} ELSE {}
            left == TickPending(timedOut, formed, now)
<1>1. /\ A \subseteq pending /\ L \subseteq pending \ A /\ left = old \cup new
      /\ matches = {p.ids : p \in A} \cup (IF AcceptanceRequired THEN {} ELSE formed)
      /\ \A p \in A : \A t \in p.ids : FullyAccepted(t)
      /\ \A p \in old : \E t \in p.ids : ~FullyAccepted(t)
      /\ \A p \in old : ~p.expired /\ p.ids \cap timedOut = {}
  BY DEF AcceptedProposals, LapsedProposals, TickPending, TickMatches
<1>2. timedOut \in SUBSET MayTimeOut
  BY DEF EngineTicks
<1>3. /\ \A p \in pending : p \in Proposal /\ p.ids \in Rosters /\ p.ids \subseteq Tickets
      /\ \A p, q \in pending : p.ids \cap q.ids # {} => p = q
  BY DEF FlexiTypeOK, EngineShape, Proposal
<1>4. \A r \in Rosters : r # {} /\ r \subseteq Tickets
  BY FlexiConstants DEF FlexiConstants
<1>5. /\ \A t \in Tickets :
           \/ t \in timedOut /\ S[t].status = "TIMED_OUT" /\ S[t].accepted = {}
           \/ /\ \E p \in A : t \in p.ids
              /\ t \notin timedOut /\ S[t].status = "PLACING" /\ S[t].accepted = {}
           \/ /\ \E p \in L : t \in p.ids
              /\ t \notin timedOut /\ S[t].status \in {"SEARCHING", "CANCELLED"} /\ S[t].accepted = {}
           \/ /\ \A p \in A \cup L : t \notin p.ids
              /\ t \notin timedOut /\ S[t] = eng[t]
      /\ \A p \in L : \E t \in p.ids : S[t].status \in Dead
  BY <1>2, SettledFates DEF Dead
<1>6. /\ \A t \in Tickets : /\ e[t] \in EngineTicket
                            /\ t \notin UNION formed => e[t] = S[t]
                            /\ t \in UNION formed =>
                                 /\ e[t].accepted = {}
                                 /\ e[t].status = IF AcceptanceRequired THEN "REQUIRES_ACCEPTANCE"
                                                  ELSE "PLACING"
      /\ e = [t \in Tickets |-> e[t]]
  BY TicketFates DEF TickTickets
<1>7. \A r \in formed : \A t \in r :
        /\ r \in Rosters /\ t \in Tickets /\ t \notin timedOut
        /\ S[t].status \in InPool /\ S[t].accepted = {}
        /\ \A q \in formed : t \in q => q = r
        /\ \A p \in pending : t \in p.ids => p \in L
        /\ eng[t].status \in InPool \cup {"REQUIRES_ACCEPTANCE"}
  BY FormedTickets
<1>8. formed \subseteq Rosters
  BY DEF EngineTicks, MayForm
<1>9. \A t \in Tickets : t \in timedOut => eng[t].status \in InPool \cup {"REQUIRES_ACCEPTANCE"}
  BY <1>2 DEF MayTimeOut, Live
<1>. HIDE DEF A, L, S, e, matches, left
<1>10. ~AcceptanceRequired => pending = {} /\ left = {}
  BY <1>1 DEF EngineShape
<1>11. /\ matches \subseteq Rosters
       /\ IF AcceptanceRequired
          THEN \A r \in matches : \E p \in pending : p.ids = r /\ \A t \in r : FullyAccepted(t)
          ELSE left = {} /\ pending = {}
  BY <1>1, <1>3, <1>8, <1>10
<1>12. /\ \A p \in new : /\ p \in Proposal /\ p.ids \in formed /\ p.createdAt = now /\ ~p.expired
                        /\ AcceptanceRequired
       /\ AcceptanceRequired => \A r \in formed : \E p \in new : p.ids = r
       /\ \A p, q \in new : p.ids = q.ids => p = q
  <2>1. CASE AcceptanceRequired
    <3>1. \A p \in new : \E r \in formed : p = [ids |-> r, createdAt |-> now, expired |-> FALSE]
      BY <2>1
    <3>2. \A r \in formed : [ids |-> r, createdAt |-> now, expired |-> FALSE] \in Proposal
      BY <1>4, <1>8 DEF Proposal
    <3>3. \A r \in formed : [ids |-> r, createdAt |-> now, expired |-> FALSE] \in new
      BY <2>1
    <3>. HIDE DEF new
    <3>4. ASSUME NEW p \in new
          PROVE  p \in Proposal /\ p.ids \in formed /\ p.createdAt = now /\ ~p.expired
      <4>1. PICK r \in formed : p = [ids |-> r, createdAt |-> now, expired |-> FALSE]
        BY <3>1
      <4>. QED
        BY <3>2, <4>1
    <3>5. ASSUME NEW r \in formed PROVE \E p \in new : p.ids = r
      <4>. DEFINE x == [ids |-> r, createdAt |-> now, expired |-> FALSE]
      <4>1. x \in new /\ x.ids = r
        BY <3>3
      <4>. HIDE DEF x
      <4>. QED
        BY <4>1
    <3>6. ASSUME NEW p \in new, NEW q \in new, p.ids = q.ids PROVE p = q
      <4>1. PICK r \in formed : p = [ids |-> r, createdAt |-> now, expired |-> FALSE]
        BY <3>1
      <4>2. PICK r2 \in formed : q = [ids |-> r2, createdAt |-> now, expired |-> FALSE]
        BY <3>1
      <4>. QED
        BY <3>6, <4>1, <4>2
    <3>. QED
      BY <2>1, <3>4, <3>5, <3>6
  <2>2. CASE ~AcceptanceRequired
    BY <2>2
  <2>. QED
    BY <2>1, <2>2
<1>. HIDE DEF new
<1>13. left \subseteq Proposal /\ \A p \in left : p.ids \in Rosters
  BY <1>1, <1>3, <1>8, <1>12
<1>14. \A p \in L : \E t \in p.ids : e[t].status \in Dead
  <2>1. ASSUME NEW p \in L, NEW t \in p.ids, S[t].status \in Dead PROVE e[t].status \in Dead
    <3>1. t \in Tickets /\ t \notin UNION formed
      BY <1>1, <1>3, <1>7, <2>1 DEF Dead, InPool
    <3>. QED
      BY <1>6, <2>1, <3>1
  <2>. QED
    BY <1>5, <2>1
<1>15. ASSUME NEW p \in old PROVE Stays(p, e)
  <2>1. \A t \in p.ids : e[t] = eng[t]
    <3>1. SUFFICES ASSUME NEW t \in p.ids PROVE e[t] = eng[t]
      OBVIOUS
    <3>2. t \in Tickets /\ t \notin timedOut /\ \A q \in A \cup L : t \notin q.ids
      BY <1>1, <1>3, <3>1
    <3>3. S[t] = eng[t]
      BY <1>5, <3>2
    <3>4. t \notin UNION formed
      BY <1>7, <3>1
    <3>. QED
      BY <1>6, <3>2, <3>3, <3>4
  <2>. QED
    BY <1>1, <2>1 DEF Stays
<1>16. ASSUME NEW p \in new PROVE Forms(p, e, now)
  BY <1>6, <1>7, <1>12, <1>14 DEF Forms
<1>17. \A p, q \in left : p.ids \cap q.ids # {} => p = q
  <2>1. \A p \in old, q \in new : p.ids \cap q.ids = {}
    BY <1>7, <1>12
  <2>2. \A p, q \in new : p.ids \cap q.ids # {} => p = q
    BY <1>7, <1>12
  <2>3. \A p, q \in old : p.ids \cap q.ids # {} => p = q
    BY <1>3
  <2>. QED
    BY <1>1, <2>1, <2>2, <2>3
<1>18. \A p \in pending : \/ p \in left
                          \/ p.ids \in matches /\ \A t \in p.ids : FullyAccepted(t)
                          \/ \E t \in p.ids : e[t].status \in Dead
  BY <1>1, <1>14
<1>19. ASSUME NEW t \in Tickets
       PROVE  /\ e[t].status # "FAILED" /\ e[t].status # "REQUIRES_ACCEPTANCE" => e[t].accepted = {}
              /\ e[t].status = "REQUIRES_ACCEPTANCE" <=> \E p \in left : t \in p.ids
              /\ e[t].status = "PLACING" <=> t \in UNION matches
              /\ eng[t].status \notin InPool \cup {"REQUIRES_ACCEPTANCE"} => e[t].status = eng[t].status
              /\ eng[t].status \in InPool \cup {"REQUIRES_ACCEPTANCE"} =>
                   e[t].status \in InPool \cup {"REQUIRES_ACCEPTANCE", "PLACING"} \cup Dead
  <2>1. CASE t \in UNION formed
    <3>1. PICK r \in formed : t \in r
      BY <2>1
    <3>2. \A p \in pending : t \in p.ids => p \in L
      BY <1>7, <3>1
    <3>3. (\E p \in left : t \in p.ids) <=> AcceptanceRequired
      BY <1>1, <1>12, <3>1, <3>2
    <3>4. t \in UNION matches <=> ~AcceptanceRequired
      BY <1>1, <3>1, <3>2
    <3>. QED
      BY <1>6, <1>7, <2>1, <3>1, <3>3, <3>4 DEF InPool
  <2>2. CASE t \notin UNION formed
    <3>1. e[t] = S[t]
      BY <1>6, <2>2
    <3>2. \A p \in new : t \notin p.ids
      BY <1>12, <2>2
    <3>3. /\ (\E p \in left : t \in p.ids) <=> (\E p \in old : t \in p.ids)
          /\ t \in UNION matches <=> (\E p \in A : t \in p.ids)
      BY <1>1, <2>2, <3>2
    <3>4. /\ eng[t].status \notin {"PLACING", "FAILED"}
          /\ eng[t].status # "REQUIRES_ACCEPTANCE" => eng[t].accepted = {}
          /\ eng[t].status = "REQUIRES_ACCEPTANCE" <=> \E p \in pending : t \in p.ids
      BY DEF EngineShape
    <3>5. CASE t \in timedOut
      <4>1. ~\E p \in A : t \in p.ids
        BY <1>2, <3>5 DEF A, MayTimeOut
      <4>2. ~\E p \in old : t \in p.ids
        BY <1>1, <3>5
      <4>. QED
        BY <1>5, <1>9, <3>1, <3>3, <3>5, <4>1, <4>2 DEF InPool, Dead
    <3>6. CASE t \notin timedOut /\ \E p \in A : t \in p.ids
      <4>1. ~\E p \in old \cup L : t \in p.ids
        BY <1>1, <1>3, <3>6
      <4>2. S[t].status = "PLACING" /\ S[t].accepted = {}
        BY <1>5, <3>6, <4>1
      <4>3. eng[t].status = "REQUIRES_ACCEPTANCE"
        BY <1>1, <3>4, <3>6
      <4>. QED
        BY <3>1, <3>3, <3>6, <4>1, <4>2, <4>3 DEF InPool
    <3>7. CASE t \notin timedOut /\ \E p \in L : t \in p.ids
      <4>1. ~\E p \in old \cup A : t \in p.ids
        BY <1>1, <1>3, <3>7
      <4>2. S[t].status \in {"SEARCHING", "CANCELLED"} /\ S[t].accepted = {}
        BY <1>5, <3>7, <4>1
      <4>3. eng[t].status = "REQUIRES_ACCEPTANCE"
        BY <1>1, <3>4, <3>7
      <4>. QED
        BY <3>1, <3>3, <4>1, <4>2, <4>3 DEF InPool, Dead
    <3>8. CASE t \notin timedOut /\ ~\E p \in A \cup L : t \in p.ids
      <4>1. S[t] = eng[t]
        BY <1>5, <3>8
      <4>2. (\E p \in pending : t \in p.ids) <=> (\E p \in old : t \in p.ids)
        BY <1>1, <3>8
      <4>. QED
        BY <3>1, <3>3, <3>4, <3>8, <4>1, <4>2 DEF InPool
    <3>. QED
      BY <3>5, <3>6, <3>7, <3>8
  <2>. QED
    BY <2>1, <2>2
<1>20. e \in [Tickets -> EngineTicket]
  BY <1>6
<1>. HIDE DEF old
<1>21. \A p \in left : p.ids \in Rosters /\ (Stays(p, e) \/ Forms(p, e, now))
  BY <1>1, <1>13, <1>15, <1>16
<1>22. ASSUME NEW q \in matches, NEW r \in matches, q \cap r # {} PROVE q = r
  <2>1. PICK t \in q : t \in r
    BY <1>22
  <2>. QED
    BY <1>1, <1>3, <1>7, <2>1
<1>. QED
  BY <1>11, <1>13, <1>17, <1>18, <1>19, <1>20, <1>21, <1>22 DEF Ticked, e, matches, left

-----------------------------------------------------------------------------
(* The inductive invariant *)

\* The index of active tickets is exact.
Index(s) == s.active = {t \in s.tickets : ~IsTerminal(s.tk[t].status)}

Waiting(s, m) == {t \in s.tickets : s.tk[t].status = "REQUIRES_ACCEPTANCE" /\ s.tk[t].matchID = m}

\* A match is tracked exactly while tickets wait for it, which the engine has
\* proposed under an acceptance policy and under an id of its own.
Tracker(s, used) ==
  /\ Paired(s)
  /\ \A m \in MatchIDs : /\ s.byMatch[m] = Waiting(s, m)
                         /\ s.byMatch[m] # {} => /\ s.createdAt[m] # NoTime /\ m \in used
                                                 /\ AcceptanceRequired
  /\ \A t \in s.tickets : s.tk[t].status = "REQUIRES_ACCEPTANCE" => s.tk[t].matchID # NoMatch

\* A pending proposal is tracked, or it has lapsed short of acceptance and the
\* service has given it up already.
Known(p) == /\ svc.matchIDs[p.ids] # NoMatch
            /\ svc.createdAt[svc.matchIDs[p.ids]] = p.createdAt

GivenUp(p) == /\ p.expired /\ \E t \in p.ids : ~FullyAccepted(t)
              /\ \A t \in p.ids : status(t) \in InPool

PendingKnown == \A p \in pending : Known(p) \/ GivenUp(p)

\* A tracked match is pending in the engine, or cannot become so again: one of its
\* tickets is finished there.
Alive(m) == \/ \E p \in pending : p.ids = svc.byMatch[m] /\ p.createdAt = svc.createdAt[m]
            \/ \E t \in svc.byMatch[m] : IsTerminal(eng[t].status)

TrackedAlive == \A m \in MatchIDs : svc.byMatch[m] # {} => Alive(m)

IInv == /\ TypeOK /\ EngineShape /\ Index(svc) /\ Tracker(svc, usedIDs)
        /\ PendingKnown /\ TrackedAlive
        /\ EngineAgrees /\ OneBackfillPerSession /\ TickNeverFails

-----------------------------------------------------------------------------
(* The initial state *)

LEMMA InitIInv == Init => IInv
<1>. SUFFICES ASSUME Init PROVE IInv
  OBVIOUS
<1>1. NoEngineTicket \in EngineTicket /\ NoEngineTicket.status = Unknown /\ NoEngineTicket.accepted = {}
  BY DEF NoEngineTicket, EngineTicket
<1>2. Blank \in Ticket
  BY NewTicketType, PulledTicket DEF Blank
<1>3. svc \in Service
  <2>1. <<>> \in Seq(Detail(TicketEvents)) /\ <<>> \in Seq(Detail(MatchEvents))
    OBVIOUS
  <2>2. /\ [t \in Tickets |-> Blank] \in [Tickets -> Ticket]
        /\ [t \in Tickets |-> <<>>] \in [Tickets -> Seq(Detail(TicketEvents))]
        /\ [m \in MatchIDs |-> <<>>] \in [MatchIDs -> Seq(Detail(MatchEvents))]
        /\ [r \in Rosters |-> NoMatch] \in [Rosters -> MatchIDs \cup {NoMatch}]
        /\ [m \in MatchIDs |-> {}] \in [MatchIDs -> SUBSET Tickets]
        /\ [m \in MatchIDs |-> NoTime] \in [MatchIDs -> Times \cup {NoTime}]
    BY <1>2, <2>1
  <2>. QED
    BY <2>2 DEF Init, Service
<1>4. TypeOK
  BY <1>1, <1>3 DEF TypeOK, Init, FlexiInit, FlexiTypeOK
<1>5. EngineShape
  BY <1>1 DEF EngineShape, Init, FlexiInit, Unknown
<1>6. Index(svc) /\ OneBackfillPerSession
  BY DEF Index, OneBackfillPerSession, Init
<1>7. Tracker(svc, usedIDs)
  BY DEF Tracker, Paired, Waiting, Init
<1>8. PendingKnown /\ TrackedAlive
  BY DEF PendingKnown, TrackedAlive, Init, FlexiInit
<1>9. EngineAgrees
  BY <1>1 DEF EngineAgrees, Init, FlexiInit
<1>10. TickNeverFails
  BY DEF TickNeverFails, Init
<1>. QED
  BY <1>4, <1>5, <1>6, <1>7, <1>8, <1>9, <1>10 DEF IInv

-----------------------------------------------------------------------------
(* Steps that leave the service's account of the tickets alone *)

Quiet(s, u) ==
  /\ u \in Service /\ u.tickets = s.tickets /\ u.active = s.active /\ KeepsTracker(s, u)
  /\ \A t \in Tickets : /\ u.tk[t].status = s.tk[t].status /\ u.tk[t].matchID = s.tk[t].matchID
                        /\ Fixed(u.tk[t]) = Fixed(s.tk[t])

LEMMA QuietKeeps ==
  ASSUME svc \in Service, Index(svc), Tracker(svc, usedIDs), OneBackfillPerSession,
         Quiet(svc, svc'), UNCHANGED <<usedIDs, AcceptanceRequired>>
  PROVE  Index(svc)' /\ Tracker(svc, usedIDs)' /\ OneBackfillPerSession'
<1>1. svc.tickets \subseteq Tickets /\ svc.active \subseteq Tickets
  BY ServiceFields
<1>2. Index(svc)'
  BY <1>1 DEF Index, Quiet
<1>3. \A m : Waiting(svc, m)' = Waiting(svc, m)
  BY <1>1 DEF Waiting, Quiet
<1>4. Tracker(svc, usedIDs)'
  BY <1>1, <1>3 DEF Tracker, Paired, Quiet, KeepsTracker
<1>5. OneBackfillPerSession'
  BY <1>1 DEF OneBackfillPerSession, Quiet, Fixed
<1>. QED
  BY <1>2, <1>4, <1>5

\* A field of one ticket is set that says nothing about its status or its match.
LEMMA AnnotateTicket ==
  ASSUME NEW s \in Service, Index(s), NEW t \in s.tickets, NEW ticket \in Ticket,
         ticket.status = s.tk[t].status, ticket.matchID = s.tk[t].matchID,
         Fixed(ticket) = Fixed(s.tk[t])
  PROVE  Quiet(s, SaveTicket([s EXCEPT !.tk[t] = ticket], {t}))
<1>. DEFINE tk == [x \in Tickets |-> IF x = t THEN ticket ELSE s.tk[x]]
            v == [s EXCEPT !.tk = tk]
            u == SaveTicket(v, {t})
<1>1. t \in Tickets /\ {t} \in SUBSET Tickets
  BY ServiceFields
<1>2. tk \in [Tickets -> Ticket]
  BY ServiceFields
<1>3. [s EXCEPT !.tk[t] = ticket] = v
  BY <1>1 DEF Service
<1>. HIDE DEF tk
<1>4. /\ v \in Service /\ v.tk = tk /\ v.tickets = s.tickets /\ v.active = s.active
      /\ KeepsTracker(s, v)
  BY <1>2, SetTickets
<1>. HIDE DEF v
<1>5. /\ u \in Service /\ u.tickets = v.tickets /\ u.tk = v.tk /\ KeepsTracker(v, u)
      /\ u.active = (v.active \ {t}) \cup {x \in {t} : ~IsTerminal(v.tk[x].status)}
  BY <1>1, <1>4, SaveTicketEffect
<1>6. \A x \in Tickets : /\ tk[x].status = s.tk[x].status /\ tk[x].matchID = s.tk[x].matchID
                         /\ Fixed(tk[x]) = Fixed(s.tk[x])
  BY DEF tk
<1>7. u.active = s.active
  BY <1>1, <1>4, <1>5, <1>6 DEF Index
<1>8. KeepsTracker(s, u)
  BY <1>4, <1>5 DEF KeepsTracker
<1>9. Quiet(s, u)
  BY <1>4, <1>5, <1>6, <1>7, <1>8 DEF Quiet
<1>. QED
  BY <1>3, <1>9

-----------------------------------------------------------------------------
(* Commands that take a live ticket, and the proposal it is in, down *)

\* The engine has cancelled t, and dropped the others of its proposal.
Collapses(e, t) ==
  /\ e \in [Tickets -> EngineTicket]
  /\ \A u \in Tickets :
       /\ u = t => e[u].status = "CANCELLED" /\ e[u].accepted = {}
       /\ u # t /\ u \in Siblings(t) =>
            e[u].status \in {"SEARCHING", "CANCELLED"} /\ e[u].accepted = {}
       /\ u # t /\ u \notin Siblings(t) => e[u] = eng[u]

LEMMA CancelCollapses ==
  ASSUME FlexiTypeOK, NEW t \in Tickets, NEW requeued
  PROVE  Collapses(Cancelled(t, requeued), t)
<1>. DEFINE e == Cancelled(t, requeued)
<1>1. \A u \in Tickets : u # t => (u \in Siblings(t) <=> \E p \in ProposalsOf(t) : u \in p.ids)
  BY DEF Siblings
<1>2. \A u \in Tickets :
        /\ u = t => e[u] = Dropped(u, "CANCELLED")
        /\ u # t /\ u \in Siblings(t) =>
             e[u] = Dropped(u, "SEARCHING") \/ e[u] = Dropped(u, "CANCELLED")
        /\ u # t /\ u \notin Siblings(t) => e[u] = eng[u]
  BY <1>1 DEF Cancelled
<1>3. e = [u \in Tickets |-> e[u]]
  BY DEF Cancelled
<1>4. \A u \in Tickets : \A s \in {"SEARCHING", "CANCELLED"} :
        Dropped(u, s) \in EngineTicket /\ Dropped(u, s).status = s /\ Dropped(u, s).accepted = {}
  BY DroppedType DEF Statuses, Active, Terminal
<1>5. \A u \in Tickets : eng[u] \in EngineTicket
  BY DEF FlexiTypeOK
<1>. HIDE DEF e
<1>6. \A u \in Tickets : e[u] \in EngineTicket
  BY <1>2, <1>4, <1>5
<1>7. e \in [Tickets -> EngineTicket]
  BY <1>3, <1>6
<1>8. Collapses(e, t)
  BY <1>2, <1>4, <1>7 DEF Collapses
<1>. QED
  BY <1>8 DEF e

LEMMA RejectCollapses ==
  ASSUME FlexiTypeOK, NEW t \in Tickets, \E p \in pending : t \in p.ids
  PROVE  Collapses(Reject(t), t)
<1>. DEFINE e == Reject(t)
<1>1. /\ \A u \in Tickets : u # t => (u \in Siblings(t) <=> \E p \in ProposalsOf(t) : u \in p.ids)
      /\ \E p \in ProposalsOf(t) : t \in p.ids
  BY DEF Siblings, ProposalsOf
<1>2. \A u \in Tickets :
        /\ u = t => e[u] = Dropped(u, "CANCELLED")
        /\ u # t /\ u \in Siblings(t) =>
             e[u] = Dropped(u, "SEARCHING") \/ e[u] = Dropped(u, "CANCELLED")
        /\ u # t /\ u \notin Siblings(t) => e[u] = eng[u]
  BY <1>1 DEF Reject, Failed
<1>3. e = [u \in Tickets |-> e[u]]
  BY DEF Reject, Failed
<1>4. \A u \in Tickets : \A s \in {"SEARCHING", "CANCELLED"} :
        Dropped(u, s) \in EngineTicket /\ Dropped(u, s).status = s /\ Dropped(u, s).accepted = {}
  BY DroppedType DEF Statuses, Active, Terminal
<1>5. \A u \in Tickets : eng[u] \in EngineTicket
  BY DEF FlexiTypeOK
<1>. HIDE DEF e
<1>6. \A u \in Tickets : e[u] \in EngineTicket
  BY <1>2, <1>4, <1>5
<1>7. e \in [Tickets -> EngineTicket]
  BY <1>3, <1>6
<1>8. Collapses(e, t)
  BY <1>2, <1>4, <1>7 DEF Collapses
<1>. QED
  BY <1>8 DEF e

\* A ticket of the pool has no siblings; those of a proposed one wait as it does.
LEMMA SiblingsWait ==
  ASSUME FlexiTypeOK, EngineShape, NEW t, NEW u \in Siblings(t)
  PROVE  /\ u \in Tickets /\ eng[u].status = "REQUIRES_ACCEPTANCE"
         /\ \E p \in pending : t \in p.ids /\ u \in p.ids
BY DEF Siblings, ProposalsOf, EngineShape, FlexiTypeOK, Proposal

Shaped(e, P) ==
  \A u \in Tickets :
    /\ e[u].status \notin {"PLACING", "FAILED"}
    /\ e[u].status # "REQUIRES_ACCEPTANCE" => e[u].accepted = {}
    /\ e[u].status = "REQUIRES_ACCEPTANCE" <=> \E p \in P : u \in p.ids

\* The engine e, once t is cancelled in it, and the proposals P that are left.
LEMMA CollapsedEngine ==
  ASSUME FlexiTypeOK, EngineShape, NEW t \in Tickets, NEW e, Collapses(e, t),
         NEW P, P = pending \ ProposalsOf(t)
  PROVE  /\ P \subseteq pending /\ Shaped(e, P)
         /\ \A p \in P : \A u \in p.ids : u \in Tickets /\ e[u] = eng[u]
<1>1. \A u \in Tickets :
        /\ eng[u].status \notin {"PLACING", "FAILED"}
        /\ eng[u].status # "REQUIRES_ACCEPTANCE" => eng[u].accepted = {}
        /\ eng[u].status = "REQUIRES_ACCEPTANCE" <=> \E p \in pending : u \in p.ids
  BY DEF EngineShape
<1>2. P \subseteq pending /\ \A p \in P : t \notin p.ids /\ p.ids \subseteq Tickets
  BY DEF ProposalsOf, FlexiTypeOK, Proposal
<1>3. ASSUME NEW p \in P, NEW u \in p.ids PROVE u \in Tickets /\ u # t /\ u \notin Siblings(t)
  <2>1. ASSUME u \in Siblings(t) PROVE FALSE
    <3>1. PICK q \in pending : t \in q.ids /\ u \in q.ids
      BY <2>1, SiblingsWait
    <3>2. q = p
      BY <1>2, <1>3, <3>1 DEF EngineShape
    <3>. QED
      BY <1>2, <3>1, <3>2
  <2>. QED
    BY <1>2, <1>3, <2>1
<1>4. \A p \in P : \A u \in p.ids : u \in Tickets /\ e[u] = eng[u]
  BY <1>3 DEF Collapses
<1>5. ASSUME NEW u \in Tickets
      PROVE  /\ e[u].status \notin {"PLACING", "FAILED"}
             /\ e[u].status # "REQUIRES_ACCEPTANCE" => e[u].accepted = {}
             /\ e[u].status = "REQUIRES_ACCEPTANCE" <=> \E p \in P : u \in p.ids
  <2>1. CASE u = t \/ u \in Siblings(t)
    <3>1. e[u].status \in {"SEARCHING", "CANCELLED"} /\ e[u].accepted = {}
      BY <2>1 DEF Collapses
    <3>2. ~\E p \in P : u \in p.ids
      BY <1>3, <2>1
    <3>. QED
      BY <3>1, <3>2
  <2>2. CASE u # t /\ u \notin Siblings(t)
    <3>1. e[u] = eng[u]
      BY <2>2 DEF Collapses
    <3>2. (\E p \in P : u \in p.ids) <=> (\E p \in pending : u \in p.ids)
      BY <2>2 DEF Siblings, ProposalsOf
    <3>. QED
      BY <1>1, <3>1, <3>2
  <2>. QED
    BY <2>1, <2>2
<1>. QED
  BY <1>2, <1>4, <1>5 DEF Shaped

LEMMA CollapseShape ==
  ASSUME FlexiTypeOK, EngineShape, NEW t \in Tickets, Collapses(eng', t),
         pending' = pending \ ProposalsOf(t), UNCHANGED AcceptanceRequired
  PROVE  FlexiTypeOK' /\ EngineShape'
<1>1. pending' \subseteq pending /\ Shaped(eng', pending')
  BY CollapsedEngine
<1>2. FlexiTypeOK'
  BY <1>1 DEF FlexiTypeOK, Collapses
<1>3. EngineShape'
  BY <1>1 DEF EngineShape, Shaped
<1>. QED
  BY <1>2, <1>3

LEMMA CollapseKeeps ==
  ASSUME IInv, NEW t \in svc.tickets, Live(t), Collapses(eng', t),
         pending' = pending \ ProposalsOf(t), Quiet(svc, svc'), UNCHANGED <<usedIDs, AcceptanceRequired>>
  PROVE  /\ EngineShape' /\ FlexiTypeOK' /\ Index(svc)' /\ Tracker(svc, usedIDs)'
         /\ PendingKnown' /\ TrackedAlive' /\ EngineAgrees' /\ OneBackfillPerSession'
<1>. USE DEF IInv
<1>1. /\ FlexiTypeOK /\ svc \in Service /\ t \in Tickets
      /\ svc.tickets \subseteq Tickets
  BY ServiceFields DEF TypeOK
<1>2. EngineShape' /\ FlexiTypeOK'
  BY <1>1, CollapseShape
<1>3. Index(svc)' /\ Tracker(svc, usedIDs)' /\ OneBackfillPerSession'
  BY <1>1, QuietKeeps
<1>4. /\ pending' \subseteq pending
      /\ \A p \in pending' : \A u \in p.ids : u \in Tickets /\ eng'[u] = eng[u]
      /\ \A p \in pending : p \notin pending' => t \in p.ids
  <2>1. \A p \in pending : p \notin pending' => t \in p.ids
    BY DEF ProposalsOf
  <2>. QED
    BY <1>1, <2>1, CollapsedEngine
<1>5. \A u \in Tickets : status(u)' = status(u)
  BY DEF Quiet, status
<1>6. PendingKnown'
  <2>1. SUFFICES ASSUME NEW p \in pending' PROVE Known(p)' \/ GivenUp(p)'
    BY DEF PendingKnown
  <2>2. p \in pending /\ p.ids \in Rosters /\ \A u \in p.ids : u \in Tickets /\ eng'[u] = eng[u]
    BY <1>4, <2>1 DEF EngineShape
  <2>3. CASE Known(p)
    BY <2>3 DEF Known, Quiet, KeepsTracker
  <2>4. CASE GivenUp(p)
    BY <1>5, <2>2, <2>4 DEF GivenUp, FullyAccepted
  <2>. QED
    BY <2>2, <2>3, <2>4 DEF PendingKnown
<1>7. TrackedAlive'
  <2>1. SUFFICES ASSUME NEW m \in MatchIDs, svc'.byMatch[m] # {} PROVE Alive(m)'
    BY DEF TrackedAlive
  <2>2. svc.byMatch[m] # {} /\ svc'.byMatch[m] = svc.byMatch[m] /\ svc'.createdAt[m] = svc.createdAt[m]
    BY <2>1 DEF Quiet, KeepsTracker
  <2>3. CASE \E p \in pending : p.ids = svc.byMatch[m] /\ p.createdAt = svc.createdAt[m]
    <3>1. PICK p \in pending : p.ids = svc.byMatch[m] /\ p.createdAt = svc.createdAt[m]
      BY <2>3
    <3>2. CASE p \in pending'
      BY <2>2, <3>1, <3>2 DEF Alive
    <3>3. CASE p \notin pending'
      <4>1. t \in svc.byMatch[m]
        BY <1>4, <3>1, <3>3
      <4>2. IsTerminal(eng'[t].status)
        BY <1>1 DEF Collapses, IsTerminal, Terminal
      <4>. QED
        BY <2>2, <4>1, <4>2 DEF Alive
    <3>. QED
      BY <3>2, <3>3
  <2>4. CASE \E u \in svc.byMatch[m] : IsTerminal(eng[u].status)
    <3>1. PICK u \in svc.byMatch[m] : IsTerminal(eng[u].status)
      BY <2>4
    <3>2. u \in Tickets
      BY <1>1, <3>1, ServiceFields
    <3>3. u # t
      BY <3>1 DEF Live, IsTerminal, Terminal, InPool
    <3>4. u \notin Siblings(t)
      BY <1>1, <3>1, SiblingsWait DEF IsTerminal, Terminal
    <3>5. eng'[u] = eng[u]
      BY <3>2, <3>3, <3>4 DEF Collapses
    <3>. QED
      BY <2>2, <3>1, <3>5 DEF Alive
  <2>. QED
    BY <2>2, <2>3, <2>4 DEF TrackedAlive, Alive
<1>8. EngineAgrees'
  <2>1. SUFFICES ASSUME NEW u \in Tickets
                 PROVE  /\ u \notin svc.tickets => eng'[u].status = Unknown
                        /\ u \in svc.tickets =>
                             \/ eng'[u].status = status(u)
                             \/ eng'[u].status \in InPool \cup {"CANCELLED"} /\ status(u) \in InPool
                             \/ /\ eng'[u].status \in {"SEARCHING", "CANCELLED"}
                                /\ status(u) = "REQUIRES_ACCEPTANCE"
                             \/ /\ eng'[u].status = "REQUIRES_ACCEPTANCE" /\ status(u) \in InPool
                                /\ \A p \in pending' : u \in p.ids => p.expired
    BY <1>5 DEF EngineAgrees, Quiet
  <2>2. /\ u \notin svc.tickets => eng[u].status = Unknown
        /\ u \in svc.tickets =>
             \/ eng[u].status = status(u)
             \/ eng[u].status \in InPool \cup {"CANCELLED"} /\ status(u) \in InPool
             \/ eng[u].status \in {"SEARCHING", "CANCELLED"} /\ status(u) = "REQUIRES_ACCEPTANCE"
             \/ /\ eng[u].status = "REQUIRES_ACCEPTANCE" /\ status(u) \in InPool
                /\ \A p \in pending : u \in p.ids => p.expired
    BY <2>1 DEF EngineAgrees
  <2>3. CASE u = t
    <3>1. eng'[u].status = "CANCELLED"
      BY <2>3 DEF Collapses
    <3>2. status(u) \in InPool \cup {"REQUIRES_ACCEPTANCE"}
      BY <2>2, <2>3 DEF Live, InPool
    <3>. QED
      BY <2>3, <3>1, <3>2
  <2>4. CASE u # t /\ u \in Siblings(t)
    <3>1. eng'[u].status \in {"SEARCHING", "CANCELLED"}
      BY <2>4 DEF Collapses
    <3>2. eng[u].status = "REQUIRES_ACCEPTANCE"
      BY <1>1, <2>4, SiblingsWait
    <3>3. u \in svc.tickets /\ status(u) \in InPool \cup {"REQUIRES_ACCEPTANCE"}
      BY <2>2, <3>2 DEF InPool, Unknown
    <3>. QED
      BY <3>1, <3>3 DEF InPool
  <2>5. CASE u # t /\ u \notin Siblings(t)
    <3>1. eng'[u] = eng[u]
      BY <2>5 DEF Collapses
    <3>. QED
      BY <1>4, <2>2, <3>1
  <2>. QED
    BY <2>3, <2>4, <2>5
<1>. QED
  BY <1>2, <1>3, <1>6, <1>7, <1>8

\* StopMatchmaking keeps the invariant.
LEMMA StopKeeps ==
  ASSUME IInv, NEW t \in Tickets, NEW requeued, StopMatchmaking(t, requeued),
         UNCHANGED AcceptanceRequired
  PROVE  IInv'
<1>. USE DEF IInv
<1>1. /\ FlexiTypeOK /\ svc \in Service /\ t \in svc.tickets
      /\ UNCHANGED <<usedIDs, rejectedIn, tickFailed>>
  BY DEF TypeOK, StopMatchmaking
<1>. DEFINE ticket == RequestCancel(svc.tk[t])
<1>2. svc.tk[t] \in Ticket
  BY <1>1, ServiceFields
<1>3. /\ ticket \in Ticket /\ ticket.status = svc.tk[t].status
      /\ ticket.matchID = svc.tk[t].matchID /\ Fixed(ticket) = Fixed(svc.tk[t])
  BY <1>2 DEF RequestCancel, Ticket, Fixed
<1>4. svc' = SaveTicket([svc EXCEPT !.tk[t] = ticket], {t})
  BY DEF StopMatchmaking
<1>. HIDE DEF ticket
<1>5. Quiet(svc, svc')
  BY <1>1, <1>3, <1>4, AnnotateTicket
<1>6. /\ EngineShape' /\ FlexiTypeOK' /\ Index(svc)' /\ Tracker(svc, usedIDs)'
      /\ PendingKnown' /\ TrackedAlive' /\ EngineAgrees' /\ OneBackfillPerSession'
  <2>1. CASE Live(t)
    <3>1. Collapses(eng', t) /\ pending' = pending \ ProposalsOf(t)
      BY <1>1, <2>1, CancelCollapses DEF StopMatchmaking
    <3>. QED
      BY <1>1, <1>5, <2>1, <3>1, CollapseKeeps
  <2>2. CASE ~Live(t)
    <3>1. UNCHANGED <<eng, pending>>
      BY <2>2 DEF StopMatchmaking, engVars
    <3>2. Index(svc)' /\ Tracker(svc, usedIDs)' /\ OneBackfillPerSession'
      BY <1>1, <1>5, QuietKeeps
    <3>3. FlexiTypeOK' /\ EngineShape'
      BY <1>1, <3>1 DEF FlexiTypeOK, EngineShape
    <3>4. \A u \in Tickets : status(u)' = status(u)
      BY <1>5 DEF Quiet, status
    <3>5. PendingKnown'
      <4>1. \A p \in pending : p.ids \subseteq Tickets
        BY <1>1 DEF FlexiTypeOK, Proposal
      <4>2. ASSUME NEW p \in pending, GivenUp(p) PROVE GivenUp(p)'
        BY <3>1, <3>4, <4>1, <4>2 DEF GivenUp, FullyAccepted
      <4>3. ASSUME NEW p \in pending, Known(p) PROVE Known(p)'
        BY <1>5, <4>3 DEF Known, Quiet, KeepsTracker
      <4>. QED
        BY <3>1, <4>2, <4>3 DEF PendingKnown
    <3>6. TrackedAlive'
      BY <1>5, <3>1 DEF TrackedAlive, Alive, Quiet, KeepsTracker
    <3>7. EngineAgrees'
      BY <1>5, <3>1, <3>4 DEF EngineAgrees, Quiet
    <3>. QED
      BY <3>2, <3>3, <3>5, <3>6, <3>7
  <2>. QED
    BY <2>1, <2>2
<1>7. TypeOK' /\ TickNeverFails'
  BY <1>1, <1>5, <1>6 DEF TypeOK, Quiet, TickNeverFails
<1>. QED
  BY <1>6, <1>7

-----------------------------------------------------------------------------
(* Answers to a proposal, and deadlines *)

Lapsed(p, L) == IF p \in L THEN [p EXCEPT !.expired = TRUE] ELSE p

LEMMA LapsedFields ==
  ASSUME NEW p \in Proposal, NEW L
  PROVE  LET q == Lapsed(p, L)
         IN  /\ q \in Proposal /\ q.ids = p.ids /\ q.createdAt = p.createdAt
             /\ q.expired <=> p.expired \/ p \in L
BY DEF Lapsed, Proposal

LEMMA LapseImage ==
  ASSUME NEW P \in SUBSET Proposal, NEW L
  PROVE  /\ Lapse(P, L) \subseteq Proposal
         /\ \A q : q \in Lapse(P, L) <=> \E p \in P : q = Lapsed(p, L)
<1>1. \A q : q \in Lapse(P, L) <=> \E p \in P : q = Lapsed(p, L)
  BY DEF Lapse, Lapsed
<1>. QED
  BY <1>1, LapsedFields

\* No proposal is gained, lost or moved by a deadline.
LEMMA LapseShape ==
  ASSUME NEW P \in SUBSET Proposal, NEW L, NEW Q, Q = Lapse(P, L),
         \A p, q \in P : p.ids \cap q.ids # {} => p = q
  PROVE  /\ \A p, q \in Q : p.ids \cap q.ids # {} => p = q
         /\ \A t : (\E q \in Q : t \in q.ids) <=> (\E p \in P : t \in p.ids)
<1>1. \A q : q \in Q <=> \E p \in P : q = Lapsed(p, L)
  BY LapseImage
<1>2. \A p \in P : Lapsed(p, L).ids = p.ids
  BY LapsedFields
<1>3. ASSUME NEW q1 \in Q, NEW q2 \in Q, q1.ids \cap q2.ids # {} PROVE q1 = q2
  <2>1. PICK p1 \in P : q1 = Lapsed(p1, L)
    BY <1>1
  <2>2. PICK p2 \in P : q2 = Lapsed(p2, L)
    BY <1>1
  <2>3. p1.ids \cap p2.ids # {}
    BY <1>2, <1>3, <2>1, <2>2
  <2>. QED
    BY <2>1, <2>2, <2>3
<1>4. \A t : (\E q \in Q : t \in q.ids) <=> (\E p \in P : t \in p.ids)
  BY <1>1, <1>2
<1>. QED
  BY <1>3, <1>4

\* Players accept a proposal whose deadline has not passed; the proposals L lapse.
LEMMA AnswerKeeps ==
  ASSUME IInv, NEW L, pending' = Lapse(pending, L), Quiet(svc, svc'),
         UNCHANGED <<usedIDs, AcceptanceRequired>>,
         eng' \in [Tickets -> EngineTicket],
         \A u \in Tickets : /\ eng'[u].status = eng[u].status
                            /\ eng[u].status # "REQUIRES_ACCEPTANCE" => eng'[u] = eng[u],
         \A p \in pending : p.expired => \A u \in p.ids : eng'[u] = eng[u]
  PROVE  /\ EngineShape' /\ FlexiTypeOK' /\ Index(svc)' /\ Tracker(svc, usedIDs)'
         /\ PendingKnown' /\ TrackedAlive' /\ EngineAgrees' /\ OneBackfillPerSession'
<1>. USE DEF IInv
<1>1. /\ FlexiTypeOK /\ svc \in Service /\ svc.tickets \subseteq Tickets
      /\ pending \subseteq Proposal /\ \A p \in pending : p.ids \subseteq Tickets
  BY ServiceFields DEF TypeOK, FlexiTypeOK, Proposal
<1>2. Index(svc)' /\ Tracker(svc, usedIDs)' /\ OneBackfillPerSession'
  BY <1>1, QuietKeeps
<1>3. /\ pending' \subseteq Proposal
      /\ \A q : q \in pending' <=> \E p \in pending : q = Lapsed(p, L)
      /\ \A p \in pending : LET q == Lapsed(p, L)
                            IN  /\ q.ids = p.ids /\ q.createdAt = p.createdAt
                                /\ q.expired <=> p.expired \/ p \in L
  <2>1. /\ Lapse(pending, L) \subseteq Proposal
        /\ \A q : q \in Lapse(pending, L) <=> \E p \in pending : q = Lapsed(p, L)
    BY <1>1, LapseImage
  <2>2. \A p \in pending : LET q == Lapsed(p, L)
                           IN  /\ q.ids = p.ids /\ q.createdAt = p.createdAt
                               /\ q.expired <=> p.expired \/ p \in L
    BY <1>1, LapsedFields
  <2>. QED
    BY <2>1, <2>2
<1>4. FlexiTypeOK'
  BY <1>1, <1>3 DEF FlexiTypeOK
<1>5. EngineShape'
  <2>1. /\ \A p, q \in pending' : p.ids \cap q.ids # {} => p = q
        /\ \A t : (\E q \in pending' : t \in q.ids) <=> (\E p \in pending : t \in p.ids)
    <3>1. \A p, q \in pending : p.ids \cap q.ids # {} => p = q
      BY DEF EngineShape
    <3>. DEFINE Q == Lapse(pending, L)
    <3>2. /\ \A p, q \in Q : p.ids \cap q.ids # {} => p = q
          /\ \A t : (\E q \in Q : t \in q.ids) <=> (\E p \in pending : t \in p.ids)
      BY <1>1, <3>1, LapseShape
    <3>. QED
      BY <3>2
  <2>2. ASSUME NEW u \in Tickets
        PROVE  /\ eng'[u].status \notin {"PLACING", "FAILED"}
               /\ eng'[u].status # "REQUIRES_ACCEPTANCE" => eng'[u].accepted = {}
               /\ eng'[u].status = "REQUIRES_ACCEPTANCE" <=> \E p \in pending' : u \in p.ids
    BY <2>1 DEF EngineShape
  <2>3. \A p \in pending' : p.ids \in Rosters
    BY <1>3 DEF EngineShape
  <2>4. pending' # {} => AcceptanceRequired'
    BY <1>3 DEF EngineShape
  <2>. QED
    BY <2>1, <2>2, <2>3, <2>4 DEF EngineShape
<1>6. \A u \in Tickets : status(u)' = status(u)
  BY DEF Quiet, status
<1>7. PendingKnown'
  <2>1. SUFFICES ASSUME NEW q \in pending' PROVE Known(q)' \/ GivenUp(q)'
    BY DEF PendingKnown
  <2>2. PICK p \in pending : q = Lapsed(p, L)
    BY <1>3
  <2>3. q.ids = p.ids /\ q.createdAt = p.createdAt /\ (q.expired <=> p.expired \/ p \in L)
    BY <1>3, <2>2
  <2>4. CASE Known(p)
    BY <2>3, <2>4 DEF Known, Quiet, KeepsTracker
  <2>5. CASE GivenUp(p)
    <3>1. \A u \in p.ids : u \in Tickets /\ eng'[u] = eng[u]
      BY <1>1, <2>5 DEF GivenUp
    <3>. QED
      BY <1>6, <2>3, <2>5, <3>1 DEF GivenUp, FullyAccepted
  <2>. QED
    BY <2>4, <2>5 DEF PendingKnown
<1>8. TrackedAlive'
  <2>1. SUFFICES ASSUME NEW m \in MatchIDs, svc'.byMatch[m] # {} PROVE Alive(m)'
    BY DEF TrackedAlive
  <2>2. svc.byMatch[m] # {} /\ svc'.byMatch[m] = svc.byMatch[m] /\ svc'.createdAt[m] = svc.createdAt[m]
    BY <2>1 DEF Quiet, KeepsTracker
  <2>3. CASE \E p \in pending : p.ids = svc.byMatch[m] /\ p.createdAt = svc.createdAt[m]
    <3>1. PICK p \in pending : p.ids = svc.byMatch[m] /\ p.createdAt = svc.createdAt[m]
      BY <2>3
    <3>2. /\ Lapsed(p, L) \in pending'
          /\ Lapsed(p, L).ids = p.ids /\ Lapsed(p, L).createdAt = p.createdAt
      BY <1>3
    <3>. QED
      BY <2>2, <3>1, <3>2 DEF Alive
  <2>4. CASE \E u \in svc.byMatch[m] : IsTerminal(eng[u].status)
    <3>1. svc.byMatch[m] \subseteq Tickets
      BY <1>1, ServiceFields
    <3>. QED
      BY <2>2, <2>4, <3>1 DEF Alive
  <2>. QED
    BY <2>2, <2>3, <2>4 DEF TrackedAlive, Alive
<1>9. EngineAgrees'
  <2>1. SUFFICES ASSUME NEW u \in Tickets
                 PROVE  /\ u \notin svc.tickets => eng'[u].status = Unknown
                        /\ u \in svc.tickets =>
                             \/ eng'[u].status = status(u)
                             \/ eng'[u].status \in InPool \cup {"CANCELLED"} /\ status(u) \in InPool
                             \/ /\ eng'[u].status \in {"SEARCHING", "CANCELLED"}
                                /\ status(u) = "REQUIRES_ACCEPTANCE"
                             \/ /\ eng'[u].status = "REQUIRES_ACCEPTANCE" /\ status(u) \in InPool
                                /\ \A p \in pending' : u \in p.ids => p.expired
    BY <1>6 DEF EngineAgrees, Quiet
  <2>2. eng'[u].status = eng[u].status
    OBVIOUS
  <2>3. (\A p \in pending : u \in p.ids => p.expired) => (\A p \in pending' : u \in p.ids => p.expired)
    BY <1>3
  <2>. QED
    BY <2>1, <2>2, <2>3 DEF EngineAgrees
<1>. QED
  BY <1>2, <1>4, <1>5, <1>7, <1>8, <1>9

LEMMA QuietItself ==
  ASSUME NEW s \in Service
  PROVE  Quiet(s, s)
BY DEF Quiet, KeepsTracker

\* An answer changes what a ticket's players said, and is announced.
LEMMA RecordDecisionsEffect ==
  ASSUME svc \in Service, Index(svc), NEW t \in svc.tickets, NEW ids \in SUBSET Players,
         NEW decision \in Decisions, svc.tk[t].matchID \in MatchIDs
  PROVE  Quiet(svc, recordDecisions(t, ids, decision))
<1>. DEFINE ticket == RecordPlayerAcceptances(svc.tk[t], ids, decision)
            s == SaveTicket([svc EXCEPT !.tk[t] = ticket], {t})
            m == s.tk[t].matchID
            u == Announce(s, {m}, "AcceptMatch")
<1>1. t \in Tickets /\ svc.tk[t] \in Ticket
  BY ServiceFields
<1>2. /\ ticket \in Ticket /\ ticket.status = svc.tk[t].status
      /\ ticket.matchID = svc.tk[t].matchID /\ Fixed(ticket) = Fixed(svc.tk[t])
  BY <1>1 DEF RecordPlayerAcceptances, Ticket, Fixed
<1>3. recordDecisions(t, ids, decision) \in {s, u}
  BY DEF recordDecisions
<1>. HIDE DEF ticket
<1>4. Quiet(svc, s)
  BY <1>2, AnnotateTicket
<1>. HIDE DEF s
<1>5. s \in Service /\ m \in MatchIDs
  BY <1>1, <1>4 DEF Quiet
<1>. HIDE DEF m
<1>6. u \in Service /\ KeepsTickets(s, u) /\ KeepsTracker(s, u)
  BY <1>5, AnnounceEffect DEF MatchEvents
<1>. HIDE DEF u
<1>7. Quiet(svc, u)
  BY <1>4, <1>6 DEF Quiet, KeepsTickets, KeepsTracker
<1>. QED
  BY <1>3, <1>4, <1>7

\* A ticket that may be answered for waits in its match on both sides.
LEMMA AnsweredTicket ==
  ASSUME IInv, NEW t, NEW ids, MayAccept(t, ids)
  PROVE  /\ t \in svc.tickets /\ t \in Tickets /\ svc.tk[t].matchID \in MatchIDs
         /\ eng[t].status = "REQUIRES_ACCEPTANCE"
         /\ \E p \in pending : t \in p.ids
         /\ \A p \in pending : p.expired => t \notin p.ids
<1>1. /\ svc \in Service /\ FlexiTypeOK /\ EngineShape /\ Tracker(svc, usedIDs)
      /\ t \in svc.tickets /\ svc.tk[t].status = "REQUIRES_ACCEPTANCE"
  BY DEF IInv, TypeOK, MayAccept, MayDecide
<1>2. t \in Tickets /\ svc.tk[t] \in Ticket
  BY <1>1, ServiceFields
<1>3. svc.tk[t].matchID \in MatchIDs
  BY <1>1, <1>2 DEF Tracker, Ticket
<1>4. PICK p \in pending : ~p.expired /\ t \in p.ids
  BY DEF MayAccept, PendingAcceptances
<1>5. \A q \in pending : t \in q.ids => q = p
  BY <1>1, <1>4 DEF EngineShape
<1>6. eng[t].status = "REQUIRES_ACCEPTANCE"
  BY <1>1, <1>2, <1>4 DEF EngineShape
<1>. QED
  BY <1>1, <1>2, <1>3, <1>4, <1>5, <1>6

LEMMA AcceptedEngine ==
  ASSUME FlexiTypeOK, NEW t \in Tickets, NEW ids \in SUBSET Players
  PROVE  LET e == Accept(t, ids)
         IN  /\ e \in [Tickets -> EngineTicket]
             /\ \A u \in Tickets : e[u].status = eng[u].status /\ (u # t => e[u] = eng[u])
BY DEF Accept, FlexiTypeOK, EngineTicket

LEMMA AcceptKeeps ==
  ASSUME IInv, NEW t \in Tickets, NEW ids \in SUBSET Players, AcceptMatch(t, ids),
         UNCHANGED AcceptanceRequired
  PROVE  IInv'
<1>1. /\ svc \in Service /\ FlexiTypeOK /\ Index(svc) /\ MayAccept(t, ids)
      /\ eng' = Accept(t, ids) /\ UNCHANGED <<pending, usedIDs, rejectedIn, tickFailed>>
      /\ pending \subseteq Proposal
  BY DEF IInv, TypeOK, AcceptMatch, FlexiTypeOK
<1>2. /\ t \in svc.tickets /\ svc.tk[t].matchID \in MatchIDs
      /\ eng[t].status = "REQUIRES_ACCEPTANCE" /\ \A p \in pending : p.expired => t \notin p.ids
  BY <1>1, AnsweredTicket
<1>3. Quiet(svc, svc')
  BY <1>1, <1>2, RecordDecisionsEffect DEF AcceptMatch, Decisions
<1>4. /\ eng' \in [Tickets -> EngineTicket]
      /\ \A u \in Tickets : eng'[u].status = eng[u].status /\ (u # t => eng'[u] = eng[u])
  BY <1>1, AcceptedEngine
<1>5. /\ \A u \in Tickets : /\ eng'[u].status = eng[u].status
                            /\ eng[u].status # "REQUIRES_ACCEPTANCE" => eng'[u] = eng[u]
      /\ \A p \in pending : p.expired => \A u \in p.ids : eng'[u] = eng[u]
  BY <1>1, <1>2, <1>4 DEF Proposal
<1>6. pending' = Lapse(pending, {})
  BY <1>1 DEF Lapse
<1>7. /\ EngineShape' /\ FlexiTypeOK' /\ Index(svc)' /\ Tracker(svc, usedIDs)'
      /\ PendingKnown' /\ TrackedAlive' /\ EngineAgrees' /\ OneBackfillPerSession'
  BY <1>1, <1>3, <1>4, <1>5, <1>6, AnswerKeeps
<1>8. TypeOK' /\ TickNeverFails'
  BY <1>1, <1>3, <1>7 DEF IInv, TypeOK, Quiet, TickNeverFails
<1>. QED
  BY <1>7, <1>8 DEF IInv

LEMMA AcceptLapsesKeeps ==
  ASSUME IInv, NEW t \in Tickets, NEW ids \in SUBSET Players, NEW done \in SUBSET ids,
         AcceptMatchLapses(t, ids, done), UNCHANGED AcceptanceRequired
  PROVE  IInv'
<1>1. /\ svc \in Service /\ FlexiTypeOK /\ Index(svc) /\ MayAccept(t, ids)
      /\ eng' = Accept(t, done) /\ pending' = Lapse(pending, ProposalsOf(t))
      /\ UNCHANGED <<svc, usedIDs, rejectedIn, tickFailed>>
      /\ pending \subseteq Proposal
  BY DEF IInv, TypeOK, AcceptMatchLapses, FlexiTypeOK
<1>2. /\ eng[t].status = "REQUIRES_ACCEPTANCE" /\ \A p \in pending : p.expired => t \notin p.ids
  BY <1>1, AnsweredTicket
<1>3. Quiet(svc, svc')
  BY <1>1, QuietItself
<1>4. /\ eng' \in [Tickets -> EngineTicket]
      /\ \A u \in Tickets : eng'[u].status = eng[u].status /\ (u # t => eng'[u] = eng[u])
  BY <1>1, AcceptedEngine
<1>5. /\ \A u \in Tickets : /\ eng'[u].status = eng[u].status
                            /\ eng[u].status # "REQUIRES_ACCEPTANCE" => eng'[u] = eng[u]
      /\ \A p \in pending : p.expired => \A u \in p.ids : eng'[u] = eng[u]
  BY <1>1, <1>2, <1>4 DEF Proposal
<1>6. /\ EngineShape' /\ FlexiTypeOK' /\ Index(svc)' /\ Tracker(svc, usedIDs)'
      /\ PendingKnown' /\ TrackedAlive' /\ EngineAgrees' /\ OneBackfillPerSession'
  BY <1>1, <1>3, <1>4, <1>5, AnswerKeeps
<1>7. TypeOK' /\ TickNeverFails'
  BY <1>1, <1>3, <1>6 DEF IInv, TypeOK, Quiet, TickNeverFails
<1>. QED
  BY <1>6, <1>7 DEF IInv

LEMMA RejectKeeps ==
  ASSUME IInv, NEW t \in Tickets, NEW ids \in SUBSET Players, RejectMatch(t, ids),
         UNCHANGED AcceptanceRequired
  PROVE  IInv'
<1>1. /\ svc \in Service /\ FlexiTypeOK /\ Index(svc) /\ MayAccept(t, ids)
      /\ eng' = Reject(t) /\ pending' = pending \ ProposalsOf(t)
      /\ UNCHANGED <<usedIDs, tickFailed>>
      /\ rejectedIn' = rejectedIn \cup {svc.tk[t].matchID}
  BY DEF IInv, TypeOK, RejectMatch
<1>2. /\ t \in svc.tickets /\ svc.tk[t].matchID \in MatchIDs
      /\ eng[t].status = "REQUIRES_ACCEPTANCE" /\ \E p \in pending : t \in p.ids
  BY <1>1, AnsweredTicket
<1>3. Quiet(svc, svc')
  BY <1>1, <1>2, RecordDecisionsEffect DEF RejectMatch, Decisions
<1>4. Collapses(eng', t) /\ Live(t)
  BY <1>1, <1>2, RejectCollapses DEF Live
<1>5. /\ EngineShape' /\ FlexiTypeOK' /\ Index(svc)' /\ Tracker(svc, usedIDs)'
      /\ PendingKnown' /\ TrackedAlive' /\ EngineAgrees' /\ OneBackfillPerSession'
  BY <1>1, <1>2, <1>3, <1>4, CollapseKeeps
<1>6. TypeOK' /\ TickNeverFails'
  BY <1>1, <1>2, <1>3, <1>5 DEF IInv, TypeOK, Quiet, TickNeverFails
<1>. QED
  BY <1>5, <1>6 DEF IInv

LEMMA DeadlineKeeps ==
  ASSUME IInv, DeadlinePasses, UNCHANGED AcceptanceRequired
  PROVE  IInv'
<1>1. /\ svc \in Service /\ FlexiTypeOK
      /\ UNCHANGED <<eng, svc, usedIDs, rejectedIn, tickFailed>>
      /\ eng' \in [Tickets -> EngineTicket]
  BY DEF IInv, TypeOK, DeadlinePasses, Deadline, FlexiTypeOK
<1>2. PICK p \in pending : pending' = Lapse(pending, {p})
  BY DEF DeadlinePasses, Deadline
<1>3. Quiet(svc, svc')
  BY <1>1, QuietItself
<1>4. /\ EngineShape' /\ FlexiTypeOK' /\ Index(svc)' /\ Tracker(svc, usedIDs)'
      /\ PendingKnown' /\ TrackedAlive' /\ EngineAgrees' /\ OneBackfillPerSession'
  BY <1>1, <1>2, <1>3, AnswerKeeps
<1>5. TypeOK' /\ TickNeverFails'
  BY <1>1, <1>3, <1>4 DEF IInv, TypeOK, Quiet, TickNeverFails
<1>. QED
  BY <1>4, <1>5 DEF IInv

-----------------------------------------------------------------------------
(* Commands that bring a ticket in *)

\* The earlier requests prev are cancelled on both sides, if the engine works on
\* them at all; e are its tickets then and P its proposals.
Superseded(prev, e, P) ==
  \/ prev = {} /\ e = eng /\ P = pending
  \/ \E v \in Tickets :
       /\ prev = {v}
       /\ IF Live(v) THEN Collapses(e, v) /\ P = pending \ ProposalsOf(v)
                     ELSE e = eng /\ P = pending

\* A pending proposal of a ticket that does not wait in the service was given up.
LEMMA OutsideProposal ==
  ASSUME IInv, NEW p \in pending, NEW v \in p.ids, status(v) # "REQUIRES_ACCEPTANCE"
  PROVE  GivenUp(p) /\ ~Known(p)
<1>1. /\ svc \in Service /\ FlexiTypeOK /\ Tracker(svc, usedIDs)
      /\ p.ids \in Rosters
  BY DEF IInv, TypeOK, EngineShape
<1>2. ASSUME Known(p) PROVE FALSE
  <2>. DEFINE m == svc.matchIDs[p.ids]
  <2>1. m # NoMatch /\ m \in MatchIDs
    BY <1>1, <1>2, ServiceFields DEF Known
  <2>2. svc.byMatch[m] = p.ids
    BY <1>1, <2>1 DEF Tracker, Paired
  <2>3. v \in Waiting(svc, m)
    BY <1>1, <2>1, <2>2 DEF Tracker
  <2>. QED
    BY <2>3 DEF Waiting, status
<1>. QED
  BY <1>2 DEF IInv, PendingKnown

\* Only tickets of a proposal that was given up are touched besides prev.
LEMMA SupersededEngine ==
  ASSUME IInv, NEW prev, NEW e, NEW P, Superseded(prev, e, P), prev \subseteq svc.tickets,
         \A u \in prev : status(u) \in InPool
  PROVE  /\ e \in [Tickets -> EngineTicket] /\ P \subseteq pending /\ Shaped(e, P)
         /\ \A p \in P : \A u \in p.ids : u \in Tickets /\ e[u] = eng[u]
         /\ \A p \in pending : Known(p) => p \in P
         /\ \A u \in Tickets : eng[u].status = Unknown \/ IsTerminal(eng[u].status) => e[u] = eng[u]
         /\ \A u \in prev : e[u].status = "CANCELLED"
         /\ \A u \in Tickets \ prev :
              \/ e[u] = eng[u]
              \/ e[u].status \in {"SEARCHING", "CANCELLED"} /\ status(u) \in InPool
<1>1. /\ svc \in Service /\ FlexiTypeOK /\ EngineShape /\ svc.tickets \subseteq Tickets
      /\ eng \in [Tickets -> EngineTicket] /\ pending \subseteq Proposal
  BY ServiceFields DEF IInv, TypeOK, FlexiTypeOK
<1>2. Shaped(eng, pending) /\ \A p \in pending : \A u \in p.ids : u \in Tickets
  BY <1>1 DEF EngineShape, Shaped, Proposal
<1>3. CASE prev = {} /\ e = eng /\ P = pending
  BY <1>1, <1>2, <1>3
<1>4. ASSUME NEW v \in Tickets, prev = {v}, ~Live(v), e = eng, P = pending
      PROVE  \A u \in prev : e[u].status = "CANCELLED"
  <2>1. v \in svc.tickets /\ status(v) \in InPool
    BY <1>4
  <2>2. eng[v].status \in InPool \cup {"CANCELLED", "SEARCHING", "REQUIRES_ACCEPTANCE"}
    BY <2>1, <1>4 DEF IInv, EngineAgrees, InPool
  <2>. QED
    BY <1>4, <2>2 DEF Live, InPool
<1>5. CASE \E v \in Tickets : prev = {v} /\ ~Live(v) /\ e = eng /\ P = pending
  BY <1>1, <1>2, <1>4, <1>5
<1>6. ASSUME NEW v \in Tickets, prev = {v}, Live(v), Collapses(e, v), P = pending \ ProposalsOf(v)
      PROVE  /\ e \in [Tickets -> EngineTicket] /\ P \subseteq pending /\ Shaped(e, P)
             /\ \A p \in P : \A u \in p.ids : u \in Tickets /\ e[u] = eng[u]
             /\ \A p \in pending : Known(p) => p \in P
             /\ \A u \in Tickets : eng[u].status = Unknown \/ IsTerminal(eng[u].status) => e[u] = eng[u]
             /\ \A u \in prev : e[u].status = "CANCELLED"
             /\ \A u \in Tickets \ prev :
                  \/ e[u] = eng[u]
                  \/ e[u].status \in {"SEARCHING", "CANCELLED"} /\ status(u) \in InPool
  <2>1. /\ P \subseteq pending /\ Shaped(e, P)
        /\ \A p \in P : \A u \in p.ids : u \in Tickets /\ e[u] = eng[u]
    BY <1>1, <1>6, CollapsedEngine
  <2>2. status(v) \in InPool /\ status(v) # "REQUIRES_ACCEPTANCE"
    BY <1>6 DEF InPool
  <2>3. \A p \in pending : v \in p.ids => GivenUp(p) /\ ~Known(p)
    BY <2>2, OutsideProposal
  <2>4. \A p \in pending : Known(p) => p \in P
    BY <1>6, <2>3 DEF ProposalsOf
  <2>5. \A u \in Siblings(v) : eng[u].status = "REQUIRES_ACCEPTANCE" /\ status(u) \in InPool
    BY <1>1, <2>3, SiblingsWait DEF GivenUp
  <2>6. ASSUME NEW u \in Tickets
        PROVE  /\ eng[u].status = Unknown \/ IsTerminal(eng[u].status) => e[u] = eng[u]
               /\ u = v => e[u].status = "CANCELLED"
               /\ u # v => \/ e[u] = eng[u]
                           \/ e[u].status \in {"SEARCHING", "CANCELLED"} /\ status(u) \in InPool
    BY <1>6, <2>5 DEF Collapses, Live, InPool, Unknown, IsTerminal, Terminal
  <2>7. e \in [Tickets -> EngineTicket]
    BY <1>6 DEF Collapses
  <2>. QED
    BY <1>6, <2>1, <2>4, <2>6, <2>7
<1>7. CASE \E v \in Tickets : prev = {v} /\ Live(v) /\ Collapses(e, v) /\ P = pending \ ProposalsOf(v)
  BY <1>6, <1>7
<1>. QED
  BY <1>3, <1>5, <1>7 DEF Superseded

\* The ticket t is new, and the earlier requests prev are cancelled.
BringsIn(s, u, t, prev) ==
  /\ u \in Service /\ u.tickets = s.tickets \cup {t} /\ u.active = (s.active \ prev) \cup {t}
  /\ KeepsTracker(s, u)
  /\ u.tk[t].status = "QUEUED"
  /\ \A x \in Tickets \ {t} :
       /\ Fixed(u.tk[x]) = Fixed(s.tk[x])
       /\ u.tk[x].status = IF x \in prev THEN "CANCELLED" ELSE s.tk[x].status
       /\ u.tk[x].matchID = s.tk[x].matchID

LEMMA EnqueueKeeps ==
  ASSUME IInv, NEW t \in Tickets, IdFree(t), NEW prev, prev \subseteq svc.active,
         \A u \in prev : status(u) \in InPool,
         NEW e, NEW b \in BOOLEAN, Superseded(prev, e, pending'), eng' = Enqueued(e, t, b),
         BringsIn(svc, svc', t, prev),
         \A u \in svc.active \ prev :
           svc'.tk[t].isBackfill /\ svc.tk[u].isBackfill /\ svc'.tk[t].session = svc.tk[u].session
             => svc'.tk[t].session = NoSession,
         UNCHANGED <<usedIDs, rejectedIn, tickFailed, AcceptanceRequired>>
  PROVE  IInv'
<1>1. /\ svc \in Service /\ FlexiTypeOK /\ EngineShape /\ svc.tickets \subseteq Tickets
      /\ pending \subseteq Proposal /\ Index(svc) /\ Tracker(svc, usedIDs)
      /\ t \notin svc.tickets /\ eng[t].status = Unknown
  BY ServiceFields DEF IInv, TypeOK, FlexiTypeOK, IdFree
<1>2. prev \subseteq svc.tickets /\ svc.active \subseteq svc.tickets /\ t \notin prev /\ t \notin svc.active
  BY <1>1 DEF Index
<1>3. /\ e \in [Tickets -> EngineTicket] /\ pending' \subseteq pending /\ Shaped(e, pending')
      /\ \A p \in pending' : \A u \in p.ids : u \in Tickets /\ e[u] = eng[u]
      /\ \A p \in pending : Known(p) => p \in pending'
      /\ \A u \in Tickets : eng[u].status = Unknown \/ IsTerminal(eng[u].status) => e[u] = eng[u]
      /\ \A u \in prev : e[u].status = "CANCELLED"
      /\ \A u \in Tickets \ prev :
           \/ e[u] = eng[u]
           \/ e[u].status \in {"SEARCHING", "CANCELLED"} /\ status(u) \in InPool
  <2>. DEFINE P == pending'
  <2>1. Superseded(prev, e, P)
    OBVIOUS
  <2>. HIDE DEF P
  <2>2. /\ e \in [Tickets -> EngineTicket] /\ P \subseteq pending /\ Shaped(e, P)
        /\ \A p \in P : \A u \in p.ids : u \in Tickets /\ e[u] = eng[u]
        /\ \A p \in pending : Known(p) => p \in P
        /\ \A u \in Tickets : eng[u].status = Unknown \/ IsTerminal(eng[u].status) => e[u] = eng[u]
        /\ \A u \in prev : e[u].status = "CANCELLED"
        /\ \A u \in Tickets \ prev :
             \/ e[u] = eng[u]
             \/ e[u].status \in {"SEARCHING", "CANCELLED"} /\ status(u) \in InPool
    BY <1>2, <2>1, SupersededEngine
  <2>. QED
    BY <2>2 DEF P
<1>4. /\ eng' \in [Tickets -> EngineTicket]
      /\ eng'[t].status = "QUEUED" /\ eng'[t].accepted = {}
      /\ \A u \in Tickets \ {t} : eng'[u] = e[u]
  <2>1. "QUEUED" \in Statuses
    BY DEF Statuses, Active
  <2>. QED
    BY <1>3, <2>1 DEF Enqueued, EngineTicket
<1>5. \A p \in pending' : t \notin p.ids
  BY <1>1, <1>3 DEF EngineShape, Unknown
<1>6. FlexiTypeOK'
  BY <1>1, <1>3, <1>4 DEF FlexiTypeOK
<1>7. EngineShape'
  <2>1. Shaped(eng', pending')
    <3>1. SUFFICES ASSUME NEW u \in Tickets
                   PROVE  /\ eng'[u].status \notin {"PLACING", "FAILED"}
                          /\ eng'[u].status # "REQUIRES_ACCEPTANCE" => eng'[u].accepted = {}
                          /\ eng'[u].status = "REQUIRES_ACCEPTANCE" <=> \E p \in pending' : u \in p.ids
      BY DEF Shaped
    <3>2. CASE u = t
      BY <1>4, <1>5, <3>2
    <3>3. CASE u # t
      BY <1>3, <1>4, <3>3 DEF Shaped
    <3>. QED
      BY <3>2, <3>3
  <2>. QED
    BY <1>1, <1>3, <2>1 DEF EngineShape, Shaped
<1>8. Index(svc)'
  <2>1. \A u \in Tickets : u \in prev => svc'.tk[u].status = "CANCELLED"
    BY <1>2 DEF BringsIn
  <2>. QED
    BY <1>1, <1>2, <2>1 DEF Index, BringsIn, IsTerminal, Terminal
<1>9. \A m : Waiting(svc, m)' = Waiting(svc, m)
  <2>1. \A u \in svc.tickets : (svc'.tk[u].status = "REQUIRES_ACCEPTANCE")
                                 <=> (svc.tk[u].status = "REQUIRES_ACCEPTANCE")
    BY <1>1 DEF BringsIn, status, InPool
  <2>. QED
    BY <1>1, <2>1 DEF Waiting, BringsIn
<1>10. Tracker(svc, usedIDs)'
  <2>1. \A u \in svc'.tickets : svc'.tk[u].status = "REQUIRES_ACCEPTANCE" =>
                                  svc'.tk[u].matchID # NoMatch
    BY <1>1 DEF BringsIn, Tracker, status, InPool
  <2>. QED
    BY <1>1, <1>9, <2>1 DEF Tracker, Paired, BringsIn, KeepsTracker
<1>11. PendingKnown'
  <2>1. SUFFICES ASSUME NEW p \in pending' PROVE Known(p)' \/ GivenUp(p)'
    BY DEF PendingKnown
  <2>2. p \in pending /\ \A u \in p.ids : u \in Tickets /\ u # t /\ eng'[u] = eng[u]
    BY <1>3, <1>4, <1>5
  <2>3. CASE Known(p)
    BY <2>3 DEF Known, BringsIn, KeepsTracker
  <2>4. CASE GivenUp(p)
    <3>1. \A u \in p.ids : u \notin prev
      <4>1. ASSUME NEW u \in p.ids, u \in prev PROVE FALSE
        <5>1. eng[u].status = "REQUIRES_ACCEPTANCE" /\ e[u] = eng[u] /\ e[u].status = "CANCELLED"
          BY <1>1, <1>3, <2>2, <4>1 DEF EngineShape
        <5>. QED
          BY <5>1
      <4>. QED
        BY <4>1
    <3>2. \A u \in p.ids : status(u)' = status(u)
      BY <2>2, <3>1 DEF status, BringsIn
    <3>. QED
      BY <2>2, <2>4, <3>2 DEF GivenUp, FullyAccepted
  <2>. QED
    BY <2>2, <2>3, <2>4 DEF IInv, PendingKnown
<1>12. TrackedAlive'
  <2>1. SUFFICES ASSUME NEW m \in MatchIDs, svc'.byMatch[m] # {} PROVE Alive(m)'
    BY DEF TrackedAlive
  <2>2. svc.byMatch[m] # {} /\ svc'.byMatch[m] = svc.byMatch[m] /\ svc'.createdAt[m] = svc.createdAt[m]
    BY <2>1 DEF BringsIn, KeepsTracker
  <2>3. CASE \E p \in pending : p.ids = svc.byMatch[m] /\ p.createdAt = svc.createdAt[m]
    <3>1. PICK p \in pending : p.ids = svc.byMatch[m] /\ p.createdAt = svc.createdAt[m]
      BY <2>3
    <3>2. Known(p)
      BY <1>1, <2>2, <3>1, TicketConstants DEF TicketConstants, Known, Tracker, Paired
    <3>3. p \in pending'
      BY <1>3, <3>2
    <3>. QED
      BY <2>2, <3>1, <3>3 DEF Alive
  <2>4. CASE \E u \in svc.byMatch[m] : IsTerminal(eng[u].status)
    <3>1. PICK u \in svc.byMatch[m] : IsTerminal(eng[u].status)
      BY <2>4
    <3>2. u \in Tickets
      BY <1>1, <3>1, ServiceFields
    <3>3. u # t
      BY <1>1, <3>1 DEF Unknown, IsTerminal, Terminal
    <3>4. eng'[u] = eng[u]
      BY <1>3, <1>4, <3>1, <3>2, <3>3
    <3>. QED
      BY <2>2, <3>1, <3>4 DEF Alive
  <2>. QED
    BY <2>2, <2>3, <2>4 DEF IInv, TrackedAlive, Alive
<1>13. EngineAgrees'
  <2>1. SUFFICES ASSUME NEW u \in Tickets
                 PROVE  /\ u \notin svc'.tickets => eng'[u].status = Unknown
                        /\ u \in svc'.tickets =>
                             \/ eng'[u].status = status(u)'
                             \/ eng'[u].status \in InPool \cup {"CANCELLED"} /\ status(u)' \in InPool
                             \/ /\ eng'[u].status \in {"SEARCHING", "CANCELLED"}
                                /\ status(u)' = "REQUIRES_ACCEPTANCE"
                             \/ /\ eng'[u].status = "REQUIRES_ACCEPTANCE" /\ status(u)' \in InPool
                                /\ \A p \in pending' : u \in p.ids => p.expired
    BY DEF EngineAgrees
  <2>2. CASE u = t
    BY <1>4, <2>2 DEF BringsIn, status
  <2>3. CASE u \in prev
    BY <1>2, <1>3, <1>4, <2>3 DEF BringsIn, status
  <2>4. CASE u # t /\ u \notin prev
    <3>1. /\ status(u)' = status(u) /\ (u \in svc'.tickets <=> u \in svc.tickets)
          /\ eng'[u] = e[u]
      BY <1>4, <2>4 DEF BringsIn, status
    <3>2. /\ u \notin svc.tickets => eng[u].status = Unknown
          /\ u \in svc.tickets =>
               \/ eng[u].status = status(u)
               \/ eng[u].status \in InPool \cup {"CANCELLED"} /\ status(u) \in InPool
               \/ eng[u].status \in {"SEARCHING", "CANCELLED"} /\ status(u) = "REQUIRES_ACCEPTANCE"
               \/ /\ eng[u].status = "REQUIRES_ACCEPTANCE" /\ status(u) \in InPool
                  /\ \A p \in pending : u \in p.ids => p.expired
      BY DEF IInv, EngineAgrees
    <3>3. CASE e[u] = eng[u]
      BY <1>3, <3>1, <3>2, <3>3
    <3>4. CASE e[u] # eng[u]
      <4>1. e[u].status \in {"SEARCHING", "CANCELLED"} /\ status(u) \in InPool
        BY <1>3, <2>4, <3>4
      <4>2. u \in svc.tickets
        BY <1>3, <3>2, <3>4
      <4>. QED
        BY <3>1, <4>1, <4>2 DEF InPool
    <3>. QED
      BY <3>3, <3>4
  <2>. QED
    BY <2>2, <2>3, <2>4
<1>14. OneBackfillPerSession'
  <2>1. SUFFICES ASSUME NEW x \in svc'.active, NEW y \in svc'.active,
                        svc'.tk[x].isBackfill, svc'.tk[y].isBackfill,
                        svc'.tk[x].session = svc'.tk[y].session, svc'.tk[x].session # NoSession
                 PROVE  x = y
    BY DEF OneBackfillPerSession
  <2>2. \A u \in svc.active : /\ svc'.tk[u].isBackfill = svc.tk[u].isBackfill
                              /\ svc'.tk[u].session = svc.tk[u].session
    BY <1>1, <1>2 DEF BringsIn, Fixed
  <2>3. svc'.active = (svc.active \ prev) \cup {t}
    BY DEF BringsIn
  <2>. QED
    BY <2>1, <2>2, <2>3 DEF IInv, OneBackfillPerSession
<1>15. TypeOK' /\ TickNeverFails'
  BY <1>6 DEF IInv, TypeOK, BringsIn, TickNeverFails
<1>. QED
  BY <1>6, <1>7, <1>8, <1>10, <1>11, <1>12, <1>13, <1>14, <1>15 DEF IInv

\* What committing a new ticket and publishing it leave.
LEMMA CommitAndPublish ==
  ASSUME NEW v \in Service, NEW t \in Tickets, t \notin v.active, NEW ticket \in Ticket,
         ticket.status = "QUEUED"
  PROVE  LET u == addTicket(commitTicket(v, t, ticket), {t})
         IN  /\ u \in Service /\ u.tickets = v.tickets \cup {t} /\ u.active = v.active \cup {t}
             /\ KeepsTracker(v, u)
             /\ u.tk[t].status = "QUEUED" /\ Fixed(u.tk[t]) = Fixed(ticket)
             /\ \A x \in Tickets \ {t} : u.tk[x] = v.tk[x]
<1>. DEFINE w == commitTicket(v, t, ticket)
            u == addTicket(w, {t})
<1>1. /\ w \in Service /\ w.tickets = v.tickets \cup {t} /\ KeepsTracker(v, w)
      /\ \A x \in Tickets : w.tk[x] = IF x = t THEN ticket ELSE v.tk[x]
      /\ w.active = (v.active \ {t}) \cup {x \in {t} : ~IsTerminal(ticket.status)}
  BY CommitTicketEffect
<1>. HIDE DEF w
<1>2. /\ u \in Service /\ u.tickets = w.tickets /\ u.active = w.active /\ KeepsTracker(w, u)
      /\ \A x \in Tickets : u.tk[x] = IF x \in {t} THEN PullEvents(w.tk[x]) ELSE w.tk[x]
  <2>1. {t} \in SUBSET Tickets
    OBVIOUS
  <2>. QED
    BY <1>1, <2>1, AddTicketEffect
<1>. HIDE DEF u
<1>3. u.active = v.active \cup {t}
  BY <1>1, <1>2 DEF IsTerminal, Terminal
<1>4. PullEvents(ticket).status = ticket.status /\ Fixed(PullEvents(ticket)) = Fixed(ticket)
  BY PulledTicket
<1>5. KeepsTracker(v, u)
  BY <1>1, <1>2 DEF KeepsTracker
<1>6. u.tk[t].status = "QUEUED" /\ Fixed(u.tk[t]) = Fixed(ticket)
  BY <1>1, <1>2, <1>4
<1>7. \A x \in Tickets \ {t} : u.tk[x] = v.tk[x]
  BY <1>1, <1>2
<1>. QED
  BY <1>1, <1>2, <1>3, <1>5, <1>6, <1>7 DEF u, w

LEMMA StartKeeps ==
  ASSUME IInv, NEW t \in Tickets, StartMatchmaking(t), UNCHANGED AcceptanceRequired
  PROVE  IInv'
<1>. DEFINE ticket == newTicket(FALSE, NoSession)
<1>1. /\ svc \in Service /\ Index(svc) /\ IdFree(t) /\ t \notin svc.tickets
      /\ eng' = Enqueued(eng, t, FALSE)
      /\ svc' = addTicket(commitTicket(svc, t, ticket), {t})
      /\ UNCHANGED <<pending, usedIDs, rejectedIn, tickFailed>>
  BY DEF IInv, TypeOK, StartMatchmaking, IdFree
<1>2. t \notin svc.active
  BY <1>1 DEF Index
<1>3. ticket \in Ticket /\ ticket.status = "QUEUED" /\ Fixed(ticket) = <<FALSE, NoSession>>
  BY NewTicketType
<1>. HIDE DEF ticket
<1>4. /\ svc' \in Service /\ svc'.tickets = svc.tickets \cup {t} /\ svc'.active = svc.active \cup {t}
      /\ KeepsTracker(svc, svc')
      /\ svc'.tk[t].status = "QUEUED" /\ Fixed(svc'.tk[t]) = Fixed(ticket)
      /\ \A x \in Tickets \ {t} : svc'.tk[x] = svc.tk[x]
  <2>. DEFINE w == addTicket(commitTicket(svc, t, ticket), {t})
  <2>1. /\ w \in Service /\ w.tickets = svc.tickets \cup {t} /\ w.active = svc.active \cup {t}
        /\ KeepsTracker(svc, w)
        /\ w.tk[t].status = "QUEUED" /\ Fixed(w.tk[t]) = Fixed(ticket)
        /\ \A x \in Tickets \ {t} : w.tk[x] = svc.tk[x]
    BY <1>1, <1>2, <1>3, CommitAndPublish
  <2>2. svc' = w
    BY <1>1
  <2>. HIDE DEF w
  <2>. QED
    BY <2>1, <2>2
<1>5. BringsIn(svc, svc', t, {})
  BY <1>4 DEF BringsIn
<1>6. svc'.tk[t].isBackfill = FALSE
  BY <1>3, <1>4 DEF Fixed
<1>7. Superseded({}, eng, pending')
  BY <1>1 DEF Superseded
<1>. DEFINE prev == {}
<1>8. /\ prev \subseteq svc.active /\ \A u \in prev : status(u) \in InPool
      /\ BringsIn(svc, svc', t, prev) /\ Superseded(prev, eng, pending')
      /\ \A u \in svc.active \ prev :
           svc'.tk[t].isBackfill /\ svc.tk[u].isBackfill /\ svc'.tk[t].session = svc.tk[u].session
             => svc'.tk[t].session = NoSession
  BY <1>5, <1>6, <1>7
<1>. HIDE DEF prev
<1>. QED
  BY <1>1, <1>8, EnqueueKeeps

\* The engine's part of StartMatchBackfill.
LEMMA BackfillSupersedes ==
  ASSUME IInv, NEW t, NEW session, NEW requeued, StartMatchBackfill(t, session, requeued)
  PROVE  \E e : eng' = Enqueued(e, t, TRUE) /\ Superseded(findSessionBackfill(session), e, pending')
<1>. DEFINE prev == findSessionBackfill(session)
            live == {u \in prev : Live(u)}
            e == IF live = {} THEN eng ELSE Cancelled(CHOOSE u \in live : TRUE, requeued)
<1>1. /\ FlexiTypeOK /\ eng' = Enqueued(e, t, TRUE)
      /\ pending' = pending \ UNION {ProposalsOf(u) : u \in live}
  BY DEF IInv, TypeOK, StartMatchBackfill
<1>2. prev \subseteq Tickets
  BY ServiceFields DEF findSessionBackfill, IInv, TypeOK
<1>3. Superseded(prev, e, pending')
  <2>1. CASE prev = {}
    <3>1. live = {}
      BY <2>1
    <3>2. e = eng /\ pending' = pending
      BY <1>1, <3>1
    <3>. QED
      BY <2>1, <3>2 DEF Superseded
  <2>2. CASE prev # {}
    <3>1. PICK x \in prev : TRUE
      BY <2>2
    <3>2. \A y \in prev : y = x
      BY <3>1 DEF findSessionBackfill, IInv, OneBackfillPerSession
    <3>3. prev = {x} /\ x \in Tickets
      BY <1>2, <3>1, <3>2
    <3>. HIDE DEF prev
    <3>4. CASE Live(x)
      <4>1. live = {x}
        BY <3>3, <3>4
      <4>2. e = Cancelled(x, requeued)
        BY <4>1
      <4>3. pending' = pending \ ProposalsOf(x)
        BY <1>1, <4>1
      <4>4. Collapses(e, x)
        BY <1>1, <3>3, <4>2, CancelCollapses
      <4>. QED
        BY <3>3, <3>4, <4>3, <4>4 DEF Superseded
    <3>5. CASE ~Live(x)
      <4>1. live = {}
        BY <3>3, <3>5
      <4>2. e = eng /\ pending' = pending
        BY <1>1, <4>1
      <4>. QED
        BY <3>3, <3>5, <4>2 DEF Superseded
    <3>. QED
      BY <3>4, <3>5
  <2>. QED
    BY <2>1, <2>2
<1>. QED
  BY <1>1, <1>3

LEMMA BackfillKeeps ==
  ASSUME IInv, NEW t \in Tickets, NEW session \in BackfillARNs, NEW requeued,
         StartMatchBackfill(t, session, requeued), UNCHANGED AcceptanceRequired
  PROVE  IInv'
<1>. DEFINE prev == findSessionBackfill(session)
            v == supersedeBackfill(svc, prev)
            ticket == newTicket(TRUE, session)
<1>1. /\ svc \in Service /\ Index(svc) /\ IdFree(t) /\ t \notin svc.tickets /\ FlexiTypeOK
      /\ svc.tickets \subseteq Tickets
      /\ \A u \in prev : isSupersedable(svc.tk[u].status)
      /\ svc' = addTicket(commitTicket(v, t, ticket), {t})
      /\ UNCHANGED <<usedIDs, rejectedIn, tickFailed>>
  BY ServiceFields DEF IInv, TypeOK, StartMatchBackfill, IdFree
<1>2. /\ t \notin svc.active /\ prev \subseteq svc.active /\ svc.active \subseteq svc.tickets
      /\ prev \subseteq Tickets /\ t \notin prev
  BY <1>1 DEF Index, findSessionBackfill
<1>3. \A u \in prev : status(u) \in InPool
  BY <1>1 DEF isSupersedable, InPool, status
<1>4. ticket \in Ticket /\ ticket.status = "QUEUED" /\ Fixed(ticket) = <<TRUE, session>>
  BY MatchmakingConstants, NewTicketType DEF MatchmakingConstants
<1>5. PICK e : eng' = Enqueued(e, t, TRUE) /\ Superseded(prev, e, pending')
  BY BackfillSupersedes
<1>6. \A u \in svc.active \ prev :
        svc.tk[u].isBackfill /\ session = svc.tk[u].session => session = NoSession
  BY DEF findSessionBackfill
<1>. HIDE DEF prev, ticket
<1>7. /\ v \in Service /\ v.tickets = svc.tickets /\ KeepsTracker(svc, v)
      /\ \A x \in Tickets : v.tk[x] = IF x \in prev
                                    THEN PullEvents(MarkCancelledBySuperseded(svc.tk[x]))
                                    ELSE svc.tk[x]
      /\ v.active = (svc.active \ prev) \cup {x \in prev : ~IsTerminal(v.tk[x].status)}
  BY <1>1, <1>2, SupersedeEffect
<1>. HIDE DEF v
<1>8. ASSUME NEW x \in prev
      PROVE  /\ v.tk[x].status = "CANCELLED" /\ v.tk[x].matchID = svc.tk[x].matchID
             /\ Fixed(v.tk[x]) = Fixed(svc.tk[x])
  <2>. DEFINE y == MarkCancelled(svc.tk[x], "superseded")
  <2>1. x \in Tickets /\ svc.tk[x] \in Ticket /\ svc.tk[x].status \in InPool
    BY <1>1, <1>2, <1>3, ServiceFields DEF status
  <2>2. y \in Ticket /\ y.status = "CANCELLED" /\ y.matchID = svc.tk[x].matchID
        /\ Fixed(y) = Fixed(svc.tk[x])
    BY <2>1, CancelledTicket DEF InPool
  <2>3. v.tk[x] = PullEvents(y)
    BY <1>7, <2>1 DEF MarkCancelledBySuperseded
  <2>. HIDE DEF y
  <2>. QED
    BY <2>2, <2>3, PulledTicket
<1>9. v.active = svc.active \ prev
  BY <1>7, <1>8 DEF IsTerminal, Terminal
<1>10. t \notin v.active
  BY <1>2, <1>9
<1>11. /\ svc' \in Service /\ svc'.tickets = v.tickets \cup {t} /\ svc'.active = v.active \cup {t}
       /\ KeepsTracker(v, svc')
       /\ svc'.tk[t].status = "QUEUED" /\ Fixed(svc'.tk[t]) = Fixed(ticket)
       /\ \A x \in Tickets \ {t} : svc'.tk[x] = v.tk[x]
  <2>. DEFINE w == addTicket(commitTicket(v, t, ticket), {t})
  <2>1. /\ w \in Service /\ w.tickets = v.tickets \cup {t} /\ w.active = v.active \cup {t}
        /\ KeepsTracker(v, w)
        /\ w.tk[t].status = "QUEUED" /\ Fixed(w.tk[t]) = Fixed(ticket)
        /\ \A x \in Tickets \ {t} : w.tk[x] = v.tk[x]
    <3>1. v \in Service /\ t \notin v.active /\ ticket \in Ticket /\ ticket.status = "QUEUED"
      BY <1>4, <1>7, <1>10
    <3>. QED
      BY <3>1, CommitAndPublish
  <2>2. svc' = w
    BY <1>1
  <2>. HIDE DEF w
  <2>. QED
    BY <2>1, <2>2
<1>12. BringsIn(svc, svc', t, prev)
  <2>1. KeepsTracker(svc, svc')
    BY <1>7, <1>11 DEF KeepsTracker
  <2>2. ASSUME NEW x \in Tickets \ {t}
        PROVE  /\ Fixed(svc'.tk[x]) = Fixed(svc.tk[x])
               /\ svc'.tk[x].status = IF x \in prev THEN "CANCELLED" ELSE svc.tk[x].status
               /\ svc'.tk[x].matchID = svc.tk[x].matchID
    BY <1>7, <1>8, <1>11
  <2>. QED
    BY <1>7, <1>9, <1>11, <2>1, <2>2 DEF BringsIn
<1>13. svc'.tk[t].session = session
  BY <1>4, <1>11 DEF Fixed
<1>. QED
  BY <1>1, <1>2, <1>3, <1>5, <1>6, <1>12, <1>13, EnqueueKeeps

-----------------------------------------------------------------------------
(* The phases of a tick, one after the other.  s is the service between two of
   them, e the engine's tickets as the tick left them, after the proposals the
   engine then reports. *)

\* Only the tickets S have moved, and the index has followed.
MovesOnly(s, u, S) ==
  /\ u \in Service /\ u.tickets = s.tickets
  /\ \A t \in Tickets \ S : u.tk[t] = s.tk[t]
  /\ u.active = (s.active \ S) \cup {t \in S : ~IsTerminal(u.tk[t].status)}

\* No request has become active, and none has changed what it is about.
Narrows(s, u) == u.active \subseteq s.active /\ \A t \in s.active : Fixed(u.tk[t]) = Fixed(s.tk[t])

LEMMA MovesKeepIndex ==
  ASSUME NEW s \in Service, NEW u, NEW S \in SUBSET s.active, Index(s), MovesOnly(s, u, S),
         \A t \in S : Fixed(u.tk[t]) = Fixed(s.tk[t])
  PROVE  Index(u) /\ Narrows(s, u)
<1>1. s.tickets \subseteq Tickets /\ s.active \subseteq s.tickets
  BY ServiceFields DEF Index
<1>2. \A t \in s.tickets : t \notin S => u.tk[t] = s.tk[t]
  BY <1>1 DEF MovesOnly
<1>3. Index(u)
  BY <1>1, <1>2 DEF Index, MovesOnly
<1>4. Narrows(s, u)
  BY <1>1, <1>2 DEF Narrows, MovesOnly
<1>. QED
  BY <1>3, <1>4

\* What the service shows of a ticket the engine still has something to say about.
Fate(x, y) ==
  /\ y \in Statuses \ {"FAILED"}
  /\ y \in {"PLACING", "REQUIRES_ACCEPTANCE"} => x \in InPool \cup {"REQUIRES_ACCEPTANCE"}
  /\ y \in InPool => x \in InPool
  /\ y \in Dead => x \in InPool \cup {y}
  /\ y = "COMPLETED" => x = y

\* The tickets and the matches the tracker follows, between two phases.
Between(s, e, used) ==
  /\ s \in Service /\ s.tickets = svc.tickets /\ Index(s) /\ Tracker(s, used)
  /\ s.active \subseteq svc.active
  /\ \A t \in s.active : Fixed(s.tk[t]) = Fixed(svc.tk[t])
  /\ \A t \in s.tickets : Fate(s.tk[t].status, e[t].status)
  /\ \A t \in Tickets \ s.tickets : e[t].status = Unknown

\* The match m is a proposal the engine still reports.
Reports(s, after, m) == \E p \in after : p.ids = s.byMatch[m] /\ p.createdAt = s.createdAt[m]

LEMMA ForgetPaired ==
  ASSUME NEW s \in Service, NEW u \in Service, Paired(s), NEW M \in SUBSET MatchIDs,
         Forgets(s, u, M)
  PROVE  Paired(u)
<1>1. ASSUME NEW m \in MatchIDs, u.byMatch[m] # {}
      PROVE  u.byMatch[m] \in Rosters /\ u.matchIDs[u.byMatch[m]] = m
  <2>1. m \notin M /\ u.byMatch[m] = s.byMatch[m]
    BY <1>1 DEF Forgets
  <2>2. s.byMatch[m] \in Rosters /\ s.matchIDs[s.byMatch[m]] = m
    BY <1>1, <2>1 DEF Paired
  <2>3. ~\E n \in M : s.byMatch[n] = s.byMatch[m]
    BY <1>1, <2>1, <2>2 DEF Paired
  <2>. QED
    BY <2>1, <2>2, <2>3 DEF Forgets
<1>2. ASSUME NEW r \in Rosters, u.matchIDs[r] # NoMatch
      PROVE  u.byMatch[u.matchIDs[r]] = r
  <2>1. u.matchIDs[r] = s.matchIDs[r] /\ ~\E n \in M : s.byMatch[n] = r
    BY <1>2 DEF Forgets
  <2>2. s.byMatch[s.matchIDs[r]] = r /\ s.matchIDs[r] \in MatchIDs
    BY <1>2, <2>1, ServiceFields DEF Paired
  <2>. QED
    BY <2>1, <2>2 DEF Forgets
<1>. QED
  BY <1>1, <1>2 DEF Paired

\* What a tick finds: how the engine's tickets relate to the service's.
LEMMA TickFinds ==
  ASSUME IInv, NEW e, NEW matches, NEW left, NEW now, Ticked(e, matches, left, now),
         NEW t \in Tickets
  PROVE  LET x == svc.tk[t].status
             y == e[t].status
         IN  /\ t \notin svc.tickets => y = Unknown
             /\ t \in svc.tickets =>
                  /\ y \in Statuses \ {"FAILED"}
                  /\ y \in {"PLACING", "REQUIRES_ACCEPTANCE"} \cup InPool =>
                       x \in InPool \cup {"REQUIRES_ACCEPTANCE"}
                  /\ y \in Dead => x \in InPool \cup {y, "REQUIRES_ACCEPTANCE"}
                  /\ y = "COMPLETED" => x = y
<1>. DEFINE x == svc.tk[t].status
            y0 == eng[t].status
            y == e[t].status
            Told == /\ t \notin svc.tickets => y0 = Unknown
                    /\ t \in svc.tickets =>
                         \/ y0 = x
                         \/ y0 \in InPool \cup {"CANCELLED"} /\ x \in InPool
                         \/ y0 \in {"SEARCHING", "CANCELLED"} /\ x = "REQUIRES_ACCEPTANCE"
                         \/ y0 = "REQUIRES_ACCEPTANCE" /\ x \in InPool
<1>1. x \in Statuses
  BY ServiceFields DEF IInv, TypeOK, Ticket
<1>2. Told
  BY DEF IInv, EngineAgrees, status
<1>3. y0 \notin {"PLACING", "FAILED"}
  BY DEF IInv, EngineShape
<1>4. /\ y0 \notin InPool \cup {"REQUIRES_ACCEPTANCE"} => y = y0
      /\ y0 \in InPool \cup {"REQUIRES_ACCEPTANCE"} =>
           y \in InPool \cup {"REQUIRES_ACCEPTANCE", "PLACING"} \cup Dead
  BY DEF Ticked
<1>. HIDE DEF x, y0, y
<1>5. /\ t \notin svc.tickets => y = Unknown
      /\ t \in svc.tickets =>
           /\ y \in Statuses \ {"FAILED"}
           /\ y \in {"PLACING", "REQUIRES_ACCEPTANCE"} \cup InPool =>
                x \in InPool \cup {"REQUIRES_ACCEPTANCE"}
           /\ y \in Dead => x \in InPool \cup {y, "REQUIRES_ACCEPTANCE"}
           /\ y = "COMPLETED" => x = y
  BY <1>1, <1>2, <1>3, <1>4 DEF InPool, Dead, Unknown, Statuses, Active, Terminal
<1>. QED
  BY <1>5 DEF x, y

\* A proposal that became a match is known to the service.
LEMMA MatchKnown ==
  ASSUME IInv, NEW e, NEW matches, NEW left, NEW now, Ticked(e, matches, left, now),
         NEW r \in matches, NEW m \in MatchIDs, NEW t \in r, t \in svc.byMatch[m]
  PROVE  svc.byMatch[m] = r
<1>1. svc \in Service /\ Tracker(svc, usedIDs) /\ AcceptanceRequired
  BY DEF IInv, TypeOK, Tracker
<1>2. PICK p \in pending : p.ids = r /\ \A u \in r : FullyAccepted(u)
  BY <1>1 DEF Ticked
<1>3. Known(p) /\ p.ids \in Rosters
  BY <1>2 DEF IInv, PendingKnown, GivenUp, EngineShape
<1>. DEFINE n == svc.matchIDs[r]
<1>4. n \in MatchIDs /\ svc.byMatch[n] = r
  BY <1>1, <1>2, <1>3, ServiceFields DEF Known, Tracker, Paired
<1>. HIDE DEF n
<1>5. t \in Waiting(svc, m) /\ t \in Waiting(svc, n)
  BY <1>1, <1>4 DEF Tracker
<1>. QED
  BY <1>4, <1>5 DEF Waiting

\* settleOldProposals lets go of every proposal that is over and did not become
\* a match.
LEMMA TickSettles ==
  ASSUME IInv, NEW e, NEW matches, NEW left, NEW now, Ticked(e, matches, left, now),
         NEW after \in SUBSET left
  PROVE  LET s == settleOldProposals(svc, e, matches, after)
         IN  /\ Between(s, e, usedIDs)
             /\ \A m \in MatchIDs : s.byMatch[m] # {} => s.byMatch[m] \in matches \/ Reports(s, after, m)
<1>. DEFINE s == settleOldProposals(svc, e, matches, after)
            gone == SettledProposals(svc, matches, after)
            S == Leaving(svc, e, gone)
            Rel(t) == PullEvents(Released(svc, e, t))
<1>1. /\ svc \in Service /\ Index(svc) /\ Tracker(svc, usedIDs)
      /\ svc.tickets \subseteq Tickets /\ svc.active \subseteq svc.tickets
      /\ gone \in SUBSET MatchIDs
  BY ServiceFields DEF IInv, TypeOK, Index, SettledProposals
<1>2. /\ \A t \in S : t \in svc.tickets /\ svc.tk[t].status = "REQUIRES_ACCEPTANCE" /\ svc.tk[t] \in Ticket
      /\ \A t \in svc.tickets : \A m \in gone : t \in svc.byMatch[m] /\ e[t].status # Unknown => t \in S
      /\ \A t \in S : \E m \in gone : t \in svc.byMatch[m]
  BY <1>1, ServiceFields DEF Leaving, Tracker, Waiting
<1>3. \A m \in MatchIDs : m \in gone <=> /\ svc.byMatch[m] # {} /\ svc.byMatch[m] \notin matches
                                         /\ ~Reports(svc, after, m)
  BY <1>1 DEF SettledProposals, Reports, Tracker
<1>4. Moves(svc, s, S, Rel) /\ Forgets(svc, s, gone)
  BY <1>1, SettleEffect
<1>. HIDE DEF s, gone, S
<1>5. /\ s \in Service /\ s.tickets = svc.tickets
      /\ \A t \in Tickets : s.tk[t] = IF t \in S THEN Rel(t) ELSE svc.tk[t]
      /\ s.active = (svc.active \ S) \cup {t \in S : ~IsTerminal(s.tk[t].status)}
  BY <1>4 DEF Moves
<1>6. \A t \in Tickets :
        /\ t \notin svc.tickets => e[t].status = Unknown
        /\ t \in svc.tickets =>
             /\ e[t].status \in Statuses \ {"FAILED"}
             /\ e[t].status \in {"PLACING", "REQUIRES_ACCEPTANCE"} \cup InPool =>
                  svc.tk[t].status \in InPool \cup {"REQUIRES_ACCEPTANCE"}
             /\ e[t].status \in Dead =>
                  svc.tk[t].status \in InPool \cup {e[t].status, "REQUIRES_ACCEPTANCE"}
             /\ e[t].status = "COMPLETED" => svc.tk[t].status = e[t].status
  BY TickFinds
<1>7. \A t \in svc.tickets : e[t].status # Unknown
  BY <1>1, <1>6 DEF Statuses, Active, Terminal, Unknown
<1>8. ASSUME NEW t \in S PROVE e[t].status # "PLACING"
  <2>1. PICK m \in gone : t \in svc.byMatch[m]
    BY <1>2
  <2>2. ASSUME NEW r \in matches, t \in r PROVE FALSE
    <3>1. svc.byMatch[m] = r
      BY <1>1, <2>1, <2>2, MatchKnown
    <3>. QED
      BY <1>1, <1>3, <2>1, <2>2, <3>1
  <2>3. t \in Tickets
    BY <1>1, <1>2
  <2>. QED
    BY <2>2, <2>3 DEF Ticked
<1>9. ASSUME NEW t \in S
      PROVE  /\ Fixed(s.tk[t]) = Fixed(svc.tk[t])
             /\ e[t].status \in InPool \cup {"REQUIRES_ACCEPTANCE"} => s.tk[t].status = "SEARCHING"
             /\ e[t].status \in Dead => s.tk[t].status = e[t].status
             /\ e[t].status \in InPool \cup {"REQUIRES_ACCEPTANCE"} \cup Dead
  <2>. DEFINE u == Released(svc, e, t)
  <2>1. /\ t \in Tickets /\ svc.tk[t] \in Ticket /\ svc.tk[t].status = "REQUIRES_ACCEPTANCE"
        /\ t \in svc.tickets
    BY <1>1, <1>2
  <2>2. e[t].status \in InPool \cup {"REQUIRES_ACCEPTANCE"} \cup Dead
    BY <1>6, <1>8, <2>1 DEF Statuses, Active, Terminal, InPool, Dead
  <2>3. /\ u \in Ticket /\ Fixed(u) = Fixed(svc.tk[t])
        /\ e[t].status \in InPool \cup {"REQUIRES_ACCEPTANCE"} => u.status = "SEARCHING"
        /\ e[t].status \in Dead => u.status = e[t].status
    <3>1. CASE e[t].status = "REQUIRES_ACCEPTANCE"
      <4>1. u = ReturnToSearching(svc.tk[t], "ACCEPTANCE_FAILED")
        BY <3>1 DEF Released
      <4>. QED
        BY <2>1, <3>1, <4>1, ReturnedTicket DEF Dead
    <3>2. CASE e[t].status # "REQUIRES_ACCEPTANCE"
      <4>1. u = transitionFromEngine(svc.tk[t], e[t].status)
        BY <3>2 DEF Released
      <4>. HIDE DEF u
      <4>. QED
        BY <2>1, <3>2, <4>1, ObservedTicket DEF Dead
    <3>. QED
      BY <3>1, <3>2
  <2>. HIDE DEF u
  <2>4. s.tk[t] = PullEvents(u)
    BY <1>5, <2>1 DEF u
  <2>. QED
    BY <2>2, <2>3, <2>4, PulledTicket
<1>10. \A t \in svc.tickets : t \notin S => s.tk[t] = svc.tk[t]
  BY <1>1, <1>5
<1>11. ASSUME NEW t \in svc.tickets, t \notin S, svc.tk[t].status = "REQUIRES_ACCEPTANCE"
       PROVE  e[t].status \in {"PLACING", "REQUIRES_ACCEPTANCE"}
  <2>. DEFINE m == svc.tk[t].matchID
  <2>1. t \in Tickets /\ m \in MatchIDs
    <3>1. t \in Tickets /\ svc.tk[t] \in Ticket
      BY <1>1, <1>11, ServiceFields
    <3>2. m # NoMatch
      BY <1>1, <1>11 DEF Tracker
    <3>. QED
      BY <3>1, <3>2 DEF Ticket
  <2>. HIDE DEF m
  <2>2. t \in svc.byMatch[m]
    BY <1>1, <1>11, <2>1 DEF Tracker, Waiting, m
  <2>3. m \notin gone
    BY <1>2, <1>7, <1>11, <2>2
  <2>4. svc.byMatch[m] \in matches \/ Reports(svc, after, m)
    BY <1>3, <2>1, <2>2, <2>3
  <2>5. CASE svc.byMatch[m] \in matches
    BY <2>1, <2>2, <2>5 DEF Ticked
  <2>6. CASE Reports(svc, after, m)
    BY <2>1, <2>2, <2>6 DEF Ticked, Reports
  <2>. QED
    BY <2>4, <2>5, <2>6
<1>12. ASSUME NEW t \in s.tickets PROVE Fate(s.tk[t].status, e[t].status)
  <2>1. t \in svc.tickets /\ t \in Tickets
    BY <1>1, <1>5
  <2>2. CASE t \in S
    BY <1>6, <1>9, <2>1, <2>2 DEF Fate, InPool, Dead
  <2>3. CASE t \notin S
    BY <1>6, <1>10, <1>11, <2>1, <2>3 DEF Fate, InPool, Dead
  <2>. QED
    BY <2>2, <2>3
<1>13. \A m \in MatchIDs : s.byMatch[m] = Waiting(s, m)
  <2>1. SUFFICES ASSUME NEW m \in MatchIDs PROVE s.byMatch[m] = Waiting(s, m)
    OBVIOUS
  <2>2. \A t \in S : s.tk[t].status # "REQUIRES_ACCEPTANCE"
    BY <1>9 DEF Dead, InPool
  <2>3. \A t : t \in Waiting(s, m) <=> t \in svc.byMatch[m] /\ t \notin S
    BY <1>1, <1>5, <1>10, <2>2 DEF Waiting, Tracker
  <2>4. CASE m \in gone
    <3>1. \A t \in svc.byMatch[m] : t \in S
      BY <1>1, <1>2, <1>7, <2>4 DEF Tracker, Waiting
    <3>2. s.byMatch[m] = {}
      BY <1>4, <2>4 DEF Forgets
    <3>. QED
      BY <2>3, <3>1, <3>2
  <2>5. CASE m \notin gone
    <3>1. ASSUME NEW t \in svc.byMatch[m], t \in S PROVE FALSE
      <4>1. PICK n \in gone : t \in svc.byMatch[n]
        BY <1>2, <3>1
      <4>2. n \in MatchIDs /\ t \in Waiting(svc, n) /\ t \in Waiting(svc, m)
        BY <1>1, <3>1, <4>1 DEF Tracker
      <4>. QED
        BY <2>5, <4>1, <4>2 DEF Waiting
    <3>2. s.byMatch[m] = svc.byMatch[m]
      BY <1>4, <2>5 DEF Forgets
    <3>. QED
      BY <2>3, <3>1, <3>2
  <2>. QED
    BY <2>4, <2>5
<1>14. \A m \in MatchIDs : s.byMatch[m] # {} =>
         m \notin gone /\ s.byMatch[m] = svc.byMatch[m] /\ s.createdAt[m] = svc.createdAt[m]
  BY <1>4 DEF Forgets
<1>15. Tracker(s, usedIDs)
  <2>1. Paired(s)
    BY <1>1, <1>4, <1>5, ForgetPaired DEF Tracker
  <2>2. \A t \in s.tickets : s.tk[t].status = "REQUIRES_ACCEPTANCE" => s.tk[t].matchID # NoMatch
    BY <1>1, <1>5, <1>9, <1>10 DEF Tracker, InPool, Dead
  <2>. QED
    BY <1>1, <1>13, <1>14, <2>1, <2>2 DEF Tracker
<1>16. \A m \in MatchIDs : s.byMatch[m] # {} => s.byMatch[m] \in matches \/ Reports(s, after, m)
  BY <1>3, <1>14 DEF Reports
<1>17. S \in SUBSET svc.active
  BY <1>1, <1>2 DEF Index, IsTerminal, Terminal
<1>18. Index(s) /\ Narrows(svc, s)
  <2>1. MovesOnly(svc, s, S)
    BY <1>5 DEF MovesOnly
  <2>. QED
    BY <1>1, <1>9, <1>17, <2>1, MovesKeepIndex
<1>19. Between(s, e, usedIDs)
  BY <1>5, <1>6, <1>12, <1>15, <1>18 DEF Between, Narrows
<1>. QED
  BY <1>16, <1>19 DEF s

\* The service marks every ticket of a match completed in the engine.
LEMMA MarkedEngine ==
  ASSUME IInv, NEW e, NEW matches, NEW left, NEW now, Ticked(e, matches, left, now)
  PROVE  LET f == MarkCompleted(e, svc.tickets \cap UNION matches)
         IN  /\ f \in [Tickets -> EngineTicket]
             /\ \A t \in Tickets :
                  /\ f[t].status = IF e[t].status = "PLACING" THEN "COMPLETED" ELSE e[t].status
                  /\ f[t].accepted = e[t].accepted
                  /\ e[t].status # "PLACING" => f[t] = e[t]
<1>. DEFINE f == MarkCompleted(e, svc.tickets \cap UNION matches)
<1>1. "COMPLETED" \in Statuses
  BY DEF Statuses, Terminal
<1>2. ASSUME NEW t \in Tickets
      PROVE  /\ f[t] \in EngineTicket
             /\ f[t].status = IF e[t].status = "PLACING" THEN "COMPLETED" ELSE e[t].status
             /\ f[t].accepted = e[t].accepted
             /\ e[t].status # "PLACING" => f[t] = e[t]
  <2>1. e[t] \in EngineTicket /\ (e[t].status = "PLACING" <=> t \in UNION matches)
    BY DEF Ticked
  <2>2. e[t].status = "PLACING" => t \in svc.tickets
    BY TickFinds DEF Unknown
  <2>3. f[t] = IF e[t].status = "PLACING" THEN [e[t] EXCEPT !.status = "COMPLETED"] ELSE e[t]
    BY <2>1, <2>2 DEF MarkCompleted
  <2>. HIDE DEF f
  <2>. QED
    BY <1>1, <2>1, <2>3 DEF EngineTicket
<1>3. f = [t \in Tickets |-> f[t]]
  BY DEF MarkCompleted
<1>. HIDE DEF f
<1>4. f \in [Tickets -> EngineTicket]
  BY <1>2, <1>3
<1>. QED
  BY <1>2, <1>4 DEF f

\* finalizeMatches completes every ticket of a match; what the tracker follows
\* then is reported by the engine.
LEMMA TickFinalizes ==
  ASSUME IInv, NEW e, NEW matches, NEW left, NEW now, Ticked(e, matches, left, now),
         NEW after \in SUBSET left, NEW s, Between(s, e, usedIDs),
         \A m \in MatchIDs : s.byMatch[m] # {} => s.byMatch[m] \in matches \/ Reports(s, after, m),
         NEW D, NEW fresh, Names(fresh, D, s),
         \A r \in matches : s.matchIDs[r] = NoMatch => r \in D
  PROVE  LET u == finalizeMatches(s, matches, fresh)
         IN  /\ Between(u, MarkCompleted(e, svc.tickets \cap UNION matches), usedIDs)
             /\ \A m \in MatchIDs : u.byMatch[m] # {} => u.byMatch[m] = s.byMatch[m] /\ Reports(u, after, m)
             /\ \A r \in Rosters \ matches : u.matchIDs[r] = s.matchIDs[r]
             /\ ~Refused(s, matches, "PLACING")
<1>. DEFINE u == finalizeMatches(s, matches, fresh)
            S == s.tickets \cap UNION matches
            Placed(t) == placing(s.tk[t], MatchOf(s, fresh, RosterOf(t, matches)))[3]
            f == MarkCompleted(e, svc.tickets \cap UNION matches)
<1>1. /\ s \in Service /\ s.tickets = svc.tickets /\ Index(s) /\ Tracker(s, usedIDs) /\ Paired(s)
      /\ s.tickets \subseteq Tickets
      /\ \A t \in s.tickets : Fate(s.tk[t].status, e[t].status)
  BY ServiceFields DEF Between, Tracker
<1>2. matches \in SUBSET Rosters /\ \A t \in Tickets : e[t].status = "PLACING" <=> t \in UNION matches
  BY DEF Ticked
<1>3. /\ Moves(s, u, S, Placed)
      /\ \A t \in S : MatchOf(s, fresh, RosterOf(t, matches)) \in MatchIDs
      /\ Drops(s, u, matches)
  BY <1>1, <1>2, FinalizeEffect
<1>. HIDE DEF u
<1>4. /\ u \in Service /\ u.tickets = s.tickets
      /\ \A t \in Tickets : u.tk[t] = IF t \in S THEN Placed(t) ELSE s.tk[t]
      /\ u.active = (s.active \ S) \cup {t \in S : ~IsTerminal(u.tk[t].status)}
  BY <1>3 DEF Moves
<1>5. ASSUME NEW t \in S
      PROVE  /\ t \in Tickets /\ s.tk[t].status \in InPool \cup {"REQUIRES_ACCEPTANCE"}
             /\ u.tk[t].status = "COMPLETED" /\ Fixed(u.tk[t]) = Fixed(s.tk[t])
             /\ e[t].status = "PLACING"
  <2>1. t \in Tickets /\ s.tk[t] \in Ticket
    BY <1>1, ServiceFields
  <2>2. e[t].status = "PLACING" /\ s.tk[t].status \in InPool \cup {"REQUIRES_ACCEPTANCE"}
    BY <1>1, <1>2, <2>1 DEF Fate
  <2>3. u.tk[t] = Placed(t)
    BY <1>4, <2>1
  <2>. HIDE DEF S
  <2>. DEFINE m == MatchOf(s, fresh, RosterOf(t, matches))
  <2>4. m \in MatchIDs
    BY <1>3
  <2>. HIDE DEF m
  <2>5. u.tk[t].status = "COMPLETED" /\ Fixed(u.tk[t]) = Fixed(s.tk[t])
    BY <2>1, <2>2, <2>3, <2>4, PlacedTicket DEF InPool, m
  <2>. QED
    BY <2>1, <2>2, <2>5
<1>6. /\ \A t \in Tickets \ S : u.tk[t] = s.tk[t]
      /\ \A t \in s.tickets : t \notin S => u.tk[t] = s.tk[t] /\ e[t].status # "PLACING"
  BY <1>1, <1>2, <1>4
<1>7. ~Refused(s, matches, "PLACING")
  <2>1. \A t \in S : canTransitionTo(s.tk[t].status, "PLACING")
    BY <1>5 DEF canTransitionTo, allowedTransitions, InPool
  <2>. QED
    BY <2>1 DEF Refused
<1>8. S \in SUBSET s.active
  BY <1>1, <1>5 DEF Index, IsTerminal, Terminal, InPool
<1>. HIDE DEF Placed
<1>9. Index(u) /\ Narrows(s, u)
  <2>1. MovesOnly(s, u, S)
    BY <1>4, <1>6 DEF MovesOnly
  <2>. HIDE DEF S
  <2>. QED
    BY <1>1, <1>5, <1>8, <2>1, MovesKeepIndex
<1>10. \A m \in MatchIDs : s.byMatch[m] # {} /\ s.byMatch[m] \notin matches =>
         Reports(s, after, m) /\ \A t \in s.byMatch[m] : t \notin S
  <2>1. SUFFICES ASSUME NEW m \in MatchIDs, s.byMatch[m] # {}, s.byMatch[m] \notin matches,
                        NEW t \in s.byMatch[m]
                 PROVE  Reports(s, after, m) /\ t \notin S
    OBVIOUS
  <2>2. Reports(s, after, m)
    BY <2>1
  <2>3. t \in Tickets /\ e[t].status = "REQUIRES_ACCEPTANCE"
    <3>1. t \in Tickets
      BY <1>1, <2>1, ServiceFields
    <3>2. \E p \in left : t \in p.ids
      BY <2>1, <2>2 DEF Reports
    <3>. QED
      BY <3>1, <3>2 DEF Ticked
  <2>. QED
    BY <1>2, <2>2, <2>3
<1>11. \A m \in MatchIDs : u.byMatch[m] # {} =>
         /\ u.byMatch[m] = s.byMatch[m] /\ u.createdAt[m] = s.createdAt[m]
         /\ s.byMatch[m] # {} /\ s.byMatch[m] \notin matches
  BY <1>3 DEF Drops
<1>12. \A m \in MatchIDs : u.byMatch[m] # {} => Reports(u, after, m)
  BY <1>10, <1>11 DEF Reports
<1>13. \A m \in MatchIDs : u.byMatch[m] = Waiting(u, m)
  <2>1. SUFFICES ASSUME NEW m \in MatchIDs PROVE u.byMatch[m] = Waiting(u, m)
    OBVIOUS
  <2>2. \A t : t \in Waiting(u, m) <=> t \in s.byMatch[m] /\ t \notin S
    BY <1>1, <1>4, <1>5, <1>6 DEF Waiting, Tracker
  <2>3. CASE s.byMatch[m] \in matches
    <3>1. \A t \in s.byMatch[m] : t \in S
      BY <1>1, <2>3 DEF Tracker, Waiting
    <3>2. u.byMatch[m] = {}
      BY <1>3, <2>3 DEF Drops
    <3>. QED
      BY <2>2, <3>1, <3>2
  <2>4. CASE s.byMatch[m] \notin matches
    <3>1. \A t \in s.byMatch[m] : t \notin S
      BY <1>10, <2>4
    <3>2. u.byMatch[m] = s.byMatch[m]
      BY <1>3, <2>4 DEF Drops
    <3>. QED
      BY <2>2, <3>1, <3>2
  <2>. QED
    BY <2>3, <2>4
<1>14. Paired(u)
  <2>1. \A m \in MatchIDs : u.byMatch[m] # {} =>
          u.byMatch[m] \in Rosters /\ u.matchIDs[u.byMatch[m]] = m
    BY <1>1, <1>3, <1>11 DEF Paired, Drops
  <2>2. ASSUME NEW r \in Rosters, u.matchIDs[r] # NoMatch PROVE u.byMatch[u.matchIDs[r]] = r
    <3>1. r \notin matches /\ u.matchIDs[r] = s.matchIDs[r]
      BY <1>3, <2>2 DEF Drops
    <3>2. s.matchIDs[r] \in MatchIDs /\ s.byMatch[s.matchIDs[r]] = r
      BY <1>1, <2>2, <3>1, ServiceFields DEF Paired
    <3>. QED
      BY <1>3, <3>1, <3>2 DEF Drops
  <2>. QED
    BY <2>1, <2>2 DEF Paired
<1>15. Tracker(u, usedIDs)
  <2>1. \A t \in u.tickets : u.tk[t].status = "REQUIRES_ACCEPTANCE" => u.tk[t].matchID # NoMatch
    BY <1>1, <1>4, <1>5, <1>6 DEF Tracker
  <2>. QED
    BY <1>1, <1>11, <1>13, <1>14, <2>1 DEF Tracker
<1>16. \A t \in Tickets :
         f[t].status = IF e[t].status = "PLACING" THEN "COMPLETED" ELSE e[t].status
  BY MarkedEngine
<1>. HIDE DEF f
<1>17. ASSUME NEW t \in u.tickets PROVE Fate(u.tk[t].status, f[t].status)
  <2>1. t \in s.tickets /\ t \in Tickets /\ Fate(s.tk[t].status, e[t].status)
    BY <1>1, <1>4
  <2>2. CASE t \in S
    BY <1>5, <1>16, <2>1, <2>2 DEF Fate, InPool, Dead, Statuses, Terminal
  <2>3. CASE t \notin S
    BY <1>6, <1>16, <2>1, <2>3
  <2>. QED
    BY <2>2, <2>3
<1>18. \A t \in Tickets \ u.tickets : f[t].status = Unknown
  BY <1>4, <1>16 DEF Between, Unknown
<1>19. Between(u, f, usedIDs)
  BY <1>1, <1>4, <1>9, <1>15, <1>17, <1>18 DEF Between, Narrows
<1>20. \A r \in Rosters \ matches : u.matchIDs[r] = s.matchIDs[r]
  BY <1>3 DEF Drops
<1>. QED
  BY <1>7, <1>11, <1>12, <1>19, <1>20 DEF u, f

\* The proposals the engine reports that have no match yet, and the others.
Newcomers(s, after) ==
  LET new == NewProposals(s, after)
  IN  /\ \A p \in after :
           \/ p.ids \in new /\ s.matchIDs[p.ids] = NoMatch
           \/ /\ p.ids \notin new /\ s.matchIDs[p.ids] \in MatchIDs
              /\ s.createdAt[s.matchIDs[p.ids]] = p.createdAt
      /\ \A r \in new :
           /\ r \in Rosters /\ r \subseteq s.tickets /\ s.matchIDs[r] = NoMatch
           /\ \E p \in after : p.ids = r /\ CreatedAt(r, after) = p.createdAt
           /\ \A t \in r : s.tk[t].status \in InPool /\ \A q \in new : t \in q => q = r

\* The service has the tickets of a new proposal in the pool.
LEMMA NewOnes ==
  ASSUME IInv, NEW e, NEW matches, NEW left, NEW now, Ticked(e, matches, left, now),
         NEW f, \A t \in Tickets : e[t].status = "REQUIRES_ACCEPTANCE" => f[t].status = e[t].status,
         NEW after \in SUBSET left, NEW s, Between(s, f, usedIDs),
         \A m \in MatchIDs : s.byMatch[m] # {} => Reports(s, after, m)
  PROVE  Newcomers(s, after)
<1>. DEFINE new == NewProposals(s, after)
<1>1. /\ s \in Service /\ s.tickets = svc.tickets /\ Tracker(s, usedIDs) /\ Paired(s)
      /\ \A t \in s.tickets : Fate(s.tk[t].status, f[t].status)
      /\ \A t \in Tickets \ s.tickets : f[t].status = Unknown
  BY DEF Between, Tracker
<1>2. /\ \A p \in after : p \in Proposal /\ p.ids \in Rosters
      /\ \A p, q \in after : p.ids \cap q.ids # {} => p = q
      /\ \A t \in Tickets : \A p \in after : t \in p.ids => e[t].status = "REQUIRES_ACCEPTANCE"
  BY DEF Ticked
<1>3. \A r \in Rosters : r # {} /\ r \subseteq Tickets
  BY FlexiConstants DEF FlexiConstants
<1>4. \A p, q \in after : p.ids = q.ids => p = q
  BY <1>2, <1>3
<1>5. ASSUME NEW p \in after, s.matchIDs[p.ids] # NoMatch
      PROVE  /\ s.matchIDs[p.ids] \in MatchIDs /\ s.byMatch[s.matchIDs[p.ids]] = p.ids
             /\ s.createdAt[s.matchIDs[p.ids]] = p.createdAt
  <2>. DEFINE m == s.matchIDs[p.ids]
  <2>1. m \in MatchIDs /\ s.byMatch[m] = p.ids
    BY <1>1, <1>2, <1>5, ServiceFields DEF Paired
  <2>. HIDE DEF m
  <2>2. Reports(s, after, m)
    BY <1>2, <1>3, <2>1
  <2>3. PICK q \in after : q.ids = s.byMatch[m] /\ q.createdAt = s.createdAt[m]
    BY <2>2 DEF Reports
  <2>4. q = p
    BY <1>4, <2>1, <2>3
  <2>. QED
    BY <2>1, <2>3, <2>4 DEF m
<1>6. \A r : r \in new <=> \E p \in after : p.ids = r /\ s.matchIDs[r] = NoMatch
  <2>1. \A r : r \in new <=> \E p \in after :
          /\ p.ids = r
          /\ \/ s.matchIDs[p.ids] = NoMatch
             \/ s.createdAt[s.matchIDs[p.ids]] # p.createdAt
    BY DEF NewProposals
  <2>. QED
    BY <1>5, <2>1
<1>. HIDE DEF new
<1>7. ASSUME NEW p \in after, p.ids \in new, NEW t \in p.ids
      PROVE  t \in s.tickets /\ s.tk[t].status \in InPool
  <2>1. t \in Tickets /\ f[t].status = "REQUIRES_ACCEPTANCE"
    BY <1>2, <1>3, <1>7
  <2>2. t \in s.tickets /\ s.tk[t].status \in InPool \cup {"REQUIRES_ACCEPTANCE"}
    BY <1>1, <2>1 DEF Fate, Unknown
  <2>3. ASSUME s.tk[t].status = "REQUIRES_ACCEPTANCE" PROVE FALSE
    <3>. DEFINE m == s.tk[t].matchID
    <3>1. m # NoMatch /\ s.tk[t] \in Ticket
      BY <1>1, <2>1, <2>2, <2>3, ServiceFields DEF Tracker
    <3>2. m \in MatchIDs
      BY <3>1 DEF Ticket
    <3>3. t \in s.byMatch[m]
      BY <1>1, <2>2, <2>3, <3>2 DEF Tracker, Waiting
    <3>. HIDE DEF m
    <3>4. PICK q \in after : q.ids = s.byMatch[m]
      BY <3>2, <3>3 DEF Reports
    <3>5. q = p
      BY <1>2, <1>7, <3>3, <3>4
    <3>6. s.matchIDs[p.ids] = m
      BY <1>1, <3>2, <3>3, <3>4, <3>5 DEF Paired
    <3>7. s.matchIDs[p.ids] = NoMatch
      BY <1>6, <1>7
    <3>. QED
      BY <3>2, <3>6, <3>7, TicketConstants DEF TicketConstants
  <2>. QED
    BY <2>2, <2>3
<1>8. ASSUME NEW p \in after PROVE CreatedAt(p.ids, after) = p.createdAt
  BY <1>4 DEF CreatedAt
<1>9. ASSUME NEW r \in new
      PROVE  /\ r \in Rosters /\ r \subseteq s.tickets /\ s.matchIDs[r] = NoMatch
             /\ \E p \in after : p.ids = r /\ CreatedAt(r, after) = p.createdAt
             /\ \A t \in r : s.tk[t].status \in InPool /\ \A q \in new : t \in q => q = r
  <2>1. PICK p \in after : p.ids = r /\ s.matchIDs[r] = NoMatch
    BY <1>6
  <2>2. \A t \in r : \A q \in new : t \in q => q = r
    BY <1>2, <1>6, <2>1
  <2>. QED
    BY <1>2, <1>7, <1>8, <2>1, <2>2
<1>10. ASSUME NEW p \in after
       PROVE  \/ p.ids \in new /\ s.matchIDs[p.ids] = NoMatch
              \/ /\ p.ids \notin new /\ s.matchIDs[p.ids] \in MatchIDs
                 /\ s.createdAt[s.matchIDs[p.ids]] = p.createdAt
  BY <1>5, <1>6
<1>. QED
  BY <1>9, <1>10 DEF new, Newcomers

\* What the tick has established when it takes the engine's new proposals in, and what it has after.
ReadyToPropose(e, matches, left, now, f, after, s, D, fresh, used) ==
  /\ Ticked(e, matches, left, now) /\ now \in Times
  /\ \A t \in Tickets : e[t].status = "REQUIRES_ACCEPTANCE" => f[t].status = e[t].status
  /\ after \in SUBSET left /\ Between(s, f, usedIDs)
  /\ \A m \in MatchIDs : s.byMatch[m] # {} => Reports(s, after, m)
  /\ Names(fresh, D, s) /\ \A r \in D : fresh[r] \notin usedIDs
  /\ NewProposals(s, after) \subseteq D
  /\ used = usedIDs \cup {fresh[r] : r \in D}
Proposes(s, u, f, after, used) ==
  /\ Between(u, f, used)
  /\ \A m \in MatchIDs : u.byMatch[m] # {} => Reports(u, after, m)
  /\ \A p \in after : /\ u.matchIDs[p.ids] \in MatchIDs
                      /\ u.createdAt[u.matchIDs[p.ids]] = p.createdAt
  /\ ~Refused(s, NewProposals(s, after), "REQUIRES_ACCEPTANCE")

\* applyNewProposals brings the tracker up to date with the engine.
LEMMA TickProposes ==
  ASSUME IInv, NEW e, NEW matches, NEW left, NEW now, NEW f, NEW after, NEW s, NEW D, NEW fresh, NEW used,
         ReadyToPropose(e, matches, left, now, f, after, s, D, fresh, used)
  PROVE  Proposes(s, applyNewProposals(s, after, fresh), f, after, used)
<1>0. /\ Ticked(e, matches, left, now) /\ now \in Times
      /\ \A t \in Tickets : e[t].status = "REQUIRES_ACCEPTANCE" => f[t].status = e[t].status
      /\ after \in SUBSET left /\ Between(s, f, usedIDs)
      /\ \A m \in MatchIDs : s.byMatch[m] # {} => Reports(s, after, m)
      /\ Names(fresh, D, s) /\ \A r \in D : fresh[r] \notin usedIDs
      /\ NewProposals(s, after) \subseteq D
      /\ used = usedIDs \cup {fresh[r] : r \in D}
  BY DEF ReadyToPropose
<1>. USE <1>0
<1>. DEFINE new == NewProposals(s, after)
            u == applyNewProposals(s, after, fresh)
            S == s.tickets \cap UNION new
            Entered(t) == proposing(s.tk[t], fresh[RosterOf(t, new)])[2]
<1>1. /\ s \in Service /\ s.tickets = svc.tickets /\ Index(s) /\ Tracker(s, usedIDs) /\ Paired(s)
      /\ s.tickets \subseteq Tickets
      /\ \A t \in s.tickets : Fate(s.tk[t].status, f[t].status)
  BY ServiceFields DEF Between, Tracker
<1>2. /\ after \in SUBSET Proposal /\ \A p \in after : p.ids \in Rosters
      /\ \A t \in Tickets : \A p \in after : t \in p.ids => e[t].status = "REQUIRES_ACCEPTANCE"
      /\ after # {} => AcceptanceRequired
  BY DEF Ticked
<1>3. /\ \A p \in after :
           \/ p.ids \in new /\ s.matchIDs[p.ids] = NoMatch
           \/ /\ p.ids \notin new /\ s.matchIDs[p.ids] \in MatchIDs
              /\ s.createdAt[s.matchIDs[p.ids]] = p.createdAt
      /\ \A r \in new :
           /\ r \in Rosters /\ r \subseteq s.tickets /\ s.matchIDs[r] = NoMatch
           /\ \E p \in after : p.ids = r /\ CreatedAt(r, after) = p.createdAt
           /\ \A t \in r : s.tk[t].status \in InPool /\ \A q \in new : t \in q => q = r
  <2>1. Newcomers(s, after)
    BY NewOnes
  <2>. QED
    BY <2>1 DEF Newcomers
<1>4. /\ Moves(s, u, S, Entered) /\ Assigns(s, u, new, fresh)
      /\ \A r \in new : u.createdAt[fresh[r]] = CreatedAt(r, after)
  <2>1. /\ s \in Service /\ Paired(s) /\ Names(fresh, D, s) /\ NewProposals(s, after) \subseteq D
        /\ after \in SUBSET Proposal /\ \A p \in after : p.ids \in Rosters
    BY <1>1, <1>2
  <2>. QED
    BY <2>1, ProposeEffect DEF Moves
<1>5. /\ fresh \in [D -> MatchIDs] /\ \A r1, r2 \in D : fresh[r1] = fresh[r2] => r1 = r2
      /\ \A r \in D : fresh[r] \in MatchIDs /\ s.byMatch[fresh[r]] = {}
      /\ new \subseteq D
  BY DEF Names
<1>6. \A r \in Rosters : r # {}
  BY FlexiConstants DEF FlexiConstants
<1>. HIDE DEF u, new
<1>7. /\ u \in Service /\ u.tickets = s.tickets
      /\ \A t \in Tickets : u.tk[t] = IF t \in S THEN Entered(t) ELSE s.tk[t]
      /\ u.active = (s.active \ S) \cup {t \in S : ~IsTerminal(u.tk[t].status)}
  BY <1>4 DEF Moves
<1>8. ASSUME NEW r \in new, NEW t \in r
      PROVE  /\ t \in S /\ t \in Tickets /\ s.tk[t].status \in InPool
             /\ u.tk[t].status = "REQUIRES_ACCEPTANCE" /\ u.tk[t].matchID = fresh[r]
             /\ Fixed(u.tk[t]) = Fixed(s.tk[t])
             /\ f[t].status = "REQUIRES_ACCEPTANCE"
  <2>1. t \in S /\ t \in Tickets /\ s.tk[t].status \in InPool /\ s.tk[t] \in Ticket
    BY <1>1, <1>3, <1>8, ServiceFields
  <2>2. RosterOf(t, new) = r
    <3>1. RosterOf(t, new) \in new /\ t \in RosterOf(t, new)
      BY <1>8, RosterOfTicket
    <3>. QED
      BY <1>3, <1>8, <3>1
  <2>3. f[t].status = "REQUIRES_ACCEPTANCE"
    <3>1. \E p \in after : p.ids = r
      BY <1>3, <1>8
    <3>2. e[t].status = "REQUIRES_ACCEPTANCE"
      BY <1>2, <1>8, <2>1, <3>1
    <3>. QED
      BY <2>1, <3>2
  <2>. DEFINE m == fresh[r]
  <2>4. u.tk[t] = proposing(s.tk[t], m)[2]
    BY <1>7, <2>1, <2>2
  <2>5. m \in MatchIDs
    BY <1>5, <1>8
  <2>. HIDE DEF m
  <2>6. /\ u.tk[t].status = "REQUIRES_ACCEPTANCE" /\ u.tk[t].matchID = m
        /\ Fixed(u.tk[t]) = Fixed(s.tk[t])
    BY <2>1, <2>4, <2>5, ProposedTicket
  <2>. QED
    BY <2>1, <2>3, <2>6 DEF m
<1>9. \A t \in S : \E r \in new : t \in r
  OBVIOUS
<1>10. /\ \A t \in Tickets \ S : u.tk[t] = s.tk[t]
       /\ \A t \in s.tickets : t \notin S => u.tk[t] = s.tk[t]
  BY <1>1, <1>7
<1>11. ~Refused(s, new, "REQUIRES_ACCEPTANCE")
  <2>1. \A t \in S : canTransitionTo(s.tk[t].status, "REQUIRES_ACCEPTANCE")
    BY <1>8, <1>9 DEF canTransitionTo, allowedTransitions, InPool
  <2>. QED
    BY <2>1 DEF Refused
<1>. HIDE DEF Entered
<1>12. S \in SUBSET s.active
  BY <1>1, <1>8, <1>9 DEF Index, IsTerminal, Terminal, InPool
<1>13. \A t \in S : Fixed(u.tk[t]) = Fixed(s.tk[t]) /\ t \in s.tickets
  BY <1>8, <1>9
<1>14. \A r \in new : \A t \in r : t \in S
  BY <1>8
<1>. HIDE DEF S
<1>15. Index(u) /\ Narrows(s, u)
  <2>1. MovesOnly(s, u, S)
    BY <1>7, <1>10 DEF MovesOnly
  <2>. QED
    BY <1>1, <1>12, <1>13, <2>1, MovesKeepIndex
<1>16. \A m \in MatchIDs : (\A r \in new : fresh[r] # m) =>
         u.byMatch[m] = s.byMatch[m] /\ u.createdAt[m] = s.createdAt[m]
  BY <1>4 DEF Assigns
<1>17. \A r \in new : /\ fresh[r] \in MatchIDs /\ fresh[r] \notin usedIDs
                      /\ s.byMatch[fresh[r]] = {} /\ u.byMatch[fresh[r]] = r
                      /\ u.matchIDs[r] = fresh[r] /\ r \in Rosters
  BY <1>3, <1>4, <1>5 DEF Assigns
<1>18. ASSUME NEW m \in MatchIDs PROVE u.byMatch[m] = Waiting(u, m)
  <2>1. s.byMatch[m] = Waiting(s, m)
    BY <1>1 DEF Tracker
  <2>2. CASE \E r \in new : fresh[r] = m
    <3>1. PICK r \in new : fresh[r] = m
      BY <2>2
    <3>2. \A t \in r : t \in Waiting(u, m)
      BY <1>3, <1>7, <1>8, <3>1 DEF Waiting
    <3>3. ASSUME NEW t \in Waiting(u, m), t \notin r PROVE FALSE
      <4>1. t \in s.tickets /\ u.tk[t].matchID = m /\ u.tk[t].status = "REQUIRES_ACCEPTANCE"
        BY <1>7, <3>3 DEF Waiting
      <4>2. CASE t \in S
        <5>1. PICK q \in new : t \in q
          BY <1>9, <4>2
        <5>2. fresh[q] = fresh[r]
          BY <1>8, <3>1, <4>1, <5>1
        <5>. QED
          BY <1>5, <3>1, <3>3, <5>1, <5>2
      <4>3. CASE t \notin S
        BY <1>10, <1>17, <2>1, <3>1, <4>1, <4>3 DEF Waiting
      <4>. QED
        BY <4>2, <4>3
    <3>4. Waiting(u, m) = r
      BY <3>2, <3>3
    <3>. QED
      BY <1>17, <3>1, <3>4
  <2>3. CASE ~\E r \in new : fresh[r] = m
    <3>1. \A t \in S : u.tk[t].matchID # m /\ s.tk[t].status # "REQUIRES_ACCEPTANCE"
      BY <1>8, <1>9, <2>3 DEF InPool
    <3>2. Waiting(u, m) = Waiting(s, m)
      BY <1>7, <1>10, <3>1 DEF Waiting
    <3>. QED
      BY <1>16, <2>1, <2>3, <3>2
  <2>. QED
    BY <2>2, <2>3
<1>19. Paired(u)
  <2>1. ASSUME NEW m \in MatchIDs, u.byMatch[m] # {}
        PROVE  u.byMatch[m] \in Rosters /\ u.matchIDs[u.byMatch[m]] = m
    <3>1. CASE \E r \in new : fresh[r] = m
      BY <1>17, <3>1
    <3>2. CASE ~\E r \in new : fresh[r] = m
      <4>1. s.byMatch[m] = u.byMatch[m] /\ s.byMatch[m] \in Rosters /\ s.matchIDs[s.byMatch[m]] = m
        BY <1>1, <1>16, <2>1, <3>2 DEF Paired
      <4>2. s.byMatch[m] \notin new
        BY <1>3, <4>1, TicketConstants DEF TicketConstants
      <4>. QED
        BY <1>4, <4>1, <4>2 DEF Assigns
    <3>. QED
      BY <3>1, <3>2
  <2>2. ASSUME NEW r \in Rosters, u.matchIDs[r] # NoMatch PROVE u.byMatch[u.matchIDs[r]] = r
    <3>1. CASE r \in new
      BY <1>17, <3>1
    <3>2. CASE r \notin new
      <4>. DEFINE m == s.matchIDs[r]
      <4>1. u.matchIDs[r] = m
        BY <1>4, <3>2 DEF Assigns
      <4>2. m \in MatchIDs /\ s.byMatch[m] = r
        BY <1>1, <2>2, <4>1, ServiceFields DEF Paired
      <4>3. \A q \in new : fresh[q] # m
        BY <1>6, <1>17, <4>2
      <4>. QED
        BY <1>16, <4>1, <4>2, <4>3
    <3>. QED
      BY <3>1, <3>2
  <2>. QED
    BY <2>1, <2>2 DEF Paired
<1>20. ASSUME NEW m \in MatchIDs, u.byMatch[m] # {}
       PROVE  Reports(u, after, m) /\ u.createdAt[m] # NoTime /\ m \in used /\ AcceptanceRequired
  <2>1. CASE \E r \in new : fresh[r] = m
    <3>1. PICK r \in new : fresh[r] = m
      BY <2>1
    <3>2. PICK p \in after : p.ids = r /\ CreatedAt(r, after) = p.createdAt
      BY <1>3, <3>1
    <3>3. u.byMatch[m] = p.ids /\ u.createdAt[m] = p.createdAt
      BY <1>4, <1>17, <3>1, <3>2
    <3>4. p.createdAt \in Times
      BY <1>2, <3>2 DEF Proposal
    <3>5. m \in used
      BY <1>5, <3>1
    <3>. QED
      BY <1>2, <3>2, <3>3, <3>4, <3>5, MatchmakingConstants DEF Reports, MatchmakingConstants
  <2>2. CASE ~\E r \in new : fresh[r] = m
    <3>1. u.byMatch[m] = s.byMatch[m] /\ u.createdAt[m] = s.createdAt[m]
      BY <1>16, <2>2
    <3>2. Reports(s, after, m) /\ s.createdAt[m] # NoTime /\ m \in usedIDs /\ AcceptanceRequired
      BY <1>1, <1>20, <3>1 DEF Tracker
    <3>. QED
      BY <3>1, <3>2 DEF Reports
  <2>. QED
    BY <2>1, <2>2
<1>21. Tracker(u, used)
  <2>1. ASSUME NEW t \in u.tickets, u.tk[t].status = "REQUIRES_ACCEPTANCE"
        PROVE  u.tk[t].matchID # NoMatch
    <3>1. CASE t \in S
      BY <1>8, <1>9, <1>17, <3>1, TicketConstants DEF TicketConstants
    <3>2. CASE t \notin S
      BY <1>1, <1>7, <1>10, <2>1, <3>2 DEF Tracker
    <3>. QED
      BY <3>1, <3>2
  <2>. QED
    BY <1>18, <1>19, <1>20, <2>1 DEF Tracker
<1>22. ASSUME NEW t \in u.tickets PROVE Fate(u.tk[t].status, f[t].status)
  <2>1. t \in s.tickets /\ Fate(s.tk[t].status, f[t].status)
    BY <1>1, <1>7
  <2>2. CASE t \in S
    BY <1>8, <1>9, <2>2 DEF Fate, InPool, Dead, Statuses, Active
  <2>3. CASE t \notin S
    BY <1>10, <2>1, <2>3
  <2>. QED
    BY <2>2, <2>3
<1>23. Between(u, f, used)
  BY <1>1, <1>7, <1>15, <1>21, <1>22 DEF Between, Narrows
<1>24. ASSUME NEW p \in after
       PROVE  u.matchIDs[p.ids] \in MatchIDs /\ u.createdAt[u.matchIDs[p.ids]] = p.createdAt
  <2>1. CASE p.ids \in new
    <3>1. u.matchIDs[p.ids] = fresh[p.ids] /\ fresh[p.ids] \in MatchIDs
      BY <1>17, <2>1
    <3>2. PICK q \in after : q.ids = p.ids /\ CreatedAt(p.ids, after) = q.createdAt
      BY <1>3, <2>1
    <3>3. q = p
      BY <1>2, <1>6, <3>2 DEF Ticked
    <3>. QED
      BY <1>4, <2>1, <3>1, <3>2, <3>3
  <2>2. CASE p.ids \notin new
    <3>. DEFINE m == s.matchIDs[p.ids]
    <3>1. m \in MatchIDs /\ s.createdAt[m] = p.createdAt
      BY <1>3, <2>2
    <3>2. u.matchIDs[p.ids] = m
      BY <1>2, <1>4, <2>2 DEF Assigns
    <3>3. s.byMatch[m] = p.ids
      BY <1>1, <1>2, <3>1, TicketConstants DEF Paired, TicketConstants
    <3>4. \A q \in new : fresh[q] # m
      BY <1>2, <1>6, <1>17, <3>3
    <3>. QED
      BY <1>16, <3>1, <3>2, <3>4
  <2>. QED
    BY <2>1, <2>2
<1>. QED
  BY <1>11, <1>20, <1>23, <1>24 DEF u, new, Proposes

\* What the service shows of a ticket, at the end of a tick.
Agreed(x, y) == /\ y \in Statuses \ {"PLACING", "FAILED"}
                /\ y = "REQUIRES_ACCEPTANCE" => x \in InPool \cup {y}
                /\ y \in InPool => x \in InPool
                /\ IsTerminal(y) => x = y

\* A ticket that is behind the engine waits for no match.
LEMMA BehindInPool ==
  ASSUME IInv, NEW after, NEW f, NEW used, NEW s, Between(s, f, used),
         \A t \in Tickets : f[t].status # "PLACING",
         \A t \in Tickets : \A p \in after : t \in p.ids => f[t].status = "REQUIRES_ACCEPTANCE",
         \A m \in MatchIDs : s.byMatch[m] # {} => Reports(s, after, m)
  PROVE  /\ \A t \in s.tickets : s.tk[t].status = "REQUIRES_ACCEPTANCE" =>
              f[t].status = "REQUIRES_ACCEPTANCE" /\ \E p \in after : t \in p.ids
         /\ Behind(s, f) \in SUBSET s.active /\ \A t \in s.tickets : f[t].status # Unknown
         /\ \A t \in Behind(s, f) :
              /\ s.tk[t].status \in InPool /\ t \in s.tickets /\ t \in Tickets
              /\ f[t].status \in InPool \cup Dead \cup {"REQUIRES_ACCEPTANCE"}
<1>. DEFINE S == Behind(s, f)
<1>1. /\ s \in Service /\ s.tickets = svc.tickets /\ Index(s) /\ Tracker(s, used)
      /\ s.tickets \subseteq Tickets /\ s.active \subseteq s.tickets
      /\ \A t \in s.tickets : Fate(s.tk[t].status, f[t].status)
  BY ServiceFields DEF Between, Index
<1>2. ASSUME NEW t \in s.tickets, s.tk[t].status = "REQUIRES_ACCEPTANCE"
      PROVE  f[t].status = "REQUIRES_ACCEPTANCE" /\ \E p \in after : t \in p.ids
  <2>. DEFINE m == s.tk[t].matchID
  <2>1. t \in Tickets /\ s.tk[t] \in Ticket
    BY <1>1, ServiceFields
  <2>2. m # NoMatch
    BY <1>1, <1>2 DEF Tracker
  <2>3. m \in MatchIDs
    BY <2>1, <2>2 DEF Ticket
  <2>4. t \in s.byMatch[m]
    BY <1>1, <1>2, <2>3 DEF Tracker, Waiting
  <2>. HIDE DEF m
  <2>5. PICK p \in after : p.ids = s.byMatch[m]
    BY <2>3, <2>4 DEF Reports
  <2>. QED
    BY <2>1, <2>4, <2>5
<1>3. S \in SUBSET s.active /\ \A t \in s.tickets : f[t].status # Unknown
  BY <1>1 DEF Behind, Fate, Statuses, Active, Terminal, Unknown
<1>4. ASSUME NEW t \in S
      PROVE  /\ s.tk[t].status \in InPool /\ t \in s.tickets /\ t \in Tickets
             /\ f[t].status \in InPool \cup Dead \cup {"REQUIRES_ACCEPTANCE"}
  <2>1. t \in s.tickets /\ t \in Tickets /\ ~IsTerminal(s.tk[t].status)
    BY <1>1, <1>3 DEF Index
  <2>2. f[t].status # s.tk[t].status
    BY DEF Behind
  <2>3. s.tk[t].status # "REQUIRES_ACCEPTANCE"
    BY <1>2, <2>1, <2>2
  <2>4. Fate(s.tk[t].status, f[t].status) /\ f[t].status # "PLACING"
    BY <1>1, <2>1
  <2>. QED
    BY <2>1, <2>2, <2>3, <2>4 DEF Fate, InPool, Dead, IsTerminal, Statuses, Active, Terminal
<1>. QED
  BY <1>2, <1>3, <1>4

\* What the last step of a tick leaves: every ticket's status agreed with the engine's, the tracker as it was.
Syncs(s, u, f, after, used) ==
  /\ Between(u, f, used) /\ KeepsTracker(s, u)
  /\ \A t \in u.tickets :
       /\ Agreed(u.tk[t].status, f[t].status)
       /\ u.tk[t].status = "REQUIRES_ACCEPTANCE" => \E p \in after : t \in p.ids

\* syncActiveTickets catches up with the engine; only a ticket of a proposal that
\* the engine no longer reports stays behind.
LEMMA TickSyncs ==
  ASSUME IInv, NEW after, NEW f, NEW used, NEW s, Between(s, f, used),
         \A t \in Tickets : f[t].status # "PLACING",
         \A t \in Tickets : \A p \in after : t \in p.ids => f[t].status = "REQUIRES_ACCEPTANCE",
         \A m \in MatchIDs : s.byMatch[m] # {} => Reports(s, after, m)
  PROVE  Syncs(s, syncActiveTickets(s, f), f, after, used)
<1>. DEFINE u == syncActiveTickets(s, f)
            S == Behind(s, f)
            Seen(t) == PullEvents(transitionFromEngine(s.tk[t], f[t].status))
<1>1. /\ s \in Service /\ s.tickets = svc.tickets /\ Index(s) /\ Tracker(s, used)
      /\ s.tickets \subseteq Tickets /\ s.active \subseteq s.tickets
      /\ \A t \in s.tickets : Fate(s.tk[t].status, f[t].status)
  BY ServiceFields DEF Between, Index
<1>2. /\ \A t \in s.tickets : s.tk[t].status = "REQUIRES_ACCEPTANCE" =>
           f[t].status = "REQUIRES_ACCEPTANCE" /\ \E p \in after : t \in p.ids
      /\ S \in SUBSET s.active /\ \A t \in s.tickets : f[t].status # Unknown
      /\ \A t \in S :
           /\ s.tk[t].status \in InPool /\ t \in s.tickets /\ t \in Tickets
           /\ f[t].status \in InPool \cup Dead \cup {"REQUIRES_ACCEPTANCE"}
  BY BehindInPool
<1>5. Moves(s, u, S, Seen) /\ KeepsTracker(s, u)
  <2>1. \A t \in Behind(s, f) : s.tk[t].status # "REQUIRES_ACCEPTANCE"
    BY <1>2 DEF InPool
  <2>. QED
    BY <1>1, <2>1, SyncEffect
<1>. HIDE DEF u
<1>6. /\ u \in Service /\ u.tickets = s.tickets
      /\ \A t \in Tickets : u.tk[t] = IF t \in S THEN Seen(t) ELSE s.tk[t]
      /\ u.active = (s.active \ S) \cup {t \in S : ~IsTerminal(u.tk[t].status)}
  BY <1>5 DEF Moves
<1>7. ASSUME NEW t \in S
      PROVE  /\ Fixed(u.tk[t]) = Fixed(s.tk[t])
             /\ f[t].status \in InPool => u.tk[t].status = "SEARCHING"
             /\ f[t].status \in Dead => u.tk[t].status = f[t].status
             /\ f[t].status = "REQUIRES_ACCEPTANCE" => u.tk[t].status \in InPool
  <2>. DEFINE v == transitionFromEngine(s.tk[t], f[t].status)
  <2>1. s.tk[t] \in Ticket /\ s.tk[t].status \in InPool /\ t \in Tickets
    BY <1>1, <1>2, ServiceFields
  <2>2. /\ v \in Ticket /\ Fixed(v) = Fixed(s.tk[t])
        /\ f[t].status \in InPool => v.status = "SEARCHING"
        /\ f[t].status \in Dead => v.status = f[t].status
        /\ f[t].status = "REQUIRES_ACCEPTANCE" => v = s.tk[t]
    <3>1. \A curr : LET w == transitionFromEngine(s.tk[t], curr)
                    IN  /\ w \in Ticket /\ Fixed(w) = Fixed(s.tk[t])
                        /\ s.tk[t].status \in InPool /\ curr \in InPool => w.status = "SEARCHING"
                        /\ s.tk[t].status \in InPool \cup {"REQUIRES_ACCEPTANCE"}
                           /\ curr \in {"CANCELLED", "TIMED_OUT"} => w.status = curr
                        /\ curr \notin InPool \cup {"CANCELLED", "TIMED_OUT"} => w = s.tk[t]
      BY <2>1, ObservedTicket
    <3>. QED
      BY <2>1, <3>1 DEF InPool, Dead
  <2>. HIDE DEF v
  <2>3. u.tk[t] = PullEvents(v)
    BY <1>6, <2>1 DEF v
  <2>. QED
    BY <2>1, <2>2, <2>3, PulledTicket
<1>8. \A t \in s.tickets : t \notin S => u.tk[t] = s.tk[t]
  BY <1>1, <1>6
<1>9. ASSUME NEW t \in u.tickets
      PROVE  /\ Agreed(u.tk[t].status, f[t].status)
             /\ u.tk[t].status = "REQUIRES_ACCEPTANCE" => \E p \in after : t \in p.ids
             /\ u.tk[t].status = "REQUIRES_ACCEPTANCE" <=> s.tk[t].status = "REQUIRES_ACCEPTANCE"
             /\ u.tk[t].status = "REQUIRES_ACCEPTANCE" => u.tk[t] = s.tk[t]
  <2>1. /\ t \in s.tickets /\ t \in Tickets /\ Fate(s.tk[t].status, f[t].status)
        /\ f[t].status # "PLACING"
    BY <1>1, <1>6
  <2>2. CASE t \in S
    BY <1>2, <1>7, <2>2 DEF Agreed, IsTerminal, InPool, Dead, Statuses, Active, Terminal
  <2>3. CASE t \notin S
    <3>1. u.tk[t] = s.tk[t]
      BY <1>8, <2>1, <2>3
    <3>2. f[t].status = s.tk[t].status \/ IsTerminal(s.tk[t].status)
      BY <1>1, <1>2, <2>1, <2>3 DEF Behind, Index
    <3>3. Agreed(s.tk[t].status, f[t].status)
      BY <2>1, <3>2 DEF Agreed, Fate, IsTerminal, InPool, Dead, Statuses, Active, Terminal
    <3>. QED
      BY <1>2, <2>1, <3>1, <3>3
  <2>. QED
    BY <2>2, <2>3
<1>10. \A m : Waiting(u, m) = Waiting(s, m)
  <2>1. \A t \in s.tickets : /\ u.tk[t].status = "REQUIRES_ACCEPTANCE"
                                   <=> s.tk[t].status = "REQUIRES_ACCEPTANCE"
                             /\ u.tk[t].status = "REQUIRES_ACCEPTANCE" => u.tk[t] = s.tk[t]
    BY <1>6, <1>9
  <2>. QED
    BY <1>6, <2>1 DEF Waiting
<1>11. Tracker(u, used)
  <2>1. \A t \in u.tickets : u.tk[t].status = "REQUIRES_ACCEPTANCE" => u.tk[t].matchID # NoMatch
    BY <1>1, <1>6, <1>9 DEF Tracker
  <2>. QED
    BY <1>1, <1>5, <1>10, <2>1 DEF Tracker, Paired, KeepsTracker
<1>. HIDE DEF Seen
<1>12. Index(u) /\ Narrows(s, u)
  <2>1. MovesOnly(s, u, S)
    BY <1>6 DEF MovesOnly
  <2>. HIDE DEF S
  <2>. QED
    BY <1>1, <1>2, <1>7, <2>1, MovesKeepIndex
<1>13. ASSUME NEW t \in u.tickets PROVE Fate(u.tk[t].status, f[t].status)
  BY <1>9 DEF Agreed, Fate, IsTerminal, InPool, Dead, Statuses, Active, Terminal
<1>14. Between(u, f, used)
  BY <1>1, <1>6, <1>11, <1>12, <1>13 DEF Between, Narrows
<1>. QED
  BY <1>5, <1>9, <1>14 DEF u, Syncs

\* A ticket that had finished before the tick is finished for the engine too.
LEMMA FinishedTwice ==
  ASSUME IInv, NEW e, NEW matches, NEW left, NEW now, Ticked(e, matches, left, now),
         NEW t \in Finished
  PROVE  t \in svc.tickets /\ t \in Tickets /\ IsTerminal(e[t].status)
<1>1. t \in svc.tickets /\ t \in Tickets /\ IsTerminal(status(t))
  BY ServiceFields DEF Finished, status, IInv, TypeOK
<1>2. eng[t].status = status(t)
  BY <1>1 DEF IInv, EngineAgrees, IsTerminal, Terminal, InPool
<1>3. e[t].status = eng[t].status
  BY <1>1, <1>2 DEF Ticked, IsTerminal, Terminal, InPool
<1>. QED
  BY <1>1, <1>2, <1>3

\* The engine at the end of a tick, when the expired tickets have left it.
LEMMA EvictedEngine ==
  ASSUME NEW f \in [Tickets -> EngineTicket], NEW expired,
         \A t \in Tickets : t \in expired => IsTerminal(f[t].status)
  PROVE  LET g == Evicted(f, expired)
         IN  /\ g \in [Tickets -> EngineTicket]
             /\ \A t \in Tickets : /\ t \in expired => g[t].status = Unknown /\ g[t].accepted = {}
                                   /\ t \notin expired => g[t] = f[t]
<1>1. NoEngineTicket \in EngineTicket /\ NoEngineTicket.status = Unknown /\ NoEngineTicket.accepted = {}
  BY DEF NoEngineTicket, EngineTicket
<1>. QED
  BY <1>1 DEF Evicted

\* evictExpiredTickets and the deadlines that pass bring the tick to its end.
LEMMA TickEnds ==
  ASSUME IInv, NEW e, NEW matches, NEW left, NEW now, Ticked(e, matches, left, now),
         NEW late \in SUBSET left, NEW after, after = left \ late,
         NEW f, f = MarkCompleted(e, svc.tickets \cap UNION matches),
         NEW used \in SUBSET MatchIDs, NEW u, Between(u, f, used),
         \A m \in MatchIDs : u.byMatch[m] # {} => Reports(u, after, m),
         \A p \in after : /\ u.matchIDs[p.ids] \in MatchIDs
                          /\ u.createdAt[u.matchIDs[p.ids]] = p.createdAt,
         \A t \in u.tickets :
           /\ Agreed(u.tk[t].status, f[t].status)
           /\ u.tk[t].status = "REQUIRES_ACCEPTANCE" => \E p \in after : t \in p.ids,
         NEW expired \in SUBSET Finished,
         svc' = evictExpiredTickets(u, expired), eng' = Evicted(f, expired),
         pending' = Lapse(left, late), usedIDs' = used,
         UNCHANGED <<rejectedIn, tickFailed, AcceptanceRequired>>
  PROVE  IInv'
<1>1. /\ svc \in Service /\ u \in Service /\ u.tickets = svc.tickets /\ svc.tickets \subseteq Tickets
      /\ Index(u) /\ Tracker(u, used) /\ \A t \in Tickets \ u.tickets : f[t].status = Unknown
      /\ u.active \subseteq svc.active /\ \A t \in u.active : Fixed(u.tk[t]) = Fixed(svc.tk[t])
  BY ServiceFields DEF Between, IInv, TypeOK
<1>2. /\ f \in [Tickets -> EngineTicket]
      /\ \A t \in Tickets :
           /\ f[t].status = IF e[t].status = "PLACING" THEN "COMPLETED" ELSE e[t].status
           /\ f[t].accepted = e[t].accepted
           /\ e[t].status # "PLACING" => f[t] = e[t]
  <2>. DEFINE g == MarkCompleted(e, svc.tickets \cap UNION matches)
  <2>1. /\ g \in [Tickets -> EngineTicket]
        /\ \A t \in Tickets :
             /\ g[t].status = IF e[t].status = "PLACING" THEN "COMPLETED" ELSE e[t].status
             /\ g[t].accepted = e[t].accepted
             /\ e[t].status # "PLACING" => g[t] = e[t]
    <3>1. g \in [Tickets -> EngineTicket]
      BY MarkedEngine
    <3>2. \A t \in Tickets :
            g[t].status = IF e[t].status = "PLACING" THEN "COMPLETED" ELSE e[t].status
      BY MarkedEngine
    <3>3. \A t \in Tickets : g[t].accepted = e[t].accepted
      BY MarkedEngine
    <3>4. ASSUME NEW t \in Tickets, e[t].status # "PLACING" PROVE g[t] = e[t]
      <4>1. t \notin UNION matches
        BY <3>4 DEF Ticked
      <4>. QED
        BY <4>1 DEF MarkCompleted
    <3>. HIDE DEF g
    <3>. QED
      BY <3>1, <3>2, <3>3, <3>4
  <2>. HIDE DEF g
  <2>2. f = g
    BY DEF g
  <2>. QED
    BY <2>1, <2>2
<1>3. \A t \in expired : t \in Tickets /\ t \in svc.tickets /\ IsTerminal(f[t].status)
  <2>1. \A t \in expired : t \in Tickets /\ t \in svc.tickets /\ IsTerminal(e[t].status)
    BY FinishedTwice
  <2>. QED
    BY <1>2, <2>1 DEF IsTerminal, Terminal
<1>4. /\ eng' \in [Tickets -> EngineTicket]
      /\ \A t \in Tickets : /\ t \in expired => eng'[t].status = Unknown /\ eng'[t].accepted = {}
                            /\ t \notin expired => eng'[t] = f[t]
  <2>. DEFINE g == Evicted(f, expired)
  <2>1. /\ g \in [Tickets -> EngineTicket]
        /\ \A t \in Tickets : /\ t \in expired => g[t].status = Unknown /\ g[t].accepted = {}
                              /\ t \notin expired => g[t] = f[t]
    <3>1. f \in [Tickets -> EngineTicket] /\ \A t \in Tickets : t \in expired => IsTerminal(f[t].status)
      BY <1>2, <1>3
    <3>. QED
      BY <3>1, EvictedEngine
  <2>2. eng' = g
    OBVIOUS
  <2>. HIDE DEF g
  <2>. QED
    BY <2>1, <2>2
<1>5. /\ svc' \in Service /\ svc'.tickets = u.tickets \ expired /\ svc'.active = u.active \ expired
      /\ KeepsTracker(u, svc')
      /\ \A t \in Tickets : t \notin expired => svc'.tk[t] = u.tk[t]
  <2>. DEFINE w == evictExpiredTickets(u, expired)
  <2>1. expired \in SUBSET Tickets
    BY <1>3
  <2>2. /\ w \in Service /\ w.tickets = u.tickets \ expired /\ w.active = u.active \ expired
        /\ KeepsTracker(u, w)
        /\ \A t \in Tickets : t \notin expired => w.tk[t] = u.tk[t]
    BY <1>1, <2>1, EvictEffect
  <2>3. svc' = w
    OBVIOUS
  <2>. HIDE DEF w
  <2>. QED
    BY <2>2, <2>3
<1>6. /\ left \in SUBSET Proposal /\ \A p \in left : p.ids \in Rosters /\ p.ids \subseteq Tickets
      /\ \A p, q \in left : p.ids \cap q.ids # {} => p = q
      /\ \A t \in Tickets : e[t].status = "REQUIRES_ACCEPTANCE" <=> \E p \in left : t \in p.ids
  BY DEF Ticked, Proposal
<1>7. /\ pending' \subseteq Proposal
      /\ \A q : q \in pending' <=> \E p \in left : q = Lapsed(p, late)
      /\ \A p \in left : LET q == Lapsed(p, late)
                         IN  /\ q.ids = p.ids /\ q.createdAt = p.createdAt
                             /\ q.expired <=> p.expired \/ p \in late
  <2>1. /\ Lapse(left, late) \subseteq Proposal
        /\ \A q : q \in Lapse(left, late) <=> \E p \in left : q = Lapsed(p, late)
    BY <1>6, LapseImage
  <2>2. \A p \in left : LET q == Lapsed(p, late)
                        IN  /\ q.ids = p.ids /\ q.createdAt = p.createdAt
                            /\ q.expired <=> p.expired \/ p \in late
    BY <1>6, LapsedFields
  <2>. QED
    BY <2>1, <2>2
<1>8. /\ \A p, q \in pending' : p.ids \cap q.ids # {} => p = q
      /\ \A t : (\E q \in pending' : t \in q.ids) <=> (\E p \in left : t \in p.ids)
  <2>. DEFINE Q == Lapse(left, late)
  <2>1. /\ \A p, q \in Q : p.ids \cap q.ids # {} => p = q
        /\ \A t : (\E q \in Q : t \in q.ids) <=> (\E p \in left : t \in p.ids)
    BY <1>6, LapseShape
  <2>. QED
    BY <2>1
<1>9. \A t \in Tickets :
        e[t].status = "REQUIRES_ACCEPTANCE" => t \notin expired /\ f[t] = e[t] /\ eng'[t] = e[t]
  BY <1>2, <1>3, <1>4 DEF IsTerminal, Terminal
<1>10. FlexiTypeOK'
  BY <1>4, <1>7 DEF IInv, TypeOK, FlexiTypeOK
<1>11. EngineShape'
  <2>1. ASSUME NEW t \in Tickets
        PROVE  /\ eng'[t].status \notin {"PLACING", "FAILED"}
               /\ eng'[t].status # "REQUIRES_ACCEPTANCE" => eng'[t].accepted = {}
               /\ eng'[t].status = "REQUIRES_ACCEPTANCE" <=> \E p \in pending' : t \in p.ids
    <3>1. /\ e[t].status # "FAILED"
          /\ e[t].status # "REQUIRES_ACCEPTANCE" => e[t].accepted = {}
          /\ e[t].status = "REQUIRES_ACCEPTANCE" <=> \E p \in pending' : t \in p.ids
      <4>1. t \in svc.tickets => e[t].status # "FAILED"
        BY TickFinds
      <4>2. t \notin svc.tickets => e[t].status = Unknown
        BY TickFinds
      <4>3. e[t].status # "FAILED"
        BY <4>1, <4>2 DEF Unknown
      <4>4. e[t].status # "REQUIRES_ACCEPTANCE" => e[t].accepted = {}
        BY <4>3 DEF Ticked
      <4>5. e[t].status = "REQUIRES_ACCEPTANCE" <=> \E p \in left : t \in p.ids
        BY <1>6
      <4>. QED
        BY <1>8, <4>3, <4>4, <4>5
    <3>2. CASE t \in expired
      BY <1>4, <1>9, <3>1, <3>2 DEF Unknown
    <3>3. CASE t \notin expired
      <4>1. eng'[t] = f[t]
        BY <1>4, <3>3
      <4>2. CASE e[t].status = "PLACING"
        BY <1>2, <3>1, <4>1, <4>2
      <4>3. CASE e[t].status # "PLACING"
        <5>1. eng'[t] = e[t]
          BY <1>2, <4>1, <4>3
        <5>. QED
          BY <3>1, <4>3, <5>1
      <4>. QED
        BY <4>2, <4>3
    <3>. QED
      BY <3>2, <3>3
  <2>2. \A p \in pending' : p.ids \in Rosters
    BY <1>6, <1>7
  <2>3. pending' # {} => AcceptanceRequired'
    BY <1>7 DEF Ticked
  <2>. QED
    BY <1>8, <2>1, <2>2, <2>3 DEF EngineShape
<1>12. \A t \in expired : t \in u.tickets /\ IsTerminal(u.tk[t].status)
  BY <1>1, <1>3 DEF Agreed
<1>13. Index(svc)' /\ OneBackfillPerSession'
  <2>1. Index(svc)'
    BY <1>1, <1>5 DEF Index
  <2>2. \A t \in svc'.active : t \in svc.active /\ Fixed(svc'.tk[t]) = Fixed(svc.tk[t])
    BY <1>1, <1>5 DEF Index
  <2>3. OneBackfillPerSession'
    BY <2>2 DEF IInv, OneBackfillPerSession, Fixed
  <2>. QED
    BY <2>1, <2>3
<1>14. Tracker(svc, usedIDs)'
  <2>1. \A m : Waiting(svc', m) = Waiting(u, m)
    BY <1>1, <1>5, <1>12 DEF Waiting, IsTerminal, Terminal
  <2>2. \A t \in svc'.tickets : svc'.tk[t].status = "REQUIRES_ACCEPTANCE" =>
                                  svc'.tk[t].matchID # NoMatch
    BY <1>1, <1>5 DEF Tracker
  <2>. QED
    BY <1>1, <1>5, <2>1, <2>2 DEF Tracker, Paired, KeepsTracker
<1>15. PendingKnown'
  <2>1. SUFFICES ASSUME NEW q \in pending' PROVE Known(q)' \/ GivenUp(q)'
    BY DEF PendingKnown
  <2>2. PICK p \in left : q = Lapsed(p, late)
    BY <1>7
  <2>3. q.ids = p.ids /\ q.createdAt = p.createdAt /\ (q.expired <=> p.expired \/ p \in late)
    BY <1>7, <2>2
  <2>4. CASE p \notin late
    <3>1. u.matchIDs[p.ids] \in MatchIDs /\ u.createdAt[u.matchIDs[p.ids]] = p.createdAt
      BY <2>4
    <3>. QED
      BY <1>5, <2>3, <3>1, TicketConstants DEF Known, KeepsTracker, TicketConstants
  <2>5. CASE p \in late
    <3>1. ASSUME NEW t \in p.ids
          PROVE  /\ t \in Tickets /\ eng'[t] = e[t] /\ svc'.tk[t].status \in InPool
      <4>1. t \in Tickets /\ e[t].status = "REQUIRES_ACCEPTANCE"
        BY <1>6, <3>1
      <4>2. t \notin expired /\ f[t] = e[t] /\ eng'[t] = e[t]
        BY <1>9, <4>1
      <4>3. t \in u.tickets
        BY <1>1, <4>1, <4>2 DEF Unknown
      <4>4. u.tk[t].status # "REQUIRES_ACCEPTANCE"
        BY <1>6, <2>5, <3>1, <4>3
      <4>5. u.tk[t].status \in InPool
        BY <4>1, <4>2, <4>3, <4>4 DEF Agreed
      <4>. QED
        BY <1>5, <4>1, <4>2, <4>5
    <3>2. \E t \in p.ids : e[t].accepted # Players
      <4>1. CASE Stays(p, e)
        BY <4>1 DEF Stays, FullyAccepted
      <4>2. CASE Forms(p, e, now)
        <5>1. PICK t \in p.ids : TRUE
          BY <1>6, FlexiConstants DEF FlexiConstants
        <5>. QED
          BY <4>2, <5>1, TicketConstants DEF Forms, TicketConstants
      <4>. QED
        BY <4>1, <4>2 DEF Ticked
    <3>. QED
      BY <2>3, <2>5, <3>1, <3>2 DEF GivenUp, FullyAccepted, status
  <2>. QED
    BY <2>4, <2>5
<1>16. TrackedAlive'
  <2>1. SUFFICES ASSUME NEW m \in MatchIDs, svc'.byMatch[m] # {} PROVE Alive(m)'
    BY DEF TrackedAlive
  <2>2. u.byMatch[m] # {} /\ svc'.byMatch[m] = u.byMatch[m] /\ svc'.createdAt[m] = u.createdAt[m]
    BY <1>5, <2>1 DEF KeepsTracker
  <2>3. PICK p \in after : p.ids = u.byMatch[m] /\ p.createdAt = u.createdAt[m]
    BY <2>2 DEF Reports
  <2>4. Lapsed(p, late) \in pending' /\ Lapsed(p, late).ids = p.ids
        /\ Lapsed(p, late).createdAt = p.createdAt
    BY <1>7, <2>3
  <2>. QED
    BY <2>2, <2>3, <2>4 DEF Alive
<1>17. EngineAgrees'
  <2>1. SUFFICES ASSUME NEW t \in Tickets
                 PROVE  /\ t \notin svc'.tickets => eng'[t].status = Unknown
                        /\ t \in svc'.tickets =>
                             \/ eng'[t].status = svc'.tk[t].status
                             \/ eng'[t].status \in InPool \cup {"CANCELLED"} /\ svc'.tk[t].status \in InPool
                             \/ /\ eng'[t].status = "REQUIRES_ACCEPTANCE" /\ svc'.tk[t].status \in InPool
                                /\ \A p \in pending' : t \in p.ids => p.expired
    BY DEF EngineAgrees, status
  <2>2. CASE t \in expired
    BY <1>4, <1>5, <2>2
  <2>3. CASE t \notin expired
    <3>1. eng'[t] = f[t] /\ svc'.tk[t] = u.tk[t] /\ (t \in svc'.tickets <=> t \in u.tickets)
      BY <1>4, <1>5, <2>3
    <3>2. CASE t \notin u.tickets
      BY <1>1, <3>1, <3>2
    <3>3. CASE t \in u.tickets /\ f[t].status # "REQUIRES_ACCEPTANCE"
      BY <3>1, <3>3 DEF Agreed, IsTerminal, Terminal, InPool, Statuses, Active
    <3>4. CASE t \in u.tickets /\ f[t].status = "REQUIRES_ACCEPTANCE"
      <4>1. u.tk[t].status \in InPool \cup {"REQUIRES_ACCEPTANCE"}
        BY <3>4 DEF Agreed
      <4>2. ASSUME u.tk[t].status \in InPool, NEW q \in pending', t \in q.ids PROVE q.expired
        <5>1. PICK p \in left : q = Lapsed(p, late)
          BY <1>7
        <5>2. q.ids = p.ids /\ (q.expired <=> p.expired \/ p \in late)
          BY <1>7, <5>1
        <5>3. CASE p \in late
          BY <5>2, <5>3
        <5>4. CASE p \notin late
          <6>. DEFINE m == u.matchIDs[p.ids]
          <6>1. m \in MatchIDs
            BY <5>4
          <6>2. u.byMatch[m] = p.ids
            BY <1>1, <1>6, <6>1, TicketConstants DEF Tracker, Paired, TicketConstants
          <6>. HIDE DEF m
          <6>3. t \in Waiting(u, m)
            BY <1>1, <4>2, <5>2, <6>1, <6>2 DEF Tracker
          <6>. QED
            BY <4>2, <6>3 DEF Waiting, InPool
        <5>. QED
          BY <5>3, <5>4
      <4>. QED
        BY <3>1, <3>4, <4>1, <4>2
    <3>. QED
      BY <3>2, <3>3, <3>4
  <2>. QED
    BY <2>2, <2>3
<1>18. TypeOK' /\ TickNeverFails'
  BY <1>5, <1>10 DEF IInv, TypeOK, TickNeverFails
<1>. QED
  BY <1>10, <1>11, <1>13, <1>14, <1>15, <1>16, <1>17, <1>18 DEF IInv

\* One tick: e are the engine's tickets after engine.Tick, f once the matched ones
\* are marked, left and after the proposals it holds and those it reports, fresh
\* the ids NewID returned for the rosters D, s1 to s4 the service after each of the
\* phases, and what is known of it there.
TickRun(e, matches, left, now, late, after, f, D, fresh, used, expired, s1, s2, s3, s4) ==
  /\ /\ Ticked(e, matches, left, now) /\ now \in Times
     /\ late \in SUBSET left /\ after = left \ late
     /\ f = MarkCompleted(e, svc.tickets \cap UNION matches)
     /\ \A t \in Tickets :
          f[t].status = IF e[t].status = "PLACING" THEN "COMPLETED" ELSE e[t].status
     /\ \A t \in Tickets : \A p \in after : t \in p.ids => f[t].status = "REQUIRES_ACCEPTANCE"
     /\ \A r : r \in D <=> \/ r \in matches /\ s1.matchIDs[r] = NoMatch
                           \/ r \in NewProposals(s1, after)
     /\ \A r \in D : fresh[r] \in MatchIDs \ usedIDs
     /\ used = usedIDs \cup {fresh[r] : r \in D} /\ used \in SUBSET MatchIDs
     /\ expired \in SUBSET Finished
  /\ /\ s1 = settleOldProposals(svc, e, matches, after)
     /\ Between(s1, e, usedIDs)
     /\ \A m \in MatchIDs : s1.byMatch[m] # {} => s1.byMatch[m] \in matches \/ Reports(s1, after, m)
  /\ /\ s2 = finalizeMatches(s1, matches, fresh) /\ Names(fresh, D, s1)
     /\ Between(s2, f, usedIDs)
     /\ \A m \in MatchIDs : s2.byMatch[m] # {} => s2.byMatch[m] = s1.byMatch[m] /\ Reports(s2, after, m)
  /\ /\ s3 = applyNewProposals(s2, after, fresh) /\ Names(fresh, D, s2)
     /\ NewProposals(s2, after) \subseteq D /\ Newcomers(s2, after)
     /\ Between(s3, f, used)
     /\ \A m \in MatchIDs : s3.byMatch[m] # {} => Reports(s3, after, m)
  /\ /\ s4 = syncActiveTickets(s3, f)
     /\ Between(s4, f, used) /\ KeepsTracker(s3, s4)
     /\ \A m \in MatchIDs : s4.byMatch[m] # {} => Reports(s4, after, m)
     /\ \A p \in after : /\ s4.matchIDs[p.ids] \in MatchIDs
                         /\ s4.createdAt[s4.matchIDs[p.ids]] = p.createdAt
     /\ \A t \in s4.tickets :
          /\ Agreed(s4.tk[t].status, f[t].status)
          /\ s4.tk[t].status = "REQUIRES_ACCEPTANCE" => \E p \in after : t \in p.ids
  /\ /\ svc' = evictExpiredTickets(s4, expired) /\ eng' = Evicted(f, expired)
     /\ pending' = Lapse(left, late) /\ usedIDs' = used
     /\ UNCHANGED <<rejectedIn, tickFailed, AcceptanceRequired>>

\* The phases, one after the other.
LEMMA TickPhases ==
  ASSUME IInv, NEW timedOut \in SUBSET MayTimeOut, NEW now \in Times, NEW expired \in SUBSET Finished,
         NEW formed \in MayForm(Settled(timedOut)),
         NEW late \in SUBSET TickPending(timedOut, formed, now),
         NEW k, k = EngineTick(timedOut, formed, now, late),
         NEW fresh \in FreshIDs(Unnamed(k)), Tick(k, fresh, expired), UNCHANGED AcceptanceRequired
  PROVE  \E e, left, used :
           TickRun(e, k.matches, left, now, late, k.after, k.eng, Unnamed(k), fresh, used, expired,
                   k.settled, Finalized(k, fresh), Proposed(k, fresh), Synced(k, fresh))
<1>. DEFINE e       == TickTickets(timedOut, formed)
            matches == TickMatches(formed)
            left    == TickPending(timedOut, formed, now)
            after   == left \ late
            D       == Unnamed(k)
            used    == usedIDs \cup {fresh[r] : r \in D}
            f  == MarkCompleted(e, svc.tickets \cap UNION matches)
            s1 == settleOldProposals(svc, e, matches, after)
            s2 == finalizeMatches(s1, matches, fresh)
            s3 == applyNewProposals(s2, after, fresh)
            s4 == syncActiveTickets(s3, f)
<1>1. Ticked(e, matches, left, now)
  <2>1. FlexiTypeOK /\ EngineShape /\ EngineTicks(timedOut, formed)
    BY DEF IInv, TypeOK, EngineTicks
  <2>. QED
    BY <2>1, TickFates
<1>2. /\ k.matches = matches /\ k.after = after /\ k.pending = Lapse(left, late)
      /\ k.eng = f /\ k.settled = s1
      /\ Finalized(k, fresh) = s2 /\ Proposed(k, fresh) = s3 /\ Synced(k, fresh) = s4
  <2>1. /\ k.matches = matches /\ k.after = after /\ k.pending = Lapse(left, late)
        /\ k.eng = f /\ k.settled = s1
    BY DEF EngineTick
  <2>2. Finalized(k, fresh) = s2
    BY <2>1 DEF Finalized
  <2>3. Proposed(k, fresh) = s3
    BY <2>1, <2>2 DEF Proposed
  <2>4. Synced(k, fresh) = s4
    BY <2>1, <2>3 DEF Synced
  <2>. QED
    BY <2>1, <2>2, <2>3, <2>4
<1>3. /\ svc' = evictExpiredTickets(s4, expired) /\ eng' = Evicted(f, expired)
      /\ pending' = Lapse(left, late) /\ usedIDs' = used
      /\ tickFailed' = (\/ tickFailed \/ Refused(s1, matches, "PLACING")
                        \/ Refused(s2, NewProposals(s2, after), "REQUIRES_ACCEPTANCE"))
      /\ UNCHANGED rejectedIn
  <2>1. usedIDs' = usedIDs \cup {fresh[r] : r \in DOMAIN fresh} /\ DOMAIN fresh = D
    BY DEF Tick, FreshIDs
  <2>. HIDE DEF s1, s2, s3, s4, f, matches, after, left, e, D
  <2>2. usedIDs' = usedIDs \cup {fresh[r] : r \in D}
    BY <2>1
  <2>. QED
    BY <1>2, <2>2 DEF Tick
<1>4. \A r : r \in D <=> \/ r \in matches /\ s1.matchIDs[r] = NoMatch
                         \/ r \in NewProposals(s1, after)
  BY <1>2 DEF Unnamed
<1>5. /\ fresh \in [D -> MatchIDs] /\ \A r1, r2 \in D : fresh[r1] = fresh[r2] => r1 = r2
      /\ \A r \in D : fresh[r] \in MatchIDs /\ fresh[r] \notin usedIDs
  BY DEF FreshIDs
<1>6. after \in SUBSET left /\ late \in SUBSET left
  OBVIOUS
<1>. HIDE DEF e, matches, left, D
<1>7. /\ Between(s1, e, usedIDs)
      /\ \A m \in MatchIDs : s1.byMatch[m] # {} => s1.byMatch[m] \in matches \/ Reports(s1, after, m)
  BY <1>1, <1>6, TickSettles
<1>. HIDE DEF s1
<1>8. Names(fresh, D, s1)
  BY <1>5, <1>7 DEF Names, Between, Tracker
<1>9. /\ Between(s2, f, usedIDs)
      /\ \A m \in MatchIDs : s2.byMatch[m] # {} => s2.byMatch[m] = s1.byMatch[m] /\ Reports(s2, after, m)
      /\ \A r \in Rosters \ matches : s2.matchIDs[r] = s1.matchIDs[r]
      /\ ~Refused(s1, matches, "PLACING")
  <2>1. \A r \in matches : s1.matchIDs[r] = NoMatch => r \in D
    BY <1>4
  <2>. HIDE DEF after
  <2>. QED
    BY <1>1, <1>6, <1>7, <1>8, <2>1, TickFinalizes
<1>. HIDE DEF s2
<1>10. Names(fresh, D, s2)
  BY <1>5, <1>9 DEF Names, Between, Tracker
<1>11. \A t \in Tickets :
         f[t].status = IF e[t].status = "PLACING" THEN "COMPLETED" ELSE e[t].status
  BY <1>1, MarkedEngine
<1>. HIDE DEF f
<1>12. /\ \A t \in Tickets : e[t].status = "REQUIRES_ACCEPTANCE" => f[t].status = e[t].status
       /\ \A t \in Tickets : f[t].status # "PLACING"
       /\ \A t \in Tickets : \A p \in after : t \in p.ids => f[t].status = "REQUIRES_ACCEPTANCE"
  BY <1>1, <1>6, <1>11 DEF Ticked
<1>13. NewProposals(s2, after) \subseteq D /\ Newcomers(s2, after)
  <2>1. Newcomers(s2, after)
    BY <1>1, <1>6, <1>9, <1>12, NewOnes
  <2>2. ASSUME NEW r \in NewProposals(s2, after) PROVE r \in D
    <3>1. /\ r \in Rosters /\ s2.matchIDs[r] = NoMatch
          /\ \E p \in after : p.ids = r
      BY <2>1, <2>2 DEF Newcomers
    <3>2. PICK t \in Tickets : t \in r
      BY <3>1, FlexiConstants DEF FlexiConstants
    <3>3. r \notin matches
      BY <1>1, <1>6, <3>1, <3>2 DEF Ticked
    <3>4. s1.matchIDs[r] = NoMatch
      BY <1>9, <3>1, <3>3
    <3>5. r \in NewProposals(s1, after)
      BY <3>1, <3>4 DEF NewProposals
    <3>. QED
      BY <1>4, <3>5
  <2>. QED
    BY <2>1, <2>2
<1>. HIDE DEF after
<1>. HIDE DEF used
<1>14. /\ Between(s3, f, used)
       /\ \A m \in MatchIDs : s3.byMatch[m] # {} => Reports(s3, after, m)
       /\ \A p \in after : /\ s3.matchIDs[p.ids] \in MatchIDs
                           /\ s3.createdAt[s3.matchIDs[p.ids]] = p.createdAt
       /\ ~Refused(s2, NewProposals(s2, after), "REQUIRES_ACCEPTANCE")
  <2>1. /\ \A m \in MatchIDs : s2.byMatch[m] # {} => Reports(s2, after, m)
        /\ \A r \in D : fresh[r] \notin usedIDs
    BY <1>5, <1>9
  <2>2. used = usedIDs \cup {fresh[r] : r \in D}
    BY DEF used
  <2>3. ReadyToPropose(e, matches, left, now, f, after, s2, D, fresh, used)
    BY <1>1, <1>6, <1>9, <1>10, <1>12, <1>13, <2>1, <2>2 DEF ReadyToPropose
  <2>4. Proposes(s2, s3, f, after, used)
    BY <2>3, TickProposes
  <2>. QED
    BY <2>4 DEF Proposes
<1>. HIDE DEF s3
<1>15. used \in SUBSET MatchIDs
  BY <1>5 DEF IInv, TypeOK, used
<1>16. /\ Between(s4, f, used) /\ KeepsTracker(s3, s4)
       /\ \A t \in s4.tickets :
            /\ Agreed(s4.tk[t].status, f[t].status)
            /\ s4.tk[t].status = "REQUIRES_ACCEPTANCE" => \E p \in after : t \in p.ids
  <2>1. Syncs(s3, s4, f, after, used)
    BY <1>12, <1>14, TickSyncs
  <2>. QED
    BY <2>1 DEF Syncs
<1>. HIDE DEF s4
<1>17. /\ \A m \in MatchIDs : s4.byMatch[m] # {} => Reports(s4, after, m)
       /\ \A p \in after : /\ s4.matchIDs[p.ids] \in MatchIDs
                           /\ s4.createdAt[s4.matchIDs[p.ids]] = p.createdAt
  BY <1>14, <1>16 DEF KeepsTracker, Reports
<1>18. UNCHANGED <<rejectedIn, tickFailed, AcceptanceRequired>>
  BY <1>3, <1>9, <1>14 DEF IInv, TypeOK
<1>19. /\ after = left \ late /\ f = MarkCompleted(e, svc.tickets \cap UNION matches)
       /\ s1 = settleOldProposals(svc, e, matches, after) /\ s2 = finalizeMatches(s1, matches, fresh)
       /\ s3 = applyNewProposals(s2, after, fresh) /\ s4 = syncActiveTickets(s3, f)
       /\ used = usedIDs \cup {fresh[r] : r \in D} /\ D = Unnamed(k)
  BY DEF after, f, s1, s2, s3, s4, used, D
<1>20. \A r \in D : fresh[r] \in MatchIDs \ usedIDs
  BY <1>5
<1>21. TickRun(e, matches, left, now, late, after, f, D, fresh, used, expired, s1, s2, s3, s4)
  BY <1>1, <1>3, <1>4, <1>6, <1>7, <1>8, <1>9, <1>10, <1>11, <1>12, <1>13, <1>14, <1>15, <1>16,
     <1>17, <1>18, <1>19, <1>20 DEF TickRun
<1>22. TickRun(e, k.matches, left, now, late, k.after, k.eng, Unnamed(k), fresh, used, expired,
               k.settled, Finalized(k, fresh), Proposed(k, fresh), Synced(k, fresh))
  <2>1. D = Unnamed(k)
    BY <1>19
  <2>. QED
    BY <1>2, <1>21, <2>1, Zenon
<1>. QED
  BY <1>22, Zenon

LEMMA TickRunKeeps ==
  ASSUME IInv, NEW e, NEW matches, NEW left, NEW now, NEW late, NEW after, NEW f, NEW D, NEW fresh,
         NEW used, NEW expired, NEW s1, NEW s2, NEW s3, NEW s4,
         TickRun(e, matches, left, now, late, after, f, D, fresh, used, expired, s1, s2, s3, s4)
  PROVE  IInv'
<1>1. /\ Ticked(e, matches, left, now) /\ late \in SUBSET left /\ after = left \ late
      /\ f = MarkCompleted(e, svc.tickets \cap UNION matches)
      /\ used \in SUBSET MatchIDs /\ expired \in SUBSET Finished
  BY DEF TickRun
<1>2. /\ Between(s4, f, used)
      /\ \A m \in MatchIDs : s4.byMatch[m] # {} => Reports(s4, after, m)
      /\ \A p \in after : /\ s4.matchIDs[p.ids] \in MatchIDs
                          /\ s4.createdAt[s4.matchIDs[p.ids]] = p.createdAt
      /\ \A t \in s4.tickets :
           /\ Agreed(s4.tk[t].status, f[t].status)
           /\ s4.tk[t].status = "REQUIRES_ACCEPTANCE" => \E p \in after : t \in p.ids
  BY DEF TickRun
<1>3. /\ svc' = evictExpiredTickets(s4, expired) /\ eng' = Evicted(f, expired)
      /\ pending' = Lapse(left, late) /\ usedIDs' = used
      /\ UNCHANGED <<rejectedIn, tickFailed, AcceptanceRequired>>
  BY DEF TickRun
<1>. QED
  BY <1>1, <1>2, <1>3, TickEnds

LEMMA TickRuns ==
  ASSUME IInv, TickOnce, UNCHANGED AcceptanceRequired
  PROVE  \E e, matches, left, now, late, after, f, D, fresh, used, expired, s1, s2, s3, s4 :
           TickRun(e, matches, left, now, late, after, f, D, fresh, used, expired, s1, s2, s3, s4)
<1>1. PICK timedOut \in SUBSET MayTimeOut, now \in Times, expired \in SUBSET Finished :
        \E formed \in MayForm(Settled(timedOut)) :
          \E late \in SUBSET TickPending(timedOut, formed, now) :
            LET k == EngineTick(timedOut, formed, now, late)
            IN  \E fresh \in FreshIDs(Unnamed(k)) : Tick(k, fresh, expired)
  BY DEF TickOnce
<1>2. PICK formed \in MayForm(Settled(timedOut)) :
        \E late \in SUBSET TickPending(timedOut, formed, now) :
          LET k == EngineTick(timedOut, formed, now, late)
          IN  \E fresh \in FreshIDs(Unnamed(k)) : Tick(k, fresh, expired)
  BY <1>1
<1>3. PICK late \in SUBSET TickPending(timedOut, formed, now) :
        LET k == EngineTick(timedOut, formed, now, late)
        IN  \E fresh \in FreshIDs(Unnamed(k)) : Tick(k, fresh, expired)
  BY <1>2
<1>. DEFINE k == EngineTick(timedOut, formed, now, late)
<1>4. PICK fresh \in FreshIDs(Unnamed(k)) : Tick(k, fresh, expired)
  BY <1>3
<1>5. k = EngineTick(timedOut, formed, now, late)
  OBVIOUS
<1>. HIDE DEF k
<1>6. PICK e, left, used :
        TickRun(e, k.matches, left, now, late, k.after, k.eng, Unnamed(k), fresh, used, expired,
                k.settled, Finalized(k, fresh), Proposed(k, fresh), Synced(k, fresh))
  BY <1>4, <1>5, TickPhases
<1>. QED
  BY <1>6, Zenon

\* No step leaves the invariant.
LEMMA StepIInv == IInv /\ [Next]_vars => IInv'
<1>. SUFFICES ASSUME IInv, [Next]_vars PROVE IInv'
  OBVIOUS
<1>1. CASE UNCHANGED vars
  BY <1>1 DEF vars, engVars, IInv, TypeOK, FlexiTypeOK, EngineShape, Index, Tracker, Paired, Waiting,
     PendingKnown, Known, GivenUp, FullyAccepted, TrackedAlive, Alive, EngineAgrees, status,
     OneBackfillPerSession, TickNeverFails
<1>2. CASE Next
  <2>1. UNCHANGED AcceptanceRequired
    BY <1>2 DEF Next
  <2>2. CASE Start
    BY <2>1, <2>2, StartKeeps DEF Start
  <2>3. CASE Backfill
    BY <2>1, <2>3, BackfillKeeps DEF Backfill
  <2>4. CASE Stop
    BY <2>1, <2>4, StopKeeps DEF Stop
  <2>5. CASE Decide
    <3>1. PICK t \in Tickets, ids \in SUBSET Players :
            \/ AcceptMatch(t, ids)
            \/ RejectMatch(t, ids)
            \/ \E done \in SUBSET ids : AcceptMatchLapses(t, ids, done)
      BY <2>5 DEF Decide
    <3>. QED
      BY <2>1, <3>1, AcceptKeeps, RejectKeeps, AcceptLapsesKeeps
  <2>6. CASE TickOnce
    BY <2>1, <2>6, TickRuns, TickRunKeeps
  <2>7. CASE DeadlinePasses
    BY <2>1, <2>7, DeadlineKeeps
  <2>. QED
    BY <1>2, <2>2, <2>3, <2>4, <2>5, <2>6, <2>7 DEF Next, Commands
<1>. QED
  BY <1>1, <1>2

-----------------------------------------------------------------------------
(* The theorems *)

\* Whatever the commands, the acceptance deadlines and the engine's choices, a
\* service over one engine never leaves the invariant: each of the service's
\* maps and the engine's tickets and proposals keep the one account of each other
\* which the next command and the next tick rely on.
THEOREM Invariance == Spec => []IInv
<1>. QED
  BY InitIInv, StepIInv, PTL DEF Spec

\* The types.
THEOREM TypeCorrect == Spec => []TypeOK
<1>1. IInv => TypeOK
  BY DEF IInv
<1>. QED
  BY <1>1, Invariance, PTL

\* Between two steps the service and the engine tell the same story of a ticket,
\* up to what only the next tick reports: a command that fails half way, an
\* answer to a lapsed proposal and a superseded backfill request leave nothing
\* the tick cannot repair.
THEOREM EngineAgreesAlways == Spec => []EngineAgrees
<1>1. IInv => EngineAgrees
  BY DEF IInv
<1>. QED
  BY <1>1, Invariance, PTL

\* proposalTracker follows the tickets exactly, and every proposal players may
\* still answer has its match: byMatch, matchIDs and createdAt never go stale.
THEOREM ProposalsTrackedAlways == Spec => []ProposalsTracked
<1>1. IInv => ProposalsTracked
  <2>. SUFFICES ASSUME IInv PROVE ProposalsTracked
    OBVIOUS
  <2>1. svc \in Service /\ Tracker(svc, usedIDs) /\ PendingKnown /\ EngineShape /\ Paired(svc)
    BY DEF IInv, TypeOK, Tracker
  <2>2. \A m \in MatchIDs :
          svc.byMatch[m] = {t \in svc.tickets : /\ status(t) = "REQUIRES_ACCEPTANCE"
                                                /\ svc.tk[t].matchID = m}
    BY <2>1 DEF Tracker, Waiting, status
  <2>3. ASSUME NEW p \in PendingAcceptances
        PROVE  /\ svc.matchIDs[p.ids] \in MatchIDs
               /\ svc.byMatch[svc.matchIDs[p.ids]] = p.ids
               /\ svc.createdAt[svc.matchIDs[p.ids]] = p.createdAt
    <3>1. p \in pending /\ ~p.expired /\ p.ids \in Rosters
      BY <2>1, <2>3 DEF PendingAcceptances, EngineShape
    <3>2. svc.matchIDs[p.ids] # NoMatch /\ svc.createdAt[svc.matchIDs[p.ids]] = p.createdAt
      BY <2>1, <3>1 DEF PendingKnown, Known, GivenUp
    <3>3. svc.matchIDs[p.ids] \in MatchIDs
      BY <2>1, <3>1, <3>2, ServiceFields
    <3>. QED
      BY <2>1, <3>1, <3>2, <3>3 DEF Paired
  <2>. QED
    BY <2>2, <2>3 DEF ProposalsTracked
<1>. QED
  BY <1>1, Invariance, PTL

\* Tick never meets a transition the ticket's status machine refuses, so it
\* never returns half done.
THEOREM TickNeverFailsAlways == Spec => []TickNeverFails
<1>1. IInv => TickNeverFails
  BY DEF IInv
<1>. QED
  BY <1>1, Invariance, PTL

\* A game session never has two outstanding backfill requests: StartMatchBackfill
\* supersedes the earlier one whatever it was doing.
THEOREM OneBackfillAlways == Spec => []OneBackfillPerSession
<1>1. IInv => OneBackfillPerSession
  BY DEF IInv
<1>. QED
  BY <1>1, Invariance, PTL
=============================================================================
