----------------------- MODULE MatchmakingFeedProofs -----------------------
(***************************************************************************)
(* What becomes of one ticket, and what is published of it: proofs about   *)
(* Matchmaking for every set of tickets, players, rosters and match ids.   *)
(***************************************************************************)
EXTENDS MatchmakingProofs

-----------------------------------------------------------------------------
(* What a ticket carries, and what has been published of it.  Both are         *)
(* statements about one ticket x and its feed f.                               *)

Base(x) == IF x.isBackfill THEN "seats" ELSE "none"

Clean(x) ==
  /\ x.status \in InPool =>
       x.matchID = NoMatch /\ x.acceptances = Undecided /\ x.teams = Base(x)
  /\ x.status = "REQUIRES_ACCEPTANCE" => x.reason = ""
  /\ x.status \in {"REQUIRES_ACCEPTANCE", "COMPLETED"} => x.teams = x.matchID

LastWord(st) == CASE st = "CANCELLED" -> "MatchmakingCancelled"
                  [] st = "TIMED_OUT" -> "MatchmakingTimedOut"
                  [] OTHER                -> "MatchmakingSearching"

Told(x, f) ==
  /\ x.events = <<>> /\ f # <<>> /\ f[Len(f)].type = LastWord(x.status)
  /\ \A i \in 1..(Len(f) - 1) : f[i].type = "MatchmakingSearching"
  /\ \A i \in DOMAIN f : f[i].type = "MatchmakingSearching" => f[i].teams = {Base(x)}

Good(x, f) == Clean(x) /\ Told(x, f)

\* No reader can tell x from y.
Alike(x, y) == /\ x.status = y.status /\ x.matchID = y.matchID /\ x.teams = y.teams
               /\ x.reason = y.reason /\ x.message = y.message

\* The ticket x has become y, and its feed g.
Carries(x, f, y, g) ==
  /\ Good(x, f) => Good(y, g)
  /\ IsTerminal(x.status) => Alike(x, y)
  /\ y.cancelByAPI = x.cancelByAPI

LEMMA AlikeItself ==
  ASSUME NEW x
  PROVE  Alike(x, x)
BY DEF Alike

LEMMA AlikeTwice ==
  ASSUME NEW x, NEW y, NEW z, Alike(x, y), Alike(y, z)
  PROVE  Alike(x, z)
BY DEF Alike

LEMMA AlikeStatus ==
  ASSUME NEW x, NEW y, Alike(x, y)
  PROVE  IsTerminal(x.status) <=> IsTerminal(y.status)
BY DEF Alike

LEMMA CarriesOn ==
  ASSUME NEW x, NEW f, NEW y, NEW g, NEW z, NEW h, Carries(x, f, y, g), Carries(y, g, z, h)
  PROVE  Carries(x, f, z, h)
BY DEF Carries, Alike

LEMMA CarriesItself ==
  ASSUME NEW x, NEW f
  PROVE  Carries(x, f, x, f)
BY AlikeItself DEF Carries

\* What addTicket publishes of a ticket.
Out(x) == [i \in DOMAIN x.events |-> [type |-> x.events[i], teams |-> {x.teams}]]

\* Nothing but searching has been published in f.
Searched(f, base) ==
  \A i \in DOMAIN f : f[i].type = "MatchmakingSearching" /\ f[i].teams = {base}

LEMMA SearchedSoFar ==
  ASSUME NEW f \in Seq(Detail(TicketEvents)), NEW x, Told(x, f),
         LastWord(x.status) = "MatchmakingSearching"
  PROVE  Searched(f, Base(x))
<1>1. Len(f) \in Nat /\ DOMAIN f = 1..Len(f)
  OBVIOUS
<1>2. ASSUME NEW i \in 1..Len(f) PROVE f[i].type = "MatchmakingSearching"
  BY <1>1 DEF Told
<1>. QED
  BY <1>1, <1>2 DEF Told, Searched

\* One more event after nothing but searching.
LEMMA OneMoreEvent ==
  ASSUME NEW f \in Seq(Detail(TicketEvents)), NEW v, Searched(f, Base(v)),
         v.events = <<LastWord(v.status)>>,
         LastWord(v.status) = "MatchmakingSearching" => v.teams = Base(v)
  PROVE  Told(PullEvents(v), f \o Out(v))
<1>. DEFINE d == [type |-> LastWord(v.status), teams |-> {v.teams}]
            g == f \o Out(v)
<1>1. Out(v) \in Seq({d}) /\ Len(Out(v)) = 1 /\ Out(v)[1] = d
  <2>1. DOMAIN v.events = 1..1 /\ \A i \in 1..1 : v.events[i] = LastWord(v.status)
    OBVIOUS
  <2>. HIDE DEF d
  <2>2. Out(v) = [i \in 1..1 |-> d]
    BY <2>1 DEF Out, d
  <2>3. Out(v) \in [1..1 -> {d}]
    BY <2>2
  <2>. DEFINE o == Out(v)
              D == {d}
  <2>4. Out(v) \in Seq({d})
    <3>1. o \in [1..1 -> D]
      BY <2>3
    <3>. HIDE DEF o, D
    <3>2. o \in UNION {[1..n -> D] : n \in Nat}
      BY <3>1, 1 \in Nat
    <3>3. Seq(D) = UNION {[1..n -> D] : n \in Nat}
      BY SeqDef
    <3>4. o \in Seq(D)
      BY <3>2, <3>3
    <3>. QED
      BY <3>4 DEF o, D
  <2>. HIDE DEF o, D
  <2>. QED
    BY <2>2, <2>4, LenProperties
<1>2. /\ Len(g) = Len(f) + 1 /\ DOMAIN g = 1..(Len(f) + 1)
      /\ g[Len(f) + 1] = d /\ \A i \in 1..Len(f) : g[i] = f[i]
  <2>. DEFINE X == Detail(TicketEvents) \cup {d}
              o == Out(v)
  <2>1. f \in Seq(X) /\ o \in Seq(X) /\ Len(o) = 1 /\ o[1] = d
    BY <1>1, SeqMonotonic
  <2>. HIDE DEF X, o, d
  <2>2. f \o o \in Seq(X) /\ Len(f \o o) = Len(f) + 1
        /\ \A i \in 1..(Len(f) + 1) : (f \o o)[i] = IF i <= Len(f) THEN f[i] ELSE o[i - Len(f)]
    <3>1. /\ f \o o \in Seq(X) /\ Len(f \o o) = Len(f) + Len(o)
          /\ \A i \in 1..(Len(f) + Len(o)) :
               (f \o o)[i] = IF i <= Len(f) THEN f[i] ELSE o[i - Len(f)]
      BY <2>1, ConcatProperties, Zenon
    <3>. QED
      BY <2>1, <3>1, Zenon
  <2>3. Len(f) \in Nat
    OBVIOUS
  <2>4. (Len(f) + 1) - Len(f) = 1 /\ Len(f) + 1 \in 1..(Len(f) + 1) /\ ~(Len(f) + 1 <= Len(f))
        /\ \A i \in 1..Len(f) : i \in 1..(Len(f) + 1) /\ i <= Len(f)
    BY <2>3
  <2>. QED
    BY <2>1, <2>2, <2>4, LenProperties DEF o
<1>3. Len(f) \in Nat /\ DOMAIN f = 1..Len(f)
  OBVIOUS
<1>4. \A i \in 1..Len(f) : f[i].type = "MatchmakingSearching" /\ f[i].teams = {Base(v)}
  BY <1>3 DEF Searched
<1>. DEFINE w == PullEvents(v)
<1>5. w.events = <<>> /\ w.status = v.status /\ Base(w) = Base(v)
  BY DEF PullEvents, Base
<1>. HIDE DEF w, g
<1>6. g # <<>> /\ g[Len(g)].type = LastWord(w.status)
  BY <1>2, <1>3, <1>5
<1>7. \A i \in 1..(Len(g) - 1) : g[i].type = "MatchmakingSearching"
  BY <1>2, <1>3, <1>4
<1>8. ASSUME NEW i \in DOMAIN g, g[i].type = "MatchmakingSearching" PROVE g[i].teams = {Base(w)}
  <2>1. CASE i \in 1..Len(f)
    BY <1>2, <1>4, <1>5, <2>1
  <2>2. CASE i = Len(f) + 1
    BY <1>2, <1>5, <1>8, <2>2
  <2>. QED
    BY <1>2, <1>3, <2>1, <2>2
<1>9. Told(w, g)
  BY <1>5, <1>6, <1>7, <1>8 DEF Told
<1>. QED
  BY <1>9 DEF w, g

-----------------------------------------------------------------------------
(* The transitions carry a ticket and its feed on. *)

LEMMA FirstEvent ==
  ASSUME NEW event
  PROVE  Append(<<>>, event) = <<event>>
OBVIOUS

LEMMA NoEvents ==
  ASSUME NEW f \in Seq(Detail(TicketEvents)), NEW v, v.events = <<>>
  PROVE  f \o Out(v) = f
<1>1. Out(v) = <<>>
  BY DEF Out
<1>. QED
  BY <1>1

\* A ticket enters the pool.
LEMMA EnteredTicket ==
  ASSUME NEW b \in BOOLEAN, NEW session \in Sessions \cup {NoSession}
  PROVE  Good(PullEvents(newTicket(b, session)), <<>> \o Out(newTicket(b, session)))
<1>. DEFINE v == newTicket(b, session)
<1>1. /\ v.events = <<"MatchmakingSearching">> /\ v.status = "QUEUED" /\ v.teams = Base(v)
      /\ v.matchID = NoMatch /\ v.acceptances = Undecided
  BY DEF newTicket, Base
<1>2. Clean(PullEvents(v))
  BY DEF newTicket, PullEvents, Clean, Base, InPool
<1>. HIDE DEF v
<1>3. LastWord(v.status) = "MatchmakingSearching"
  BY <1>1 DEF LastWord
<1>4. <<>> \in Seq(Detail(TicketEvents)) /\ Searched(<<>>, Base(v))
  BY DEF Searched
<1>5. Told(PullEvents(v), <<>> \o Out(v))
  BY <1>1, <1>3, <1>4, OneMoreEvent
<1>. QED
  BY <1>2, <1>5 DEF Good, v

\* An active ticket is cancelled.
LEMMA CancelledCarries ==
  ASSUME NEW x \in Ticket, NEW f \in Seq(Detail(TicketEvents)),
         x.status \in InPool \cup {"REQUIRES_ACCEPTANCE"},
         NEW message \in {"stopped by client", "superseded", "not accepted"}
  PROVE  LET v == MarkCancelled(x, message)
         IN  Carries(x, f, PullEvents(v), f \o Out(v))
<1>. DEFINE v == MarkCancelled(x, message)
            w == PullEvents(v)
<1>1. v = [x EXCEPT !.status = "CANCELLED", !.reason = "Cancelled", !.message = message,
                    !.events = Append(x.events, "MatchmakingCancelled")]
  BY DEF MarkCancelled, canTransitionTo, allowedTransitions, InPool
<1>2. /\ w.status = "CANCELLED" /\ w.cancelByAPI = x.cancelByAPI /\ ~IsTerminal(x.status)
      /\ LastWord(x.status) = "MatchmakingSearching"
      /\ v.status = "CANCELLED" /\ LastWord(v.status) = "MatchmakingCancelled" /\ Base(v) = Base(x)
  BY <1>1 DEF PullEvents, Ticket, IsTerminal, Terminal, InPool, LastWord, Base
<1>3. v.events = Append(x.events, "MatchmakingCancelled")
  BY <1>1 DEF Ticket
<1>. HIDE DEF v
<1>4. ASSUME Good(x, f) PROVE Good(w, f \o Out(v))
  <2>1. x.events = <<>> /\ Told(x, f)
    BY <1>4 DEF Good, Told
  <2>2. Searched(f, Base(v)) /\ v.events = <<LastWord(v.status)>>
    <3>1. Searched(f, Base(x))
      BY <1>2, <2>1, SearchedSoFar
    <3>2. v.events = <<"MatchmakingCancelled">>
      BY <1>3, <2>1, FirstEvent, Zenon
    <3>. QED
      BY <1>2, <3>1, <3>2, Zenon
  <2>3. Told(w, f \o Out(v))
    BY <1>2, <2>2, OneMoreEvent
  <2>. QED
    BY <1>2, <2>3 DEF Good, Clean, InPool
<1>5. Carries(x, f, w, f \o Out(v))
  BY <1>2, <1>4 DEF Carries
<1>. QED
  BY <1>5 DEF v

\* An active ticket times out.
LEMMA TimedOutCarries ==
  ASSUME NEW x \in Ticket, NEW f \in Seq(Detail(TicketEvents)),
         x.status \in InPool \cup {"REQUIRES_ACCEPTANCE"}
  PROVE  LET v == MarkTimedOut(x)
         IN  Carries(x, f, PullEvents(v), f \o Out(v))
<1>. DEFINE v == MarkTimedOut(x)
            w == PullEvents(v)
<1>1. v = [x EXCEPT !.status = "TIMED_OUT", !.reason = "TimedOut", !.message = "timed out",
                    !.events = Append(x.events, "MatchmakingTimedOut")]
  BY DEF MarkTimedOut, canTransitionTo, allowedTransitions, InPool
<1>2. /\ w.status = "TIMED_OUT" /\ w.cancelByAPI = x.cancelByAPI /\ ~IsTerminal(x.status)
      /\ LastWord(x.status) = "MatchmakingSearching"
      /\ v.status = "TIMED_OUT" /\ LastWord(v.status) = "MatchmakingTimedOut" /\ Base(v) = Base(x)
  BY <1>1 DEF PullEvents, Ticket, IsTerminal, Terminal, InPool, LastWord, Base
<1>3. v.events = Append(x.events, "MatchmakingTimedOut")
  BY <1>1 DEF Ticket
<1>. HIDE DEF v
<1>4. ASSUME Good(x, f) PROVE Good(w, f \o Out(v))
  <2>1. x.events = <<>> /\ Told(x, f)
    BY <1>4 DEF Good, Told
  <2>2. Searched(f, Base(v)) /\ v.events = <<LastWord(v.status)>>
    <3>1. Searched(f, Base(x))
      BY <1>2, <2>1, SearchedSoFar
    <3>2. v.events = <<"MatchmakingTimedOut">>
      BY <1>3, <2>1, FirstEvent, Zenon
    <3>. QED
      BY <1>2, <3>1, <3>2, Zenon
  <2>3. Told(w, f \o Out(v))
    BY <1>2, <2>2, OneMoreEvent
  <2>. QED
    BY <1>2, <2>3 DEF Good, Clean, InPool
<1>5. Carries(x, f, w, f \o Out(v))
  BY <1>2, <1>4 DEF Carries
<1>. QED
  BY <1>5 DEF v

\* A ticket goes back to the pool, with nothing left of its proposal.
LEMMA ReturnedCarries ==
  ASSUME NEW x \in Ticket, NEW f \in Seq(Detail(TicketEvents)), x.status = "REQUIRES_ACCEPTANCE"
  PROVE  LET v == ReturnToSearching(x, "ACCEPTANCE_FAILED")
         IN  Carries(x, f, PullEvents(v), f \o Out(v))
<1>. DEFINE v == ReturnToSearching(x, "ACCEPTANCE_FAILED")
            w == PullEvents(v)
<1>1. v = [x EXCEPT !.status = "SEARCHING", !.matchID = NoMatch, !.acceptances = Undecided,
                    !.teams = Base(x), !.reason = "ACCEPTANCE_FAILED", !.message = "",
                    !.events = Append(x.events, "MatchmakingSearching")]
  BY DEF ReturnToSearching, canTransitionTo, allowedTransitions, Base
<1>2. /\ w.cancelByAPI = x.cancelByAPI /\ ~IsTerminal(x.status)
      /\ LastWord(x.status) = "MatchmakingSearching"
      /\ v.status = "SEARCHING" /\ Base(v) = Base(x) /\ v.teams = Base(x)
      /\ v.matchID = NoMatch /\ v.acceptances = Undecided
      /\ v.events = Append(x.events, "MatchmakingSearching")
  BY <1>1 DEF PullEvents, Ticket, IsTerminal, Terminal, LastWord, Base
<1>3. Clean(w)
  BY <1>1 DEF PullEvents, Ticket, Clean, InPool, Base
<1>. HIDE DEF v
<1>4. ASSUME Good(x, f) PROVE Good(w, f \o Out(v))
  <2>1. x.events = <<>> /\ Told(x, f)
    BY <1>4 DEF Good, Told
  <2>2. Searched(f, Base(v)) /\ v.events = <<LastWord(v.status)>>
    BY <1>2, <2>1, SearchedSoFar DEF LastWord
  <2>3. Told(w, f \o Out(v))
    BY <1>2, <2>2, OneMoreEvent
  <2>. QED
    BY <1>3, <2>3 DEF Good
<1>5. Carries(x, f, w, f \o Out(v))
  BY <1>2, <1>4 DEF Carries
<1>. QED
  BY <1>5 DEF v

\* Only the engine's word SEARCHING is noted: nothing to publish.
LEMMA SearchingCarries ==
  ASSUME NEW x \in Ticket, NEW f \in Seq(Detail(TicketEvents)), x.status \in InPool
  PROVE  LET v == ObserveSearching(x)
         IN  Carries(x, f, PullEvents(v), f \o Out(v))
<1>. DEFINE v == ObserveSearching(x)
            w == PullEvents(v)
<1>1. /\ v.events = x.events /\ w.status = "SEARCHING" /\ w.cancelByAPI = x.cancelByAPI
      /\ Base(w) = Base(x) /\ w.events = <<>> /\ w.matchID = x.matchID
      /\ w.acceptances = x.acceptances /\ w.teams = x.teams /\ ~IsTerminal(x.status)
      /\ LastWord(w.status) = LastWord(x.status)
  BY DEF ObserveSearching, PullEvents, Ticket, Base, IsTerminal, Terminal, InPool, LastWord
<1>. HIDE DEF v, w
<1>2. ASSUME Good(x, f) PROVE Good(w, f \o Out(v))
  <2>1. f \o Out(v) = f
    BY <1>1, <1>2, NoEvents DEF Good, Told
  <2>2. Told(w, f)
    BY <1>1, <1>2 DEF Good, Told
  <2>3. Clean(w)
    BY <1>1, <1>2 DEF Good, Clean, InPool
  <2>. QED
    BY <2>1, <2>2, <2>3 DEF Good
<1>3. Carries(x, f, w, f \o Out(v))
  BY <1>1, <1>2 DEF Carries
<1>. QED
  BY <1>3 DEF v, w

\* A ticket that is published unchanged.
LEMMA SameCarries ==
  ASSUME NEW x \in Ticket, NEW f \in Seq(Detail(TicketEvents))
  PROVE  Carries(x, f, PullEvents(x), f \o Out(x))
<1>1. ASSUME Good(x, f) PROVE Good(PullEvents(x), f \o Out(x))
  <2>1. x.events = <<>>
    BY <1>1 DEF Good, Told
  <2>2. PullEvents(x) = x
    BY <2>1 DEF PullEvents, Ticket
  <2>3. f \o Out(x) = f
    BY <2>1, NoEvents
  <2>. QED
    BY <1>1, <2>2, <2>3
<1>. QED
  BY <1>1 DEF Carries, PullEvents, Ticket, Alike

\* Whatever the engine reports of an active ticket.
LEMMA ObservedCarries ==
  ASSUME NEW x \in Ticket, NEW f \in Seq(Detail(TicketEvents)), NEW curr,
         x.status \in InPool \cup {"REQUIRES_ACCEPTANCE"}
  PROVE  LET v == transitionFromEngine(x, curr)
         IN  Carries(x, f, PullEvents(v), f \o Out(v))
<1>1. CASE curr \in InPool /\ x.status = "REQUIRES_ACCEPTANCE"
  <2>1. transitionFromEngine(x, curr) = ReturnToSearching(x, "ACCEPTANCE_FAILED")
    BY <1>1 DEF transitionFromEngine, InPool, StatusReason
  <2>. QED
    BY <1>1, <2>1, ReturnedCarries
<1>2. CASE curr \in InPool /\ x.status # "REQUIRES_ACCEPTANCE"
  <2>1. transitionFromEngine(x, curr) = ObserveSearching(x)
    BY <1>2 DEF transitionFromEngine, InPool
  <2>. QED
    BY <1>2, <2>1, SearchingCarries
<1>3. CASE curr = "CANCELLED"
  <2>1. PICK message \in {"stopped by client", "superseded", "not accepted"} :
          transitionFromEngine(x, curr) = MarkCancelled(x, message)
    BY <1>3 DEF transitionFromEngine, InPool, MarkCancelledByAPI,
                MarkCancelledByAcceptanceFailure
  <2>. QED
    BY <2>1, CancelledCarries
<1>4. CASE curr = "TIMED_OUT"
  <2>1. transitionFromEngine(x, curr) = MarkTimedOut(x)
    BY <1>4 DEF transitionFromEngine, InPool
  <2>. QED
    BY <2>1, TimedOutCarries
<1>5. CASE curr \notin InPool \cup {"CANCELLED", "TIMED_OUT"}
  <2>1. transitionFromEngine(x, curr) = x
    BY <1>5 DEF transitionFromEngine, InPool
  <2>. QED
    BY <2>1, SameCarries
<1>. QED
  BY <1>1, <1>2, <1>3, <1>4, <1>5

\* A match takes the ticket, and gives it its teams.
LEMMA PlacedCarries ==
  ASSUME NEW x \in Ticket, NEW f, x.status \in InPool \cup {"REQUIRES_ACCEPTANCE"},
         NEW m \in MatchIDs
  PROVE  Carries(x, f, placing(x, m)[3], f)
<1>. DEFINE w == placing(x, m)[3]
<1>1. w = [x EXCEPT !.teams = m, !.status = "COMPLETED", !.matchID = m]
  <2>. DEFINE seated == [x EXCEPT !.teams = m]
              placed == [seated EXCEPT !.status = "PLACING", !.matchID = m]
              done == [placed EXCEPT !.status = "COMPLETED"]
  <2>1. seated = SetPlayerTeams(x, m) /\ seated.status = x.status
    BY DEF SetPlayerTeams, Ticket
  <2>2. canTransitionTo(x.status, "PLACING") /\ canTransitionTo("PLACING", "COMPLETED")
    BY DEF canTransitionTo, allowedTransitions, InPool
  <2>3. MoveToPlacing(seated, m) = placed /\ placed.status = "PLACING"
    BY <2>1, <2>2 DEF MoveToPlacing, Ticket
  <2>4. Complete(placed) = done
    BY <2>2, <2>3 DEF Complete
  <2>5. w = done
    <3>. HIDE DEF seated, placed, done
    <3>. QED
      BY <2>1, <2>3, <2>4 DEF placing
  <2>6. done = [x EXCEPT !.teams = m, !.status = "COMPLETED", !.matchID = m]
    BY DEF Ticket
  <2>. QED
    BY <2>5, <2>6
<1>2. /\ w.status = "COMPLETED" /\ w.matchID = m /\ w.teams = m /\ w.events = x.events
      /\ w.cancelByAPI = x.cancelByAPI /\ Base(w) = Base(x) /\ ~IsTerminal(x.status)
      /\ LastWord(w.status) = LastWord(x.status)
  BY <1>1 DEF Ticket, Base, IsTerminal, Terminal, InPool, LastWord
<1>. HIDE DEF w
<1>3. ASSUME Good(x, f) PROVE Good(w, f)
  <2>1. Told(w, f)
    BY <1>2, <1>3 DEF Good, Told
  <2>2. Clean(w)
    BY <1>2 DEF Clean, InPool
  <2>. QED
    BY <2>1, <2>2 DEF Good
<1>4. Carries(x, f, w, f)
  BY <1>2, <1>3 DEF Carries
<1>. QED
  BY <1>4 DEF w

\* A proposal takes the ticket, and gives it its teams.
LEMMA ProposedCarries ==
  ASSUME NEW x \in Ticket, NEW f, x.status \in InPool, NEW m \in MatchIDs
  PROVE  Carries(x, f, proposing(x, m)[2], f)
<1>. DEFINE w == proposing(x, m)[2]
<1>1. w = [x EXCEPT !.status = "REQUIRES_ACCEPTANCE", !.matchID = m, !.reason = "", !.teams = m]
  <2>. DEFINE assigned == [x EXCEPT !.status = "REQUIRES_ACCEPTANCE", !.matchID = m, !.reason = ""]
  <2>1. canTransitionTo(x.status, "REQUIRES_ACCEPTANCE")
    BY DEF canTransitionTo, allowedTransitions, InPool
  <2>2. assigned = AssignToProposal(x, m)
    BY <2>1 DEF AssignToProposal
  <2>3. w = SetPlayerTeams(assigned, m)
    <3>. HIDE DEF assigned
    <3>. QED
      BY <2>2 DEF proposing
  <2>. QED
    BY <2>3 DEF SetPlayerTeams
<1>2. /\ w.status = "REQUIRES_ACCEPTANCE" /\ w.matchID = m /\ w.teams = m /\ w.events = x.events
      /\ w.reason = "" /\ w.cancelByAPI = x.cancelByAPI /\ Base(w) = Base(x) /\ ~IsTerminal(x.status)
      /\ LastWord(w.status) = LastWord(x.status)
  BY <1>1 DEF Ticket, Base, IsTerminal, Terminal, InPool, LastWord
<1>. HIDE DEF w
<1>3. ASSUME Good(x, f) PROVE Good(w, f)
  <2>1. Told(w, f)
    BY <1>2, <1>3 DEF Good, Told
  <2>2. Clean(w)
    BY <1>2 DEF Clean, InPool
  <2>. QED
    BY <2>1, <2>2 DEF Good
<1>4. Carries(x, f, w, f)
  BY <1>2, <1>3 DEF Carries
<1>. QED
  BY <1>4 DEF w

-----------------------------------------------------------------------------
(* What each method publishes of a ticket *)

HasFeed(s) == {"feed", "matchFeed", "tickets", "tk", "active", "matchIDs", "byMatch", "createdAt"} = DOMAIN s

Mute(s, u) == HasFeed(u) /\ u.feed = s.feed

LEMMA ServiceHasFeed ==
  ASSUME NEW s \in Service
  PROVE  HasFeed(s)
BY DEF Service, HasFeed

LEMMA SaveMute == ASSUME NEW s, HasFeed(s), NEW S PROVE Mute(s, SaveTicket(s, S))
BY DEF Mute, HasFeed, SaveTicket

LEMMA ForgetMute == ASSUME NEW s, HasFeed(s), NEW M PROVE Mute(s, forget(s, M))
BY DEF Mute, HasFeed, forget

LEMMA AssignMute ==
  ASSUME NEW s, HasFeed(s), NEW ids, NEW times
  PROVE  Mute(s, assignAt(s, ids, times))
BY DEF Mute, HasFeed, assignAt

LEMMA AnnounceMute ==
  ASSUME NEW s, HasFeed(s), NEW M, NEW event
  PROVE  Mute(s, Announce(s, M, event))
BY DEF Mute, HasFeed, Announce

LEMMA SetMute == ASSUME NEW s, HasFeed(s), NEW tk PROVE Mute(s, [s EXCEPT !.tk = tk])
BY DEF Mute, HasFeed

\* The tickets S hand over the events of tk.
Tells(s, u, S, tk(_)) ==
  \A t \in Tickets : u.feed[t] = IF t \in S THEN s.feed[t] \o Out(tk(t)) ELSE s.feed[t]

LEMMA AddTicketTells ==
  ASSUME NEW s \in Service, NEW S \in SUBSET s.tickets
  PROVE  LET u == addTicket(s, S)
         IN  HasFeed(u) /\ Tells(s, u, S, LAMBDA t : s.tk[t])
<1>. DEFINE u == addTicket(s, S)
<1>1. ASSUME NEW t \in S PROVE snapshot(s, {t}) = {s.tk[t].teams}
  BY <1>1 DEF snapshot
<1>2. HasFeed(s)
  BY ServiceHasFeed
<1>3. HasFeed(u)
  BY <1>2 DEF addTicket, HasFeed
<1>4. u.feed = [t \in Tickets |->
                  IF t \notin S THEN s.feed[t]
                  ELSE s.feed[t] \o [i \in DOMAIN s.tk[t].events |->
                                       buildDetail(s.tk[t].events[i], snapshot(s, {t}))]]
  BY <1>2 DEF addTicket, HasFeed
<1>. HIDE DEF u
<1>5. ASSUME NEW t \in S
      PROVE  [i \in DOMAIN s.tk[t].events |-> buildDetail(s.tk[t].events[i], snapshot(s, {t}))]
               = Out(s.tk[t])
  BY <1>1, <1>5 DEF Out, buildDetail
<1>6. Tells(s, u, S, LAMBDA t : s.tk[t])
  BY <1>4, <1>5 DEF Tells
<1>. QED
  BY <1>3, <1>6 DEF u

LEMMA MoveAndTell ==
  ASSUME NEW s \in Service, NEW S \in SUBSET s.tickets, NEW tk \in [Tickets -> Ticket]
  PROVE  LET u == addTicket(SaveTicket([s EXCEPT !.tk = tk], S), S)
         IN  HasFeed(u) /\ Tells(s, u, S, LAMBDA t : tk[t])
<1>. DEFINE v == [s EXCEPT !.tk = tk]
            w == SaveTicket(v, S)
            u == addTicket(w, S)
<1>0. S \in SUBSET Tickets
  BY ServiceFields
<1>1. /\ v \in Service /\ v.tk = tk /\ v.tickets = s.tickets /\ Mute(s, v)
  BY SetTickets, SetMute, ServiceHasFeed
<1>. HIDE DEF v
<1>2. /\ w \in Service /\ w.tk = tk /\ w.tickets = s.tickets
  BY <1>0, <1>1, SaveTicketEffect
<1>3. Mute(v, w)
  BY <1>1, SaveMute, ServiceHasFeed
<1>. HIDE DEF w
<1>4. HasFeed(u) /\ Tells(w, u, S, LAMBDA t : w.tk[t])
  BY <1>2, AddTicketTells
<1>. HIDE DEF u
<1>5. Tells(s, u, S, LAMBDA t : tk[t])
  BY <1>1, <1>2, <1>3, <1>4 DEF Tells, Mute
<1>. QED
  BY <1>4, <1>5 DEF u, w, v

LEMMA SettleTells ==
  ASSUME NEW s \in Service, NEW e, NEW matches, NEW after
  PROVE  LET u == settleOldProposals(s, e, matches, after)
             gone == SettledProposals(s, matches, after)
         IN  Tells(s, u, Leaving(s, e, gone), LAMBDA t : Released(s, e, t))
<1>. DEFINE gone == SettledProposals(s, matches, after)
            told == {m \in gone : ~CancelledByAPI(s, m)}
            v == completeAcceptance(s, told)
            left == Leaving(v, e, gone)
            tk == [t \in Tickets |-> IF t \notin left THEN v.tk[t] ELSE Released(v, e, t)]
            w == addTicket(SaveTicket([v EXCEPT !.tk = tk], left), left)
            u == forget(w, gone)
<1>1. gone \in SUBSET MatchIDs /\ told \in SUBSET MatchIDs
  BY DEF SettledProposals
<1>2. u = settleOldProposals(s, e, matches, after)
  BY DEF settleOldProposals, releaseTickets, Leaving, Released
<1>. HIDE DEF gone, told
<1>3. v \in Service /\ KeepsTickets(s, v) /\ KeepsTracker(s, v)
  BY <1>1, CompleteAcceptanceEffect
<1>4. Mute(s, v)
  BY ServiceHasFeed, AnnounceMute DEF completeAcceptance, Mute
<1>. HIDE DEF v
<1>5. left = Leaving(s, e, gone) /\ \A t : Released(v, e, t) = Released(s, e, t)
  BY <1>3 DEF Leaving, Released, KeepsTickets, KeepsTracker
<1>6. left \in SUBSET v.tickets /\ left \in SUBSET Tickets
  BY <1>3, ServiceFields DEF Leaving
<1>7. tk \in [Tickets -> Ticket]
  BY <1>3, ServiceFields, ReturnedTicket, ObservedTicket DEF Released
<1>8. \A t \in Tickets : t \in left => tk[t] = Released(s, e, t)
  BY <1>5
<1>. HIDE DEF left, tk
<1>9. HasFeed(w) /\ Tells(v, w, left, LAMBDA t : tk[t])
  BY <1>3, <1>6, <1>7, MoveAndTell
<1>. HIDE DEF w
<1>10. Mute(w, u)
  BY <1>9, ForgetMute
<1>. HIDE DEF u
<1>11. Tells(s, u, left, LAMBDA t : Released(s, e, t))
  BY <1>4, <1>8, <1>9, <1>10 DEF Tells, Mute
<1>. QED
  BY <1>2, <1>5, <1>11 DEF gone

LEMMA FinalizeMute ==
  ASSUME NEW s \in Service, NEW matches, NEW fresh
  PROVE  finalizeMatches(s, matches, fresh).feed = s.feed
<1>. DEFINE direct == {r \in matches : s.matchIDs[r] = NoMatch}
            known == assignAt(s, [r \in direct |-> fresh[r]], [r \in direct |-> NoTime])
            placed == s.tickets \cap UNION matches
            accepted == {r \in matches : /\ AcceptanceRequired
                                         /\ \E t \in r \cap s.tickets :
                                              s.tk[t].status = "REQUIRES_ACCEPTANCE"}
            tk == [t \in Tickets |-> IF t \notin placed THEN s.tk[t]
                    ELSE placing(s.tk[t], known.matchIDs[RosterOf(t, matches)])[3]]
            Of(rosters) == {known.matchIDs[r] : r \in rosters}
            moved == [known EXCEPT !.tk = tk]
            saved == SaveTicket(moved, placed)
            told1 == Announce(saved, Of(direct), "PotentialMatchCreated")
            told2 == Announce(told1, Of(accepted), "Accepted")
            told3 == Announce(told2, Of(matches), "MatchmakingSucceeded")
            u == forget(told3, Of(matches))
<1>1. u = finalizeMatches(s, matches, fresh)
  BY DEF finalizeMatches
<1>. HIDE DEF direct, placed, accepted, Of, tk
<1>2. Mute(s, known)
  BY ServiceHasFeed, AssignMute
<1>. HIDE DEF known
<1>3. Mute(known, moved)
  BY <1>2, SetMute DEF Mute
<1>. HIDE DEF moved
<1>4. Mute(moved, saved)
  BY <1>3, SaveMute DEF Mute
<1>. HIDE DEF saved
<1>5. Mute(saved, told1)
  BY <1>4, AnnounceMute DEF Mute
<1>. HIDE DEF told1
<1>6. Mute(told1, told2)
  BY <1>5, AnnounceMute DEF Mute
<1>. HIDE DEF told2
<1>7. Mute(told2, told3)
  BY <1>6, AnnounceMute DEF Mute
<1>. HIDE DEF told3
<1>8. Mute(told3, u)
  BY <1>7, ForgetMute DEF Mute
<1>. HIDE DEF u
<1>. QED
  BY <1>1, <1>2, <1>3, <1>4, <1>5, <1>6, <1>7, <1>8 DEF Mute

LEMMA ProposeMute ==
  ASSUME NEW s \in Service, NEW after, NEW fresh
  PROVE  applyNewProposals(s, after, fresh).feed = s.feed
<1>. DEFINE new == NewProposals(s, after)
            tracked == assignAt(s, [r \in new |-> fresh[r]], [r \in new |-> CreatedAt(r, after)])
            proposed == s.tickets \cap UNION new
            tk == [t \in Tickets |-> IF t \notin proposed THEN s.tk[t]
                    ELSE proposing(s.tk[t], fresh[RosterOf(t, new)])[2]]
            moved == [tracked EXCEPT !.tk = tk]
            saved == SaveTicket(moved, proposed)
            M == {fresh[r] : r \in new}
            u == Announce(saved, M, "PotentialMatchCreated")
<1>1. u = applyNewProposals(s, after, fresh)
  BY DEF applyNewProposals
<1>. HIDE DEF new, proposed, tk, M
<1>2. Mute(s, tracked)
  BY ServiceHasFeed, AssignMute
<1>. HIDE DEF tracked
<1>3. Mute(tracked, moved)
  BY <1>2, SetMute DEF Mute
<1>. HIDE DEF moved
<1>4. Mute(moved, saved)
  BY <1>3, SaveMute DEF Mute
<1>. HIDE DEF saved
<1>5. Mute(saved, u)
  BY <1>4, AnnounceMute DEF Mute
<1>. HIDE DEF u
<1>. QED
  BY <1>1, <1>2, <1>3, <1>4, <1>5 DEF Mute

LEMMA SyncTells ==
  ASSUME NEW s \in Service, NEW e, s.active \subseteq s.tickets
  PROVE  LET u == syncActiveTickets(s, e)
         IN  Tells(s, u, Behind(s, e), LAMBDA t : transitionFromEngine(s.tk[t], e[t].status))
<1>. DEFINE behind == Behind(s, e)
            late == {s.tk[t].matchID :
                       t \in {t \in behind : /\ s.tk[t].status = "REQUIRES_ACCEPTANCE"
                                             /\ e[t].status = "CANCELLED"
                                             /\ ~s.tk[t].cancelByAPI}} \ {NoMatch}
            rejected == {m \in late : acceptanceFailureOutcome(s, m) = "Rejected"}
            tk == [t \in Tickets |-> IF t \in behind THEN transitionFromEngine(s.tk[t], e[t].status)
                                     ELSE s.tk[t]]
            saved == addTicket(SaveTicket([s EXCEPT !.tk = tk], behind), behind)
            told1 == Announce(saved, rejected, "Rejected")
            told2 == Announce(told1, late \ rejected, "TimedOut")
            u == forget(told2, late)
<1>1. u = syncActiveTickets(s, e)
  BY DEF syncActiveTickets, Behind
<1>. HIDE DEF late, rejected
<1>2. behind \in SUBSET s.tickets /\ behind \in SUBSET Tickets
  BY ServiceFields DEF Behind
<1>3. /\ tk \in [Tickets -> Ticket]
      /\ \A t \in Tickets : t \in behind => tk[t] = transitionFromEngine(s.tk[t], e[t].status)
  BY ServiceFields, ObservedTicket
<1>. HIDE DEF behind, tk
<1>4. HasFeed(saved) /\ Tells(s, saved, behind, LAMBDA t : tk[t])
  BY <1>2, <1>3, MoveAndTell
<1>. HIDE DEF saved
<1>5. Mute(saved, told1)
  BY <1>4, AnnounceMute
<1>. HIDE DEF told1
<1>6. Mute(told1, told2)
  BY <1>5, AnnounceMute DEF Mute
<1>. HIDE DEF told2
<1>7. Mute(told2, u)
  BY <1>6, ForgetMute DEF Mute
<1>. HIDE DEF u
<1>8. Tells(s, u, behind, LAMBDA t : transitionFromEngine(s.tk[t], e[t].status))
  BY <1>3, <1>4, <1>5, <1>6, <1>7 DEF Tells, Mute
<1>. QED
  BY <1>1, <1>8 DEF behind

-----------------------------------------------------------------------------
(* The phases of a tick carry every ticket on *)

PhaseCarries(s, u) ==
  \A t \in s.tickets : Carries(s.tk[t], s.feed[t], u.tk[t], u.feed[t])

LEMMA SettlesCarry ==
  ASSUME IInv, NEW e, NEW matches, NEW after
  PROVE  PhaseCarries(svc, settleOldProposals(svc, e, matches, after))
<1>. DEFINE u == settleOldProposals(svc, e, matches, after)
            gone == SettledProposals(svc, matches, after)
            S == Leaving(svc, e, gone)
            Rel(t) == Released(svc, e, t)
<1>1. svc \in Service /\ svc.tickets \subseteq Tickets
  BY ServiceFields DEF IInv, TypeOK
<1>2. \A t \in Tickets : u.tk[t] = IF t \in S THEN PullEvents(Rel(t)) ELSE svc.tk[t]
  BY <1>1, SettleEffect DEF Moves
<1>3. \A t \in Tickets : u.feed[t] = IF t \in S THEN svc.feed[t] \o Out(Rel(t)) ELSE svc.feed[t]
  BY <1>1, SettleTells DEF Tells
<1>4. \A t \in S : svc.tk[t].status = "REQUIRES_ACCEPTANCE"
  BY DEF Leaving
<1>. HIDE DEF u, S
<1>5. ASSUME NEW t \in svc.tickets
      PROVE  Carries(svc.tk[t], svc.feed[t], u.tk[t], u.feed[t])
  <2>1. t \in Tickets /\ svc.tk[t] \in Ticket /\ svc.feed[t] \in Seq(Detail(TicketEvents))
    BY <1>1, ServiceFields
  <2>2. CASE t \in S
    <3>1. CASE e[t].status = "REQUIRES_ACCEPTANCE"
      <4>1. Rel(t) = ReturnToSearching(svc.tk[t], "ACCEPTANCE_FAILED")
        BY <3>1 DEF Released
      <4>. HIDE DEF Rel
      <4>. QED
        BY <1>2, <1>3, <1>4, <2>1, <2>2, <4>1, ReturnedCarries
    <3>2. CASE e[t].status # "REQUIRES_ACCEPTANCE"
      <4>1. Rel(t) = transitionFromEngine(svc.tk[t], e[t].status)
        BY <3>2 DEF Released
      <4>. HIDE DEF Rel
      <4>. QED
        BY <1>2, <1>3, <1>4, <2>1, <2>2, <4>1, ObservedCarries
    <3>. QED
      BY <3>1, <3>2
  <2>3. CASE t \notin S
    BY <1>2, <1>3, <2>1, <2>3, CarriesItself
  <2>. QED
    BY <2>2, <2>3
<1>. QED
  BY <1>5 DEF u, PhaseCarries

LEMMA FinalizesCarry ==
  ASSUME NEW s \in Service, Paired(s), NEW matches \in SUBSET Rosters,
         NEW D, NEW fresh, Names(fresh, D, s),
         \A r \in matches : s.matchIDs[r] = NoMatch => r \in D,
         \A t \in s.tickets \cap UNION matches : s.tk[t].status \in InPool \cup {"REQUIRES_ACCEPTANCE"}
  PROVE  PhaseCarries(s, finalizeMatches(s, matches, fresh))
<1>. DEFINE u == finalizeMatches(s, matches, fresh)
            S == s.tickets \cap UNION matches
            Id(t) == MatchOf(s, fresh, RosterOf(t, matches))
            Placed(t) == placing(s.tk[t], MatchOf(s, fresh, RosterOf(t, matches)))[3]
<1>1. /\ \A t \in Tickets : u.tk[t] = IF t \in S THEN Placed(t) ELSE s.tk[t]
      /\ \A t \in S : Id(t) \in MatchIDs
  <2>1. /\ Moves(s, u, S, Placed)
        /\ \A t \in S : MatchOf(s, fresh, RosterOf(t, matches)) \in MatchIDs
        /\ Drops(s, u, matches)
    BY FinalizeEffect
  <2>. HIDE DEF u
  <2>. QED
    BY <2>1 DEF Moves
<1>2. u.feed = s.feed
  BY FinalizeMute
<1>. HIDE DEF u
<1>3. ASSUME NEW t \in s.tickets PROVE Carries(s.tk[t], s.feed[t], u.tk[t], u.feed[t])
  <2>1. t \in Tickets /\ s.tk[t] \in Ticket
    BY ServiceFields
  <2>2. CASE t \in S
    <3>1. Carries(s.tk[t], s.feed[t], placing(s.tk[t], Id(t))[3], s.feed[t])
      <4>1. s.tk[t].status \in InPool \cup {"REQUIRES_ACCEPTANCE"} /\ Id(t) \in MatchIDs
        BY <1>1, <2>2
      <4>. HIDE DEF Id
      <4>. QED
        BY <2>1, <4>1, PlacedCarries
    <3>2. u.tk[t] = placing(s.tk[t], Id(t))[3] /\ u.feed[t] = s.feed[t]
      BY <1>1, <1>2, <2>1, <2>2
    <3>. QED
      BY <3>1, <3>2
  <2>3. CASE t \notin S
    BY <1>1, <1>2, <2>1, <2>3, CarriesItself
  <2>. QED
    BY <2>2, <2>3
<1>. QED
  BY <1>3 DEF u, PhaseCarries

LEMMA ProposesCarry ==
  ASSUME NEW s \in Service, NEW after \in SUBSET Proposal,
         \A p \in after : p.ids \in Rosters,
         NEW D, NEW fresh, Names(fresh, D, s), NewProposals(s, after) \subseteq D,
         Newcomers(s, after)
  PROVE  PhaseCarries(s, applyNewProposals(s, after, fresh))
<1>. DEFINE u == applyNewProposals(s, after, fresh)
            new == NewProposals(s, after)
            S == s.tickets \cap UNION new
            Id(t) == fresh[RosterOf(t, new)]
<1>1. \A t \in Tickets : u.tk[t] = IF t \in S THEN proposing(s.tk[t], Id(t))[2] ELSE s.tk[t]
  BY ProposeEffect DEF Moves
<1>2. u.feed = s.feed
  BY ProposeMute
<1>3. \A t \in S : s.tk[t].status \in InPool /\ Id(t) \in MatchIDs
  <2>1. \A t \in S : s.tk[t].status \in InPool
    BY DEF Newcomers
  <2>2. \A t \in S : RosterOf(t, new) \in new
    BY RosterOfTicket
  <2>. QED
    BY <2>1, <2>2 DEF Names
<1>. HIDE DEF u, Id, new
<1>4. ASSUME NEW t \in s.tickets PROVE Carries(s.tk[t], s.feed[t], u.tk[t], u.feed[t])
  <2>1. t \in Tickets /\ s.tk[t] \in Ticket
    BY ServiceFields
  <2>2. CASE t \in S
    BY <1>1, <1>2, <1>3, <2>1, <2>2, ProposedCarries
  <2>3. CASE t \notin S
    BY <1>1, <1>2, <2>1, <2>3, CarriesItself
  <2>. QED
    BY <2>2, <2>3
<1>. QED
  BY <1>4 DEF u, PhaseCarries

LEMMA SyncsCarry ==
  ASSUME NEW s \in Service, NEW f, s.active \subseteq s.tickets,
         \A t \in Behind(s, f) : s.tk[t].status \in InPool
  PROVE  PhaseCarries(s, syncActiveTickets(s, f))
<1>. DEFINE u == syncActiveTickets(s, f)
            S == Behind(s, f)
            Obs(t) == transitionFromEngine(s.tk[t], f[t].status)
<1>1. \A t \in Tickets : u.tk[t] = IF t \in S THEN PullEvents(Obs(t)) ELSE s.tk[t]
  <2>1. \A t \in Behind(s, f) : s.tk[t].status # "REQUIRES_ACCEPTANCE"
    BY DEF InPool
  <2>. QED
    BY <2>1, SyncEffect DEF Moves
<1>2. \A t \in Tickets : u.feed[t] = IF t \in S THEN s.feed[t] \o Out(Obs(t)) ELSE s.feed[t]
  BY SyncTells DEF Tells
<1>. HIDE DEF u
<1>3. ASSUME NEW t \in s.tickets PROVE Carries(s.tk[t], s.feed[t], u.tk[t], u.feed[t])
  <2>1. t \in Tickets /\ s.tk[t] \in Ticket /\ s.feed[t] \in Seq(Detail(TicketEvents))
    BY ServiceFields
  <2>2. CASE t \in S
    BY <1>1, <1>2, <2>1, <2>2, ObservedCarries
  <2>3. CASE t \notin S
    BY <1>1, <1>2, <2>1, <2>3, CarriesItself
  <2>. QED
    BY <2>2, <2>3
<1>. QED
  BY <1>3 DEF u, PhaseCarries

\* What a tick makes of the tickets it leaves.
TickCarries ==
  /\ svc'.tickets \subseteq svc.tickets
  /\ \A t \in svc.tickets \ svc'.tickets : IsTerminal(svc.tk[t].status)
  /\ \A t \in svc'.tickets :
       /\ Carries(svc.tk[t], svc.feed[t], svc'.tk[t], svc'.feed[t])
       /\ eng[t].status = "CANCELLED" => svc'.tk[t].status = "CANCELLED"

LEMMA EvictCarries ==
  ASSUME NEW s \in Service, NEW expired \in SUBSET Tickets
  PROVE  LET u == evictExpiredTickets(s, expired)
         IN  /\ u.tickets = s.tickets \ expired
             /\ \A t \in u.tickets : u.tk[t] = s.tk[t] /\ u.feed[t] = s.feed[t]
<1>1. s.tickets \in SUBSET Tickets /\ HasFeed(s)
  BY ServiceFields, ServiceHasFeed
<1>. QED
  BY <1>1 DEF evictExpiredTickets, HasFeed

\* The phases one after the other.
LEMMA PhasesCarry ==
  ASSUME IInv, NEW s1, NEW s2, NEW s3, NEW s4 \in Service, NEW expired \in SUBSET Finished,
         PhaseCarries(svc, s1), PhaseCarries(s1, s2), PhaseCarries(s2, s3), PhaseCarries(s3, s4),
         s1.tickets = svc.tickets, s2.tickets = svc.tickets, s3.tickets = svc.tickets,
         s4.tickets = svc.tickets, NEW f,
         \A t \in s4.tickets : Agreed(s4.tk[t].status, f[t].status),
         \A t \in Tickets : eng[t].status = "CANCELLED" => f[t].status = "CANCELLED",
         svc' = evictExpiredTickets(s4, expired)
  PROVE  TickCarries
<1>1. /\ svc'.tickets = svc.tickets \ expired
      /\ \A t \in svc'.tickets : svc'.tk[t] = s4.tk[t] /\ svc'.feed[t] = s4.feed[t]
  <2>1. expired \in SUBSET Tickets
    BY ServiceFields DEF Finished, IInv, TypeOK
  <2>. QED
    BY <2>1, EvictCarries
<1>2. ASSUME NEW t \in svc.tickets
      PROVE  Carries(svc.tk[t], svc.feed[t], s4.tk[t], s4.feed[t])
  <2>1. /\ Carries(svc.tk[t], svc.feed[t], s1.tk[t], s1.feed[t])
        /\ Carries(s1.tk[t], s1.feed[t], s2.tk[t], s2.feed[t])
        /\ Carries(s2.tk[t], s2.feed[t], s3.tk[t], s3.feed[t])
        /\ Carries(s3.tk[t], s3.feed[t], s4.tk[t], s4.feed[t])
    BY DEF PhaseCarries
  <2>2. Carries(svc.tk[t], svc.feed[t], s2.tk[t], s2.feed[t])
    BY <2>1, CarriesOn, Zenon
  <2>3. Carries(svc.tk[t], svc.feed[t], s3.tk[t], s3.feed[t])
    BY <2>1, <2>2, CarriesOn, Zenon
  <2>. QED
    BY <2>1, <2>3, CarriesOn, Zenon
<1>3. svc.tickets \subseteq Tickets
  BY ServiceFields DEF IInv, TypeOK
<1>4. \A t \in svc.tickets : eng[t].status = "CANCELLED" => s4.tk[t].status = "CANCELLED"
  BY <1>3 DEF Agreed, IsTerminal, Terminal
<1>5. \A t \in expired : IsTerminal(svc.tk[t].status)
  BY DEF Finished
<1>. QED
  BY <1>1, <1>2, <1>4, <1>5 DEF TickCarries

\* The four phases of a tick.
LEMMA TickRunPhases ==
  ASSUME IInv, NEW e, NEW matches, NEW left, NEW now, NEW late, NEW after, NEW f, NEW D, NEW fresh,
         NEW used, NEW expired, NEW s1, NEW s2, NEW s3, NEW s4,
         TickRun(e, matches, left, now, late, after, f, D, fresh, used, expired, s1, s2, s3, s4)
  PROVE  /\ PhaseCarries(svc, s1) /\ PhaseCarries(s1, s2)
         /\ PhaseCarries(s2, s3) /\ PhaseCarries(s3, s4)
<1>1. /\ Ticked(e, matches, left, now) /\ after \in SUBSET left
      /\ \A t \in Tickets :
           f[t].status = IF e[t].status = "PLACING" THEN "COMPLETED" ELSE e[t].status
  BY DEF TickRun
<1>2. PhaseCarries(svc, s1)
  BY SettlesCarry DEF TickRun
<1>3. PhaseCarries(s1, s2)
  <2>1. /\ s1 \in Service /\ Paired(s1) /\ matches \in SUBSET Rosters /\ Names(fresh, D, s1)
        /\ s2 = finalizeMatches(s1, matches, fresh)
        /\ \A r \in matches : s1.matchIDs[r] = NoMatch => r \in D
    BY DEF TickRun, Between, Tracker, Ticked
  <2>2. ASSUME NEW t \in s1.tickets \cap UNION matches
        PROVE  s1.tk[t].status \in InPool \cup {"REQUIRES_ACCEPTANCE"}
    <3>1. Between(s1, e, usedIDs)
      BY DEF TickRun
    <3>2. t \in Tickets /\ Fate(s1.tk[t].status, e[t].status)
      BY <3>1, ServiceFields DEF Between
    <3>. QED
      BY <1>1, <2>2, <3>2 DEF Ticked, Fate
  <2>. QED
    BY <2>1, <2>2, FinalizesCarry
<1>4. PhaseCarries(s2, s3)
  <2>1. /\ s2 \in Service /\ Names(fresh, D, s2) /\ NewProposals(s2, after) \subseteq D
        /\ Newcomers(s2, after) /\ s3 = applyNewProposals(s2, after, fresh)
    BY DEF TickRun, Between
  <2>2. after \in SUBSET Proposal /\ \A p \in after : p.ids \in Rosters
    BY <1>1 DEF Ticked
  <2>. QED
    BY <2>1, <2>2, ProposesCarry
<1>5. PhaseCarries(s3, s4)
  <2>1. /\ Between(s3, f, used) /\ s4 = syncActiveTickets(s3, f)
        /\ \A t \in Tickets : \A p \in after : t \in p.ids => f[t].status = "REQUIRES_ACCEPTANCE"
        /\ \A m \in MatchIDs : s3.byMatch[m] # {} => Reports(s3, after, m)
    BY DEF TickRun
  <2>2. \A t \in Tickets : f[t].status # "PLACING"
    BY <1>1
  <2>3. s3 \in Service /\ s3.active \subseteq s3.tickets
    BY <2>1 DEF Between, Index
  <2>4. \A t \in Behind(s3, f) : s3.tk[t].status \in InPool
    BY <2>1, <2>2, BehindInPool
  <2>. QED
    BY <2>1, <2>3, <2>4, SyncsCarry
<1>. QED
  BY <1>2, <1>3, <1>4, <1>5

LEMMA TickRunCarries ==
  ASSUME IInv, NEW e, NEW matches, NEW left, NEW now, NEW late, NEW after, NEW f, NEW D, NEW fresh,
         NEW used, NEW expired, NEW s1, NEW s2, NEW s3, NEW s4,
         TickRun(e, matches, left, now, late, after, f, D, fresh, used, expired, s1, s2, s3, s4)
  PROVE  TickCarries
<1>1. /\ Ticked(e, matches, left, now) /\ expired \in SUBSET Finished
      /\ \A t \in Tickets :
           f[t].status = IF e[t].status = "PLACING" THEN "COMPLETED" ELSE e[t].status
  BY DEF TickRun
<1>2. /\ PhaseCarries(svc, s1) /\ PhaseCarries(s1, s2)
      /\ PhaseCarries(s2, s3) /\ PhaseCarries(s3, s4)
  BY TickRunPhases
<1>3. \A t \in Tickets : eng[t].status = "CANCELLED" => f[t].status = "CANCELLED"
  BY <1>1 DEF Ticked, InPool
<1>4. /\ s4 \in Service /\ s1.tickets = svc.tickets /\ s2.tickets = svc.tickets
      /\ s3.tickets = svc.tickets /\ s4.tickets = svc.tickets
  BY DEF TickRun, Between
<1>5. /\ \A t \in s4.tickets : Agreed(s4.tk[t].status, f[t].status)
      /\ svc' = evictExpiredTickets(s4, expired)
  BY DEF TickRun
<1>. QED
  BY <1>1, <1>2, <1>3, <1>4, <1>5, PhasesCarry

-----------------------------------------------------------------------------
(* What the commands make of every ticket *)

\* A ticket StopMatchmaking has returned for, which the service still lists as
\* active, is cancelled in the engine.
Stopped == \A t \in svc.active : svc.tk[t].cancelByAPI => eng[t].status = "CANCELLED"

GoesOn ==
  /\ \A t \in svc.tickets \cap svc'.tickets :
       LET x == svc.tk[t]
           y == svc'.tk[t]
       IN  /\ Good(x, svc.feed[t]) => Good(y, svc'.feed[t])
           /\ IsTerminal(x.status) => Alike(x, y)
           /\ ~IsTerminal(x.status) /\ x.cancelByAPI => y.status \in {x.status, "CANCELLED"}
  /\ \A t \in svc'.tickets \ svc.tickets : Good(svc'.tk[t], svc'.feed[t])
  /\ \A t \in svc.tickets \ svc'.tickets : IsTerminal(svc.tk[t].status)
  /\ Stopped'

LEMMA QuietGoesOn ==
  ASSUME IInv, Stopped, Quiet(svc, svc'),
         \A t \in svc.tickets : /\ Good(svc.tk[t], svc.feed[t]) => Good(svc'.tk[t], svc'.feed[t])
                                /\ IsTerminal(svc.tk[t].status) => Alike(svc.tk[t], svc'.tk[t]),
         \A t \in Tickets : eng[t].status = "CANCELLED" => eng'[t].status = "CANCELLED",
         \A t \in svc.active : svc'.tk[t].cancelByAPI =>
                                 svc.tk[t].cancelByAPI \/ eng'[t].status = "CANCELLED"
  PROVE  GoesOn
<1>1. svc.tickets \subseteq Tickets /\ svc.active \subseteq Tickets
  BY ServiceFields DEF IInv, TypeOK
<1>2. /\ svc'.tickets = svc.tickets /\ svc'.active = svc.active
      /\ \A t \in svc.tickets : svc'.tk[t].status = svc.tk[t].status
                                /\ svc'.tk[t].matchID = svc.tk[t].matchID
  BY <1>1 DEF Quiet
<1>3. Stopped'
  BY <1>1, <1>2 DEF Stopped
<1>. QED
  BY <1>2, <1>3 DEF GoesOn

\* Only the ticket t has changed, and nothing has been published.
Annotates(s, u, t, ticket) ==
  /\ HasFeed(u) /\ u.feed = s.feed
  /\ \A x \in Tickets : u.tk[x] = IF x = t THEN ticket ELSE s.tk[x]

LEMMA AnnotateTells ==
  ASSUME NEW s \in Service, NEW t \in s.tickets, NEW ticket
  PROVE  Annotates(s, SaveTicket([s EXCEPT !.tk[t] = ticket], {t}), t, ticket)
<1>. DEFINE v == [s EXCEPT !.tk[t] = ticket]
            u == SaveTicket(v, {t})
<1>1. HasFeed(s) /\ s.tk \in [Tickets -> Ticket] /\ t \in Tickets
  BY ServiceHasFeed, ServiceFields
<1>2. /\ HasFeed(v) /\ v.feed = s.feed
      /\ \A x \in Tickets : v.tk[x] = IF x = t THEN ticket ELSE s.tk[x]
  BY <1>1 DEF HasFeed
<1>. HIDE DEF v
<1>3. HasFeed(u) /\ u.feed = v.feed /\ u.tk = v.tk
  BY <1>2 DEF HasFeed, SaveTicket
<1>. HIDE DEF u
<1>4. Annotates(s, u, t, ticket)
  BY <1>2, <1>3 DEF Annotates
<1>. QED
  BY <1>4 DEF u, v

LEMMA CollapsedStays ==
  ASSUME FlexiTypeOK, EngineShape, NEW t \in Tickets, NEW e, Collapses(e, t),
         NEW u \in Tickets, eng[u].status = "CANCELLED"
  PROVE  e[u].status = "CANCELLED"
<1>1. u # t => u \notin Siblings(t)
  BY SiblingsWait
<1>. QED
  BY <1>1 DEF Collapses

LEMMA StopGoesOn ==
  ASSUME IInv, Stopped, NEW t \in Tickets, NEW requeued, StopMatchmaking(t, requeued)
  PROVE  GoesOn
<1>1. /\ FlexiTypeOK /\ EngineShape /\ svc \in Service /\ Index(svc) /\ EngineAgrees
      /\ t \in svc.tickets
  BY DEF IInv, TypeOK, StopMatchmaking
<1>. DEFINE ticket == RequestCancel(svc.tk[t])
<1>2. svc.tk[t] \in Ticket
  BY <1>1, ServiceFields
<1>3. /\ ticket \in Ticket /\ ticket.status = svc.tk[t].status
      /\ ticket.matchID = svc.tk[t].matchID /\ Fixed(ticket) = Fixed(svc.tk[t])
  BY <1>2 DEF RequestCancel, Ticket, Fixed
<1>4. /\ Good(svc.tk[t], svc.feed[t]) => Good(ticket, svc.feed[t])
      /\ Alike(svc.tk[t], ticket)
  BY <1>2 DEF RequestCancel, Ticket, Good, Clean, Told, Base, Alike
<1>5. svc' = SaveTicket([svc EXCEPT !.tk[t] = ticket], {t})
  BY DEF StopMatchmaking
<1>. HIDE DEF ticket
<1>6. Quiet(svc, svc')
  BY <1>1, <1>3, <1>5, AnnotateTicket
<1>7. /\ svc'.feed = svc.feed
      /\ \A x \in Tickets : svc'.tk[x] = IF x = t THEN ticket ELSE svc.tk[x]
  <2>1. Annotates(svc, svc', t, ticket)
    BY <1>1, <1>5, AnnotateTells
  <2>. QED
    BY <2>1 DEF Annotates
<1>8. \A x \in svc.tickets : /\ Good(svc.tk[x], svc.feed[x]) => Good(svc'.tk[x], svc'.feed[x])
                             /\ IsTerminal(svc.tk[x].status) => Alike(svc.tk[x], svc'.tk[x])
  BY <1>1, <1>4, <1>7, ServiceFields, AlikeItself
<1>9. CASE Live(t)
  <2>1. Collapses(eng', t)
    BY <1>1, <1>9, CancelCollapses DEF StopMatchmaking
  <2>2. \A x \in Tickets : eng[x].status = "CANCELLED" => eng'[x].status = "CANCELLED"
    BY <1>1, <2>1, CollapsedStays
  <2>3. eng'[t].status = "CANCELLED"
    BY <2>1 DEF Collapses
  <2>4. \A x \in svc.active : svc'.tk[x].cancelByAPI => svc.tk[x].cancelByAPI \/ eng'[x].status = "CANCELLED"
    BY <1>1, <1>7, <2>3, ServiceFields
  <2>. QED
    BY <1>6, <1>8, <2>2, <2>4, QuietGoesOn
<1>10. CASE ~Live(t)
  <2>1. UNCHANGED eng
    BY <1>10 DEF StopMatchmaking, engVars
  <2>2. t \in svc.active => eng[t].status = "CANCELLED"
    <3>1. ASSUME t \in svc.active PROVE eng[t].status = "CANCELLED"
      <4>1. ~IsTerminal(svc.tk[t].status) /\ svc.tk[t].status \in Statuses
        BY <1>1, <1>2, <3>1 DEF Index, Ticket
      <4>2. eng[t].status \notin {"PLACING", "FAILED", "REQUIRES_ACCEPTANCE"} \cup InPool
        BY <1>1, <1>10 DEF EngineShape, Live
      <4>. QED
        BY <1>1, <4>1, <4>2 DEF EngineAgrees, status, IsTerminal, Statuses, Active, InPool
    <3>. QED
      BY <3>1
  <2>3. \A x \in svc.active : svc'.tk[x].cancelByAPI => svc.tk[x].cancelByAPI \/ eng'[x].status = "CANCELLED"
    BY <1>1, <1>7, <2>1, <2>2, ServiceFields
  <2>. QED
    BY <1>6, <1>8, <2>1, <2>3, QuietGoesOn
<1>. QED
  BY <1>9, <1>10

\* An answer says nothing of what has been published.
LEMMA AnswerTells ==
  ASSUME svc \in Service, NEW t \in svc.tickets, NEW ids \in SUBSET Players, NEW decision,
         svc.tk[t].status = "REQUIRES_ACCEPTANCE"
  PROVE  LET u == recordDecisions(t, ids, decision)
         IN  \A x \in svc.tickets :
               /\ Good(svc.tk[x], svc.feed[x]) => Good(u.tk[x], u.feed[x])
               /\ IsTerminal(svc.tk[x].status) => Alike(svc.tk[x], u.tk[x])
               /\ u.tk[x].cancelByAPI = svc.tk[x].cancelByAPI
<1>. DEFINE ticket == RecordPlayerAcceptances(svc.tk[t], ids, decision)
            s == SaveTicket([svc EXCEPT !.tk[t] = ticket], {t})
            v == Announce(s, {s.tk[t].matchID}, "AcceptMatch")
            u == recordDecisions(t, ids, decision)
<1>1. t \in Tickets /\ svc.tk[t] \in Ticket /\ svc.tickets \subseteq Tickets
  BY ServiceFields
<1>2. /\ Good(svc.tk[t], svc.feed[t]) => Good(ticket, svc.feed[t])
      /\ Alike(svc.tk[t], ticket) /\ ticket.cancelByAPI = svc.tk[t].cancelByAPI
  BY <1>1 DEF RecordPlayerAcceptances, Ticket, Good, Clean, Told, Base, InPool, Alike
<1>3. u \in {s, v}
  BY DEF recordDecisions
<1>. HIDE DEF ticket, u
<1>4. /\ HasFeed(s) /\ s.feed = svc.feed
      /\ \A x \in Tickets : s.tk[x] = IF x = t THEN ticket ELSE svc.tk[x]
  <2>1. Annotates(svc, s, t, ticket)
    BY AnnotateTells
  <2>. QED
    BY <2>1 DEF Annotates
<1>. HIDE DEF s
<1>5. v.feed = s.feed /\ v.tk = s.tk
  BY <1>4 DEF Announce, HasFeed
<1>. HIDE DEF v
<1>6. \A x \in svc.tickets :
        /\ Good(svc.tk[x], svc.feed[x]) => Good(u.tk[x], u.feed[x])
        /\ IsTerminal(svc.tk[x].status) => Alike(svc.tk[x], u.tk[x])
        /\ u.tk[x].cancelByAPI = svc.tk[x].cancelByAPI
  BY <1>1, <1>2, <1>3, <1>4, <1>5, AlikeItself
<1>. QED
  BY <1>6 DEF u

LEMMA AcceptGoesOn ==
  ASSUME IInv, Stopped, NEW t \in Tickets, NEW ids \in SUBSET Players, AcceptMatch(t, ids)
  PROVE  GoesOn
<1>1. /\ svc \in Service /\ Index(svc) /\ FlexiTypeOK /\ MayAccept(t, ids)
      /\ svc' = recordDecisions(t, ids, "accept") /\ eng' = Accept(t, ids)
  BY DEF IInv, TypeOK, AcceptMatch
<1>2. /\ t \in svc.tickets /\ svc.tk[t].matchID \in MatchIDs
      /\ svc.tk[t].status = "REQUIRES_ACCEPTANCE"
  BY <1>1, AnsweredTicket DEF MayAccept, MayDecide
<1>3. Quiet(svc, svc')
  BY <1>1, <1>2, RecordDecisionsEffect DEF Decisions
<1>4. \A x \in svc.tickets : /\ Good(svc.tk[x], svc.feed[x]) => Good(svc'.tk[x], svc'.feed[x])
                             /\ IsTerminal(svc.tk[x].status) => Alike(svc.tk[x], svc'.tk[x])
                             /\ svc'.tk[x].cancelByAPI = svc.tk[x].cancelByAPI
  BY <1>1, <1>2, AnswerTells
<1>5. \A x \in Tickets : eng'[x].status = eng[x].status
  BY <1>1, AcceptedEngine
<1>. QED
  BY <1>1, <1>3, <1>4, <1>5, QuietGoesOn DEF Index

LEMMA RejectGoesOn ==
  ASSUME IInv, Stopped, NEW t \in Tickets, NEW ids \in SUBSET Players, RejectMatch(t, ids)
  PROVE  GoesOn
<1>1. /\ svc \in Service /\ Index(svc) /\ FlexiTypeOK /\ EngineShape /\ MayAccept(t, ids)
      /\ svc' = recordDecisions(t, ids, "reject") /\ eng' = Reject(t)
  BY DEF IInv, TypeOK, RejectMatch
<1>2. /\ t \in svc.tickets /\ svc.tk[t].matchID \in MatchIDs /\ \E p \in pending : t \in p.ids
      /\ svc.tk[t].status = "REQUIRES_ACCEPTANCE"
  BY <1>1, AnsweredTicket DEF MayAccept, MayDecide
<1>3. Quiet(svc, svc')
  BY <1>1, <1>2, RecordDecisionsEffect DEF Decisions
<1>4. \A x \in svc.tickets : /\ Good(svc.tk[x], svc.feed[x]) => Good(svc'.tk[x], svc'.feed[x])
                             /\ IsTerminal(svc.tk[x].status) => Alike(svc.tk[x], svc'.tk[x])
                             /\ svc'.tk[x].cancelByAPI = svc.tk[x].cancelByAPI
  BY <1>1, <1>2, AnswerTells
<1>5. Collapses(eng', t)
  BY <1>1, <1>2, RejectCollapses
<1>6. \A x \in Tickets : eng[x].status = "CANCELLED" => eng'[x].status = "CANCELLED"
  BY <1>1, <1>5, CollapsedStays
<1>. QED
  BY <1>1, <1>3, <1>4, <1>6, QuietGoesOn DEF Index

\* The service is left alone, and so are the statuses of the engine's tickets.
LEMMA StillGoesOn ==
  ASSUME IInv, Stopped, UNCHANGED svc,
         \A t \in Tickets : eng'[t].status = eng[t].status
  PROVE  GoesOn
<1>1. svc.active \subseteq Tickets
  BY ServiceFields DEF IInv, TypeOK
<1>. QED
  BY <1>1, AlikeItself DEF GoesOn, Stopped

LEMMA AcceptLapsesGoesOn ==
  ASSUME IInv, Stopped, NEW t \in Tickets, NEW ids \in SUBSET Players, NEW done \in SUBSET ids,
         AcceptMatchLapses(t, ids, done)
  PROVE  GoesOn
<1>1. FlexiTypeOK /\ eng' = Accept(t, done) /\ UNCHANGED svc
  BY DEF IInv, TypeOK, AcceptMatchLapses
<1>2. \A x \in Tickets : eng'[x].status = eng[x].status
  BY <1>1, AcceptedEngine
<1>. QED
  BY <1>1, <1>2, StillGoesOn

\* A new ticket t has come to v, and has been published.
Enters(v, u, t) ==
  /\ Good(u.tk[t], u.feed[t]) /\ ~u.tk[t].cancelByAPI
  /\ \A x \in Tickets \ {t} : u.feed[x] = v.feed[x]

LEMMA CommitTells ==
  ASSUME NEW v \in Service, NEW t \in Tickets, NEW b \in BOOLEAN,
         NEW session \in Sessions \cup {NoSession}
  PROVE  Enters(v, addTicket(commitTicket(v, t, newTicket(b, session)), {t}), t)
<1>. DEFINE ticket == newTicket(b, session)
            w == [v EXCEPT !.tickets = v.tickets \cup {t}, !.tk[t] = ticket, !.feed[t] = <<>>]
            c == commitTicket(v, t, ticket)
            u == addTicket(c, {t})
            told == <<>> \o Out(ticket)
<1>1. ticket \in Ticket /\ ~PullEvents(ticket).cancelByAPI
  BY NewTicketType DEF newTicket, PullEvents
<1>2. Good(PullEvents(ticket), told)
  BY EnteredTicket
<1>. HIDE DEF ticket, told
<1>3. /\ c \in Service /\ c.tickets = v.tickets \cup {t}
      /\ \A x \in Tickets : c.tk[x] = IF x = t THEN ticket ELSE v.tk[x]
  BY <1>1, CommitTicketEffect
<1>4. \A x \in Tickets : c.feed[x] = IF x = t THEN <<>> ELSE v.feed[x]
  <2>1. HasFeed(v) /\ v.feed \in [Tickets -> Seq(Detail(TicketEvents))]
    BY ServiceHasFeed, ServiceFields
  <2>2. HasFeed(w) /\ \A x \in Tickets : w.feed[x] = IF x = t THEN <<>> ELSE v.feed[x]
    BY <2>1 DEF HasFeed
  <2>3. c = SaveTicket(w, {t})
    BY DEF commitTicket
  <2>. HIDE DEF w, c
  <2>. QED
    BY <2>2, <2>3, SaveMute DEF Mute
<1>. HIDE DEF c
<1>5. u.tk[t] = PullEvents(c.tk[t])
  BY <1>3, AddTicketEffect
<1>6. Tells(c, u, {t}, LAMBDA x : c.tk[x])
  BY <1>3, AddTicketTells
<1>. HIDE DEF u
<1>7. \A x \in Tickets : u.feed[x] = IF x \in {t} THEN c.feed[x] \o Out(c.tk[x]) ELSE c.feed[x]
  BY <1>6 DEF Tells
<1>8. u.feed[t] = told /\ u.tk[t] = PullEvents(ticket)
  BY <1>3, <1>4, <1>5, <1>7 DEF told
<1>9. Enters(v, u, t)
  BY <1>1, <1>2, <1>4, <1>7, <1>8 DEF Enters
<1>. QED
  BY <1>9 DEF u, c, ticket

\* A command that brings the ticket t in, after the earlier requests prev have
\* been superseded: v is the service and e the engine's tickets at that point.
Joins(t, prev, v, e) ==
  /\ Enters(v, svc', t)
  /\ svc'.tickets = svc.tickets \cup {t} /\ svc'.active = (svc.active \ prev) \cup {t}
  /\ \A x \in Tickets \ {t} : svc'.tk[x] = v.tk[x]
  /\ \A x \in svc.tickets : /\ Carries(svc.tk[x], svc.feed[x], v.tk[x], v.feed[x])
                             /\ v.tk[x].status \in {svc.tk[x].status, "CANCELLED"}
  /\ \A x \in svc.active \ prev : eng[x].status = "CANCELLED" => e[x] = eng[x]
  /\ e \in [Tickets -> EngineTicket] /\ eng' \in {Enqueued(e, t, b) : b \in BOOLEAN}

LEMMA EnqueueGoesOn ==
  ASSUME IInv, Stopped, NEW t \in Tickets, t \notin svc.tickets,
         NEW e, NEW prev, NEW v, Joins(t, prev, v, e)
  PROVE  GoesOn
<1>. USE DEF Joins
<1>1. svc.tickets \subseteq Tickets /\ svc.active \subseteq svc.tickets
  BY ServiceFields DEF IInv, TypeOK, Index
<1>2. \A x \in svc.tickets : /\ x \in Tickets \ {t} /\ svc'.tk[x] = v.tk[x]
                             /\ svc'.feed[x] = v.feed[x]
  BY <1>1 DEF Enters
<1>3. ASSUME NEW x \in svc'.active, svc'.tk[x].cancelByAPI
      PROVE  eng'[x].status = "CANCELLED"
  <2>1. x # t /\ x \in svc.active \ prev /\ x \in svc.tickets
    BY <1>1, <1>3 DEF Enters
  <2>2. svc.tk[x].cancelByAPI
    BY <1>2, <1>3, <2>1 DEF Carries
  <2>3. e[x].status = "CANCELLED"
    BY <2>1, <2>2 DEF Stopped
  <2>. QED
    BY <1>1, <2>1, <2>3 DEF Enqueued
<1>4. Stopped'
  BY <1>3 DEF Stopped
<1>5. Good(svc'.tk[t], svc'.feed[t])
  BY DEF Enters
<1>. QED
  BY <1>2, <1>4, <1>5 DEF GoesOn, Carries

LEMMA StartGoesOn ==
  ASSUME IInv, Stopped, NEW t \in Tickets, StartMatchmaking(t)
  PROVE  GoesOn
<1>. DEFINE ticket == newTicket(FALSE, NoSession)
            w == addTicket(commitTicket(svc, t, ticket), {t})
<1>1. /\ svc \in Service /\ Index(svc) /\ FlexiTypeOK /\ t \notin svc.tickets
      /\ eng' = Enqueued(eng, t, FALSE) /\ svc' = w
  BY DEF IInv, TypeOK, StartMatchmaking, IdFree
<1>2. t \notin svc.active
  BY <1>1 DEF Index
<1>3. ticket \in Ticket /\ ticket.status = "QUEUED"
  BY NewTicketType
<1>4. Enters(svc, w, t)
  BY <1>1, CommitTells
<1>. HIDE DEF ticket
<1>5. /\ w \in Service /\ w.tickets = svc.tickets \cup {t} /\ w.active = svc.active \cup {t}
      /\ KeepsTracker(svc, w)
      /\ w.tk[t].status = "QUEUED" /\ Fixed(w.tk[t]) = Fixed(ticket)
      /\ \A x \in Tickets \ {t} : w.tk[x] = svc.tk[x]
  BY <1>1, <1>2, <1>3, CommitAndPublish
<1>. HIDE DEF w
<1>. DEFINE prev == {}
<1>6. svc'.active = (svc.active \ prev) \cup {t}
  BY <1>1, <1>5
<1>. HIDE DEF prev
<1>7. \A x \in svc.tickets : Carries(svc.tk[x], svc.feed[x], svc.tk[x], svc.feed[x])
  BY CarriesItself
<1>8. eng \in [Tickets -> EngineTicket]
  BY <1>1 DEF FlexiTypeOK
<1>9. Joins(t, prev, svc, eng)
  BY <1>1, <1>4, <1>5, <1>6, <1>7, <1>8 DEF Joins
<1>. QED
  BY <1>1, <1>9, EnqueueGoesOn

\* What becomes of the earlier request of a game session.
LEMMA SupersedeCarries ==
  ASSUME NEW s \in Service, NEW prev \in SUBSET s.tickets,
         \A u \in prev : s.tk[u].status \in InPool
  PROVE  LET v == supersedeBackfill(s, prev)
         IN  \A x \in s.tickets :
               /\ Carries(s.tk[x], s.feed[x], v.tk[x], v.feed[x])
               /\ v.tk[x].status = IF x \in prev THEN "CANCELLED" ELSE s.tk[x].status
<1>. DEFINE tk == [u \in Tickets |-> IF u \in prev THEN MarkCancelledBySuperseded(s.tk[u])
                                     ELSE s.tk[u]]
            v == supersedeBackfill(s, prev)
<1>1. s.tickets \subseteq Tickets /\ prev \subseteq Tickets
  BY ServiceFields
<1>2. tk \in [Tickets -> Ticket]
  BY ServiceFields, CancelledTicket DEF MarkCancelledBySuperseded
<1>3. v = addTicket(SaveTicket([s EXCEPT !.tk = tk], prev), prev)
  BY DEF supersedeBackfill
<1>4. \A u \in Tickets : v.tk[u] = IF u \in prev THEN PullEvents(MarkCancelledBySuperseded(s.tk[u]))
                                   ELSE s.tk[u]
  BY <1>1, SupersedeEffect
<1>. HIDE DEF v
<1>5. \A u \in prev : tk[u] = MarkCancelled(s.tk[u], "superseded")
  BY <1>1 DEF MarkCancelledBySuperseded
<1>. HIDE DEF tk
<1>6. Tells(s, v, prev, LAMBDA t : tk[t])
  BY <1>2, <1>3, MoveAndTell
<1>7. ASSUME NEW x \in s.tickets
      PROVE  /\ Carries(s.tk[x], s.feed[x], v.tk[x], v.feed[x])
             /\ v.tk[x].status = IF x \in prev THEN "CANCELLED" ELSE s.tk[x].status
  <2>1. x \in Tickets /\ s.tk[x] \in Ticket /\ s.feed[x] \in Seq(Detail(TicketEvents))
    BY ServiceFields
  <2>2. CASE x \in prev
    <3>. DEFINE y == MarkCancelled(s.tk[x], "superseded")
    <3>1. s.tk[x].status \in InPool
      BY <2>2
    <3>2. Carries(s.tk[x], s.feed[x], PullEvents(y), s.feed[x] \o Out(y))
      BY <2>1, <3>1, CancelledCarries
    <3>3. y \in Ticket /\ y.status = "CANCELLED"
      BY <2>1, <3>1, CancelledTicket DEF InPool
    <3>4. v.tk[x] = PullEvents(y) /\ v.feed[x] = s.feed[x] \o Out(y)
      BY <1>4, <1>5, <1>6, <2>1, <2>2 DEF Tells, MarkCancelledBySuperseded
    <3>. HIDE DEF y
    <3>5. PullEvents(y).status = "CANCELLED"
      BY <3>3, PulledTicket
    <3>. QED
      BY <2>2, <3>2, <3>4, <3>5
  <2>3. CASE x \notin prev
    BY <1>4, <1>6, <2>1, <2>3, CarriesItself DEF Tells
  <2>. QED
    BY <2>2, <2>3
<1>. QED
  BY <1>7 DEF v

LEMMA BackfillGoesOn ==
  ASSUME IInv, Stopped, NEW t \in Tickets, NEW session \in BackfillARNs, NEW requeued,
         StartMatchBackfill(t, session, requeued)
  PROVE  GoesOn
<1>. DEFINE prev == findSessionBackfill(session)
            v == supersedeBackfill(svc, prev)
            ticket == newTicket(TRUE, session)
            w == addTicket(commitTicket(v, t, ticket), {t})
<1>1. /\ svc \in Service /\ Index(svc) /\ FlexiTypeOK /\ t \notin svc.tickets
      /\ svc.tickets \subseteq Tickets
      /\ \A u \in prev : isSupersedable(svc.tk[u].status)
      /\ svc' = w
  BY ServiceFields DEF IInv, TypeOK, StartMatchBackfill, IdFree
<1>2. PICK e : eng' = Enqueued(e, t, TRUE) /\ Superseded(prev, e, pending')
  BY BackfillSupersedes
<1>3. /\ prev \subseteq svc.active /\ svc.active \subseteq svc.tickets
      /\ prev \subseteq Tickets /\ prev \in SUBSET svc.tickets
  BY <1>1 DEF Index, findSessionBackfill
<1>4. \A u \in prev : status(u) \in InPool
  BY <1>1 DEF isSupersedable, InPool, status
<1>5. ticket \in Ticket /\ ticket.status = "QUEUED" /\ session \in Sessions \cup {NoSession}
  BY MatchmakingConstants, NewTicketType DEF MatchmakingConstants
<1>. HIDE DEF prev
<1>6. /\ v \in Service /\ v.tickets = svc.tickets
      /\ v.active = (svc.active \ prev) \cup {x \in prev : ~IsTerminal(v.tk[x].status)}
  BY <1>1, <1>3, SupersedeEffect
<1>7. \A x \in svc.tickets :
        /\ Carries(svc.tk[x], svc.feed[x], v.tk[x], v.feed[x])
        /\ v.tk[x].status = IF x \in prev THEN "CANCELLED" ELSE svc.tk[x].status
  BY <1>1, <1>3, <1>4, SupersedeCarries DEF status
<1>. HIDE DEF v
<1>8. Enters(v, w, t)
  BY <1>5, <1>6, CommitTells
<1>9. v.active = svc.active \ prev /\ t \notin v.active
  BY <1>1, <1>3, <1>6, <1>7 DEF IsTerminal, Terminal
<1>. HIDE DEF ticket
<1>10. /\ w \in Service /\ w.tickets = v.tickets \cup {t} /\ w.active = v.active \cup {t}
       /\ KeepsTracker(v, w)
       /\ w.tk[t].status = "QUEUED" /\ Fixed(w.tk[t]) = Fixed(ticket)
       /\ \A x \in Tickets \ {t} : w.tk[x] = v.tk[x]
  <2>1. v \in Service /\ t \notin v.active /\ ticket \in Ticket /\ ticket.status = "QUEUED"
    BY <1>5, <1>6, <1>9
  <2>. QED
    BY <2>1, CommitAndPublish
<1>. HIDE DEF w
<1>11. /\ e \in [Tickets -> EngineTicket]
       /\ \A u \in Tickets : IsTerminal(eng[u].status) => e[u] = eng[u]
  BY <1>2, <1>3, <1>4, SupersededEngine
<1>12. \A x \in svc.active \ prev : eng[x].status = "CANCELLED" => e[x] = eng[x]
  BY <1>1, <1>3, <1>11 DEF IsTerminal, Terminal
<1>13. /\ svc'.tickets = svc.tickets \cup {t} /\ svc'.active = (svc.active \ prev) \cup {t}
       /\ Enters(v, svc', t) /\ \A x \in Tickets \ {t} : svc'.tk[x] = v.tk[x]
  BY <1>1, <1>6, <1>8, <1>9, <1>10
<1>14. Joins(t, prev, v, e)
  BY <1>2, <1>7, <1>11, <1>12, <1>13 DEF Joins
<1>. QED
  BY <1>1, <1>14, EnqueueGoesOn

LEMMA TickOnceGoesOn ==
  ASSUME IInv, IInv', Stopped, TickCarries
  PROVE  GoesOn
<1>1. Index(svc) /\ Index(svc)'
  BY DEF IInv
<1>2. \A t \in svc'.tickets : t \in svc.tickets
  BY DEF TickCarries
<1>3. ASSUME NEW t \in svc'.tickets, ~IsTerminal(svc.tk[t].status), svc.tk[t].cancelByAPI
      PROVE  svc'.tk[t].status = "CANCELLED"
  <2>1. t \in svc.active
    BY <1>1, <1>2, <1>3 DEF Index
  <2>. QED
    BY <1>3, <2>1 DEF Stopped, TickCarries
<1>4. ASSUME NEW t \in svc'.active, svc'.tk[t].cancelByAPI PROVE FALSE
  <2>1. t \in svc'.tickets /\ ~IsTerminal(svc'.tk[t].status)
    BY <1>1, <1>4 DEF Index
  <2>2. svc.tk[t].cancelByAPI /\ ~IsTerminal(svc.tk[t].status)
    BY <1>4, <2>1 DEF TickCarries, Carries, Alike
  <2>. QED
    BY <1>3, <2>1, <2>2 DEF IsTerminal, Terminal
<1>5. Stopped'
  BY <1>4 DEF Stopped
<1>. QED
  BY <1>2, <1>3, <1>5 DEF GoesOn, TickCarries, Carries

LEMMA StepGoesOn ==
  ASSUME IInv, Stopped, [Next]_vars
  PROVE  GoesOn
<1>1. CASE UNCHANGED vars
  BY <1>1, StillGoesOn DEF vars, engVars
<1>2. CASE Next
  <2>1. UNCHANGED AcceptanceRequired
    BY <1>2 DEF Next
  <2>2. CASE Start
    BY <2>2, StartGoesOn DEF Start
  <2>3. CASE Backfill
    BY <2>3, BackfillGoesOn DEF Backfill
  <2>4. CASE Stop
    BY <2>4, StopGoesOn DEF Stop
  <2>5. CASE Decide
    <3>1. PICK t \in Tickets, ids \in SUBSET Players :
            \/ AcceptMatch(t, ids)
            \/ RejectMatch(t, ids)
            \/ \E done \in SUBSET ids : AcceptMatchLapses(t, ids, done)
      BY <2>5 DEF Decide
    <3>. QED
      BY <3>1, AcceptGoesOn, RejectGoesOn, AcceptLapsesGoesOn
  <2>6. CASE TickOnce
    BY <2>1, <2>6, TickRuns, TickRunKeeps, TickRunCarries, TickOnceGoesOn
  <2>7. CASE DeadlinePasses
    BY <2>7, StillGoesOn DEF DeadlinePasses, Deadline
  <2>. QED
    BY <1>2, <2>2, <2>3, <2>4, <2>5, <2>6, <2>7 DEF Next, Commands
<1>. QED
  BY <1>1, <1>2

\* The invariant, and with it what each ticket carries and what was published of it.
Lasting == IInv /\ Stopped /\ \A t \in svc.tickets : Good(svc.tk[t], svc.feed[t])

LEMMA InitLasting == Init => Lasting
BY InitIInv DEF Init, Lasting, Stopped

LEMMA StepLasting == Lasting /\ [Next]_vars => Lasting'
<1>. SUFFICES ASSUME Lasting, [Next]_vars PROVE Lasting'
  OBVIOUS
<1>1. IInv' /\ GoesOn
  BY StepIInv, StepGoesOn DEF Lasting
<1>. QED
  BY <1>1 DEF Lasting, GoesOn

-----------------------------------------------------------------------------
(* Theorems about one ticket *)

LEMMA LastingAlways == Spec => []Lasting
<1>. QED
  BY InitLasting, StepLasting, PTL DEF Spec

LEMMA TypesOfFeed ==
  ASSUME NEW d \in Seq(Detail(TicketEvents))
  PROVE  /\ Len(TypesOf(d)) = Len(d) /\ DOMAIN TypesOf(d) = 1..Len(d)
         /\ \A i \in 1..Len(d) : TypesOf(d)[i] = d[i].type
<1>. DEFINE f == TypesOf(d)
            n == Len(d)
<1>1. n \in Nat /\ DOMAIN d = 1..n /\ \A i \in 1..n : d[i] \in Detail(TicketEvents)
  OBVIOUS
<1>2. f = [i \in 1..n |-> d[i].type]
  BY <1>1 DEF TypesOf
<1>3. f \in [1..n -> TicketEvents]
  BY <1>1, <1>2 DEF Detail
<1>4. DOMAIN f = 1..n /\ \A i \in 1..n : f[i] = d[i].type
  BY <1>2
<1>. HIDE DEF f, n
<1>5. f \in UNION {[1..k -> TicketEvents] : k \in Nat}
  BY <1>1, <1>3
<1>6. f \in Seq(TicketEvents)
  <2>1. Seq(TicketEvents) = UNION {[1..k -> TicketEvents] : k \in Nat}
    BY SeqDef
  <2>. QED
    BY <1>5, <2>1
<1>7. Len(f) = n
  BY <1>1, <1>4, <1>6, LenProperties
<1>. QED
  BY <1>4, <1>7 DEF f, n

\* A ticket back in the pool carries nothing over from the proposal that failed, and
\* the teams of a proposed or matched ticket are those of its own match.
THEOREM CleanSlateAlways == Spec => []CleanSlate
<1>1. Lasting => CleanSlate
  BY DEF Lasting, Good, Clean, Base, CleanSlate, status
<1>. QED
  BY <1>1, LastingAlways, PTL

\* A subscriber sees of a ticket searching first, and last either searching still or
\* the one event it ended with; nothing is left unpublished.
THEOREM FeedLegalAlways == Spec => []FeedLegal
<1>1. Lasting => FeedLegal
  <2>. SUFFICES ASSUME Lasting, NEW t \in svc.tickets
                PROVE  LET f == TypesOf(svc.feed[t])
                           final == CASE status(t) = "CANCELLED" -> "MatchmakingCancelled"
                                      [] status(t) = "TIMED_OUT" -> "MatchmakingTimedOut"
                                      [] OTHER                   -> "MatchmakingSearching"
                       IN  /\ f # <<>> /\ f[Len(f)] = final
                           /\ \A i \in 1..(Len(f) - 1) : f[i] = "MatchmakingSearching"
                           /\ svc.tk[t].events = <<>>
    BY DEF FeedLegal
  <2>. DEFINE d == svc.feed[t]
              f == TypesOf(d)
              final == LastWord(status(t))
  <2>1. d \in Seq(Detail(TicketEvents))
    BY ServiceFields DEF Lasting, IInv, TypeOK
  <2>2. /\ svc.tk[t].events = <<>> /\ d # <<>> /\ d[Len(d)].type = final
        /\ \A i \in 1..(Len(d) - 1) : d[i].type = "MatchmakingSearching"
    BY DEF Lasting, Good, Told, status
  <2>3. Len(f) = Len(d) /\ DOMAIN f = 1..Len(d) /\ \A i \in 1..Len(d) : f[i] = d[i].type
    BY <2>1, TypesOfFeed
  <2>. HIDE DEF d, f, final
  <2>4. Len(d) \in Nat \ {0}
    BY <2>1, <2>2
  <2>5. /\ Len(d) \in 1..Len(d) /\ \A i \in 1..(Len(d) - 1) : i \in 1..Len(d)
    BY <2>4
  <2>6. f # <<>> /\ f[Len(f)] = final /\ \A i \in 1..(Len(f) - 1) : f[i] = "MatchmakingSearching"
    BY <2>2, <2>3, <2>5
  <2>. QED
    BY <2>2, <2>6 DEF d, f, final, LastWord
<1>. QED
  BY <1>1, LastingAlways, PTL

\* No command and no tick ever changes the status or the match of a finished ticket.
THEOREM TerminalIsFinalAlways == Spec => TerminalIsFinal
<1>1. Lasting /\ [Next]_vars =>
        [\A t \in svc.tickets : IsTerminal(status(t)) /\ t \in svc.tickets' =>
           /\ status(t)' = status(t)
           /\ svc.tk'[t].matchID = svc.tk[t].matchID]_vars
  BY StepGoesOn DEF Lasting, GoesOn, status, Alike
<1>. QED
  BY <1>1, LastingAlways, PTL DEF Spec, TerminalIsFinal

\* A stopped ticket that changes its status at all is cancelled.
THEOREM StopWinsAlways == Spec => StopWins
<1>1. Lasting /\ [Next]_vars =>
        [\A t \in svc.tickets :
           ~IsTerminal(status(t)) /\ svc.tk[t].cancelByAPI /\ status(t)' # status(t)
           => status(t)' = "CANCELLED"]_vars
  BY StepGoesOn DEF Lasting, GoesOn, status
<1>. QED
  BY <1>1, LastingAlways, PTL DEF Spec, StopWins
=============================================================================
