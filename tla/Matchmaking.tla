----------------------------- MODULE Matchmaking -----------------------------
(***************************************************************************)
(* The application service of one matchmaking configuration                *)
(* (internal/app/matchmaking): its tickets, its proposal tracker and the   *)
(* notifications it generates, driven by the commands and by Tick.         *)
(*                                                                         *)
(* Every command and every tick of a configuration runs under              *)
(* lockConfiguration, which also guards the engine, so each is one step.   *)
(* What happens outside that lock is in Registry and in Delivery.          *)
(*                                                                         *)
(* The service's state is one record, svc, and each method that changes it *)
(* is an operator from such a record to the next one, so that a tick is    *)
(* the composition of its phases, in the order of Service.Tick.            *)
(*                                                                         *)
(* Abstracted data: proposalKey sorts and joins the ticket ids, so a key   *)
(* stands for the set of ids; it is that set here.                         *)
(***************************************************************************)
EXTENDS Flexi, Naturals

CONSTANTS
  NoTime,        \* the zero time of proposalTracker.assign
  BackfillARNs   \* the GameSessionARNs of the StartMatchBackfill calls

ASSUME MatchmakingConstants ==
  /\ NoTime \notin Times
  /\ BackfillARNs \subseteq Sessions \cup {NoSession}

VARIABLES
  svc,         \* the service's state, see Service
  usedIDs,     \* match ids NewID has returned
  rejectedIn,  \* matches a player has rejected
  tickFailed   \* a tick returned an ErrInvalidTransition

vars == <<engVars, AcceptanceRequired, svc, usedIDs, rejectedIn, tickFailed>>

MatchEvents == {"PotentialMatchCreated", "AcceptMatch", "Accepted", "Rejected",
                "TimedOut", "MatchmakingSucceeded"}

\* The payload of an event that is named here: its type and the teams it shows
\* for the tickets it is about.
Detail(types) == [type : types, teams : SUBSET Teams]

Service ==
  [tickets   : SUBSET Tickets,                        \* keys of Service.tickets
   tk        : [Tickets -> Ticket],                   \* Blank when not stored
   active    : SUBSET Tickets,                        \* activeTicketIDsByConfig
   matchIDs  : [Rosters -> MatchIDs \cup {NoMatch}],  \* proposalTracker
   byMatch   : [MatchIDs -> SUBSET Tickets],          \* {} when absent
   createdAt : [MatchIDs -> Times \cup {NoTime}],
   feed      : [Tickets -> Seq(Detail(TicketEvents))],  \* published, per ticket
   matchFeed : [MatchIDs -> Seq(Detail(MatchEvents))]]  \* published, per match

Blank == PullEvents(newTicket(FALSE, NoSession))

Init ==
  /\ FlexiInit
  /\ svc = [tickets   |-> {},
            tk        |-> [t \in Tickets |-> Blank],
            active    |-> {},
            matchIDs  |-> [r \in Rosters |-> NoMatch],
            byMatch   |-> [m \in MatchIDs |-> {}],
            createdAt |-> [m \in MatchIDs |-> NoTime],
            feed      |-> [t \in Tickets |-> <<>>],
            matchFeed |-> [m \in MatchIDs |-> <<>>]]
  /\ usedIDs = {} /\ rejectedIn = {}
  /\ tickFailed = FALSE

-----------------------------------------------------------------------------
(* service.go *)

\* SaveTicket of the tickets S, and syncTicketIndexLocked.
SaveTicket(s, S) ==
  [s EXCEPT !.active = (s.active \ S) \cup {t \in S : ~IsTerminal(s.tk[t].status)}]

\* What eventBatch.add saves of the tickets S of an event when it is generated.
snapshot(s, S) == {s.tk[t].teams : t \in S \cap s.tickets}

\* What the translator makes of an event and its snapshot, whenever it is
\* delivered.
buildDetail(event, saved) == [type |-> event, teams |-> saved]

\* eventBatch.addTicket: the tickets S hand over their events.
addTicket(s, S) ==
  [s EXCEPT !.feed = [t \in Tickets |->
              IF t \notin S THEN s.feed[t]
              ELSE s.feed[t] \o [i \in DOMAIN s.tk[t].events |->
                                  buildDetail(s.tk[t].events[i], snapshot(s, {t}))]],
            !.tk = [t \in Tickets |-> IF t \in S THEN PullEvents(s.tk[t])
                                      ELSE s.tk[t]]]

\* commitTicket of a new ticket under the id t.
commitTicket(s, t, ticket) ==
  SaveTicket([s EXCEPT !.tickets = s.tickets \cup {t}, !.tk[t] = ticket,
                       !.feed[t] = <<>>], {t})

\* Fault: only the engine forgets expired tickets.
evictExpiredTickets_EngineOnly(s, expired) == s

\* evictExpiredTickets: the expired tickets leave the service whatever
\* engine.Evict says about them.
evictExpiredTickets(s, expired) ==
  [s EXCEPT !.tickets = s.tickets \ expired,
            !.active = s.active \ expired,
            !.tk = [t \in Tickets |-> IF t \in expired THEN Blank ELSE s.tk[t]],
            !.feed = [t \in Tickets |-> IF t \in expired THEN <<>> ELSE s.feed[t]]]

-----------------------------------------------------------------------------
(* The proposalTracker of tick.go. *)

\* assignAt of the match ids ids, each with the creation time of its roster.
assignAt(s, ids, times) ==
  LET assigned == {ids[r] : r \in DOMAIN ids}
      of(m)    == CHOOSE r \in DOMAIN ids : ids[r] = m
  IN  [s EXCEPT !.matchIDs = [r \in Rosters |-> IF r \in DOMAIN ids THEN ids[r]
                                                ELSE s.matchIDs[r]],
                !.byMatch = [m \in MatchIDs |->
                               IF m \in assigned THEN of(m) ELSE s.byMatch[m]],
                !.createdAt = [m \in MatchIDs |-> IF m \in assigned THEN times[of(m)]
                                                  ELSE s.createdAt[m]]]

\* Fault: only the roster's key is released.
forget_KeepsMatch(s, M) ==
  [s EXCEPT !.matchIDs = [r \in Rosters |-> IF \E m \in M : s.byMatch[m] = r
                                            THEN NoMatch ELSE s.matchIDs[r]]]

forget(s, M) ==
  [s EXCEPT !.matchIDs = [r \in Rosters |-> IF \E m \in M : s.byMatch[m] = r
                                            THEN NoMatch ELSE s.matchIDs[r]],
            !.byMatch = [m \in MatchIDs |-> IF m \in M THEN {} ELSE s.byMatch[m]],
            !.createdAt = [m \in MatchIDs |-> IF m \in M THEN NoTime
                                              ELSE s.createdAt[m]]]

\* eventBatch.add of a match-level event to the matches M.
Announce(s, M, event) ==
  [s EXCEPT !.matchFeed = [m \in MatchIDs |->
              IF m \notin M THEN s.matchFeed[m]
              ELSE Append(s.matchFeed[m],
                          buildDetail(event, snapshot(s, s.byMatch[m])))]]

-----------------------------------------------------------------------------
(* start.go and backfill.go *)

\* reserveTicketID and engine.Enqueue refuse an id that is in use.
IdFree(t) == t \notin svc.tickets /\ eng[t].status = Unknown

StartMatchmaking(t) ==
  /\ IdFree(t)
  /\ eng' = Enqueued(eng, t, FALSE)
  /\ svc' = addTicket(commitTicket(svc, t, newTicket(FALSE, NoSession)), {t})
  /\ UNCHANGED <<pending, usedIDs, rejectedIn, tickFailed>>

findSessionBackfill(session) ==
  {u \in svc.active : /\ svc.tk[u].isBackfill /\ svc.tk[u].session = session
                      /\ session # NoSession}

isSupersedable(status) == status \in {"QUEUED", "SEARCHING"}

\* Fault: the earlier request is only cancelled in the engine.
supersedeBackfill_EngineOnly(s, prev) == s

\* Fault: the cancellation is not announced.
supersedeBackfill_Silent(s, prev) ==
  SaveTicket([s EXCEPT !.tk = [u \in Tickets |->
                                 IF u \in prev THEN MarkCancelledBySuperseded(s.tk[u])
                                 ELSE s.tk[u]]], prev)

supersedeBackfill(s, prev) ==
  addTicket(SaveTicket([s EXCEPT !.tk = [u \in Tickets |->
                                           IF u \in prev
                                           THEN MarkCancelledBySuperseded(s.tk[u])
                                           ELSE s.tk[u]]], prev), prev)

\* Fault: the earlier request stays in the engine.
StartMatchBackfill_NoCancel(t, session, requeued) ==
  LET prev == findSessionBackfill(session)
  IN  /\ IdFree(t)
      /\ \A u \in prev : isSupersedable(svc.tk[u].status)
      /\ eng' = Enqueued(eng, t, TRUE)
      /\ svc' = addTicket(commitTicket(supersedeBackfill(svc, prev), t,
                                       newTicket(TRUE, session)), {t})
      /\ UNCHANGED <<pending, usedIDs, rejectedIn, tickFailed>>

\* engine.Cancel of the earlier request may fail only when the engine has
\* finished it; the new request is then rolled back and nothing changes.  The
\* engine may hold it in a lapsed proposal, which goes down with it.
StartMatchBackfill(t, session, requeued) ==
  LET prev == findSessionBackfill(session)
      live == {u \in prev : Live(u)}
  IN  /\ IdFree(t)
      /\ \A u \in prev : isSupersedable(svc.tk[u].status)
      /\ eng' = Enqueued(IF live = {} THEN eng
                         ELSE Cancelled(CHOOSE u \in live : TRUE, requeued), t, TRUE)
      /\ pending' = pending \ UNION {ProposalsOf(u) : u \in live}
      /\ svc' = addTicket(commitTicket(supersedeBackfill(svc, prev), t,
                                       newTicket(TRUE, session)), {t})
      /\ UNCHANGED <<usedIDs, rejectedIn, tickFailed>>

-----------------------------------------------------------------------------
(* stop.go *)

\* Fault: the engine is not told.
StopMatchmaking_ServiceOnly(t, requeued) ==
  /\ t \in svc.tickets /\ Live(t)
  /\ svc' = SaveTicket([svc EXCEPT !.tk[t] = RequestCancel(svc.tk[t])], {t})
  /\ UNCHANGED <<engVars, usedIDs, rejectedIn, tickFailed>>

\* Fault: the ticket is cancelled in the service, and the engine is not told.
StopMatchmaking_Behind(t, requeued) ==
  /\ t \in svc.tickets /\ Live(t)
  /\ svc' = SaveTicket([svc EXCEPT !.tk[t] = MarkCancelledByAPI(svc.tk[t])], {t})
  /\ UNCHANGED <<engVars, usedIDs, rejectedIn, tickFailed>>

\* The engine cancels a live ticket at once; the service only notes the
\* request.
StopMatchmaking(t, requeued) ==
  /\ t \in svc.tickets
  /\ Live(t) \/ (CancelFinished /\ eng[t].status # Unknown)
  /\ IF Live(t)
     THEN /\ eng' = Cancelled(t, requeued)
          /\ pending' = pending \ ProposalsOf(t)
     ELSE UNCHANGED engVars
  /\ svc' = SaveTicket([svc EXCEPT !.tk[t] = RequestCancel(svc.tk[t])], {t})
  /\ UNCHANGED <<usedIDs, rejectedIn, tickFailed>>

-----------------------------------------------------------------------------
(* accept.go *)

MayAccept(t, ids) ==
  /\ t \in svc.tickets
  /\ MayDecide(svc.tk[t], ids)
  /\ \E p \in PendingAcceptances : t \in p.ids

\* The decisions are recorded and one AcceptMatch event goes out for the
\* match; consecutive ones are kept as one in matchFeed.
recordDecisions(t, ids, decision) ==
  LET s == SaveTicket([svc EXCEPT !.tk[t] = RecordPlayerAcceptances(svc.tk[t], ids, decision)], {t})
      m == s.tk[t].matchID
  IN  IF m \in MatchIDs /\ s.matchFeed[m] # <<>>
         /\ s.matchFeed[m][Len(s.matchFeed[m])].type = "AcceptMatch"
      THEN s ELSE Announce(s, {m}, "AcceptMatch")

AcceptMatch(t, ids) ==
  /\ MayAccept(t, ids)
  /\ eng' = Accept(t, ids)
  /\ svc' = recordDecisions(t, ids, "accept")
  /\ UNCHANGED <<pending, usedIDs, rejectedIn, tickFailed>>

\* The deadline passes between two engine.Accept calls of one command: the
\* players already passed on stay accepted in the engine, the command fails.
AcceptMatchLapses(t, ids, done) ==
  /\ MayAccept(t, ids)
  /\ done \subseteq ids /\ done # ids
  /\ eng' = Accept(t, done)
  /\ pending' = Lapse(pending, ProposalsOf(t))
  /\ UNCHANGED <<svc, usedIDs, rejectedIn, tickFailed>>

\* Only the first player is passed to engine.Reject, which settles the proposal.
RejectMatch(t, ids) ==
  /\ MayAccept(t, ids)
  /\ eng' = Reject(t)
  /\ pending' = pending \ ProposalsOf(t)
  /\ svc' = recordDecisions(t, ids, "reject")
  /\ rejectedIn' = rejectedIn \cup {svc.tk[t].matchID}
  /\ UNCHANGED <<usedIDs, tickFailed>>

-----------------------------------------------------------------------------
(* tick.go.  e is the engine's tickets, matches what engine.Tick returned and
   after the proposals it then reports as pending. *)

\* Fault: a player who has not answered counts as a rejection.
acceptanceFailureOutcome_Unanswered(s, m) ==
  IF \E t \in s.byMatch[m] \cap s.tickets : \E p \in Players :
       s.tk[t].acceptances[p] # "accept"
  THEN "Rejected" ELSE "TimedOut"

acceptanceFailureOutcome(s, m) ==
  IF \E t \in s.byMatch[m] \cap s.tickets : \E p \in Players :
       s.tk[t].acceptances[p] = "reject"
  THEN "Rejected" ELSE "TimedOut"

\* engine.StatusReason of a requeued ticket.
StatusReason == "ACCEPTANCE_FAILED"

\* Fault: the request-level timeout has no case.
transitionFromEngine_NoTimeout(ticket, curr) ==
  CASE curr \in InPool /\ ticket.status = "REQUIRES_ACCEPTANCE"
                               -> ReturnToSearching(ticket, StatusReason)
    [] curr = "CANCELLED" /\ ticket.cancelByAPI
                               -> MarkCancelledByAPI(ticket)
    [] curr = "CANCELLED" /\ ~ticket.cancelByAPI
                               -> MarkCancelledByAcceptanceFailure(ticket)
    [] OTHER                   -> ticket

transitionFromEngine(ticket, curr) ==
  CASE curr \in InPool /\ ticket.status = "REQUIRES_ACCEPTANCE"
                               -> ReturnToSearching(ticket, StatusReason)
    [] curr \in InPool /\ ticket.status # "REQUIRES_ACCEPTANCE"
                               -> ObserveSearching(ticket)
    [] curr = "CANCELLED" /\ ticket.cancelByAPI
                               -> MarkCancelledByAPI(ticket)
    [] curr = "CANCELLED" /\ ~ticket.cancelByAPI
                               -> MarkCancelledByAcceptanceFailure(ticket)
    [] curr = "TIMED_OUT"      -> MarkTimedOut(ticket)
    [] OTHER                   -> ticket

\* Fault: an accepted proposal counts as settled too.
SettledProposals_Matched(s, matches, after) ==
  {m \in MatchIDs :
     /\ s.byMatch[m] # {} /\ s.createdAt[m] # NoTime
     /\ ~\E p \in after : p.ids = s.byMatch[m] /\ p.createdAt = s.createdAt[m]}

\* The tracked proposals that neither are pending still nor became a match.
SettledProposals(s, matches, after) ==
  {m \in MatchIDs :
     /\ s.byMatch[m] # {} /\ s.createdAt[m] # NoTime
     /\ ~\E p \in after : p.ids = s.byMatch[m] /\ p.createdAt = s.createdAt[m]
     /\ s.byMatch[m] \notin matches}

\* AcceptMatchCompleted is withheld when a ticket of the match was stopped.
CancelledByAPI(s, m) == \E t \in s.byMatch[m] \cap s.tickets : s.tk[t].cancelByAPI

\* AcceptMatchCompleted of the matches M, as their tickets are now.
completeAcceptance(s, M) ==
  LET rejected == {m \in M : acceptanceFailureOutcome(s, m) = "Rejected"}
  IN  Announce(Announce(s, rejected, "Rejected"), M \ rejected, "TimedOut")

\* The tickets of the matches M leave REQUIRES_ACCEPTANCE.
releaseTickets(s, e, M) ==
  LET left == {t \in s.tickets : /\ \E m \in M : t \in s.byMatch[m]
                                 /\ s.tk[t].status = "REQUIRES_ACCEPTANCE"
                                 /\ e[t].status # Unknown}
      moved == [s EXCEPT !.tk = [t \in Tickets |->
                  IF t \notin left THEN s.tk[t]
                  ELSE IF e[t].status = "REQUIRES_ACCEPTANCE"
                  THEN ReturnToSearching(s.tk[t], "ACCEPTANCE_FAILED")
                  ELSE transitionFromEngine(s.tk[t], e[t].status)]]
  IN  addTicket(SaveTicket(moved, left), left)

\* Fault: old proposals are left to syncActiveTickets.
settleOldProposals_Skipped(s, e, matches, after) == s

\* Fault: the outcome is announced once the tickets have gone.
settleOldProposals_ReleaseFirst(s, e, matches, after) ==
  LET gone == SettledProposals(s, matches, after)
      told == {m \in gone : ~CancelledByAPI(s, m)}
  IN  forget(completeAcceptance(releaseTickets(s, e, gone), told), gone)

settleOldProposals(s, e, matches, after) ==
  LET gone == SettledProposals(s, matches, after)
      told == {m \in gone : ~CancelledByAPI(s, m)}
  IN  forget(releaseTickets(completeAcceptance(s, told), e, gone), gone)

RosterOf(t, rosters) == CHOOSE r \in rosters : t \in r

\* Fault: the teams are recorded last.
placing_TeamsLast(t, m) ==
  LET done == Complete(MoveToPlacing(t, m))
  IN  <<MoveToPlacing(t, m), done, SetPlayerTeams(done, m)>>

\* A ticket of the match m after each of the methods called on it, which take
\* and release its lock one by one.
placing(t, m) ==
  LET seated == SetPlayerTeams(t, m)
      placed == MoveToPlacing(seated, m)
  IN  <<seated, placed, Complete(placed)>>

\* fresh gives the match ids NewID returns at this tick to the rosters.
finalizeMatches(s, matches, fresh) ==
  LET direct == {r \in matches : s.matchIDs[r] = NoMatch}
      known  == assignAt(s, [r \in direct |-> fresh[r]], [r \in direct |-> NoTime])
      placed == s.tickets \cap UNION matches
      accepted == {r \in matches : /\ AcceptanceRequired
                                   /\ \E t \in r \cap s.tickets :
                                        s.tk[t].status = "REQUIRES_ACCEPTANCE"}
      moved == [known EXCEPT !.tk = [t \in Tickets |->
                  IF t \notin placed THEN s.tk[t]
                  ELSE placing(s.tk[t], known.matchIDs[RosterOf(t, matches)])[3]]]
      Of(rosters) == {known.matchIDs[r] : r \in rosters}
  IN  forget(Announce(Announce(Announce(SaveTicket(moved, placed),
                Of(direct), "PotentialMatchCreated"),
                Of(accepted), "Accepted"),
                Of(matches), "MatchmakingSucceeded"), Of(matches))

\* Proposals the tracker does not know under the same creation time.
NewProposals(s, after) ==
  {p.ids : p \in {p \in after : \/ s.matchIDs[p.ids] = NoMatch
                                \/ s.createdAt[s.matchIDs[p.ids]] # p.createdAt}}

CreatedAt(r, after) == (CHOOSE p \in after : p.ids = r).createdAt

\* A ticket of the proposal m after each of the methods called on it.
proposing(t, m) ==
  LET assigned == AssignToProposal(t, m)
  IN  <<assigned, SetPlayerTeams(assigned, m)>>

applyNewProposals(s, after, fresh) ==
  LET new == NewProposals(s, after)
      tracked == assignAt(s, [r \in new |-> fresh[r]], [r \in new |-> CreatedAt(r, after)])
      proposed == s.tickets \cap UNION new
      moved == [tracked EXCEPT
                  !.tk = [t \in Tickets |->
                    IF t \notin proposed THEN s.tk[t]
                    ELSE proposing(s.tk[t], fresh[RosterOf(t, new)])[2]]]
  IN  Announce(SaveTicket(moved, proposed),
               {fresh[r] : r \in new}, "PotentialMatchCreated")

syncActiveTickets(s, e) ==
  LET behind == {t \in s.active : e[t].status \notin {Unknown, s.tk[t].status}}
      late == {s.tk[t].matchID :
                 t \in {t \in behind : /\ s.tk[t].status = "REQUIRES_ACCEPTANCE"
                                       /\ e[t].status = "CANCELLED"
                                       /\ ~s.tk[t].cancelByAPI}} \ {NoMatch}
      rejected == {m \in late : acceptanceFailureOutcome(s, m) = "Rejected"}
      moved == [s EXCEPT !.tk = [t \in Tickets |->
                  IF t \in behind THEN transitionFromEngine(s.tk[t], e[t].status)
                  ELSE s.tk[t]]]
  IN  forget(Announce(Announce(addTicket(SaveTicket(moved, behind), behind),
                rejected, "Rejected"), late \ rejected, "TimedOut"), late)

\* NewID never returns an id twice.
FreshIDs(rosters) ==
  {g \in [rosters -> MatchIDs \ usedIDs] :
     \A r1, r2 \in rosters : g[r1] = g[r2] => r1 = r2}

\* A ticket whose retention has run out finished before this tick.
Finished == {t \in svc.tickets : IsTerminal(svc.tk[t].status)}

\* AssignToProposal or MoveToPlacing refuses the ticket and ends the tick.  The
\* tickets handled before it would keep their changes; TickNeverFails shows
\* that there is no such tick.
Refused(s, rosters, next) ==
  \E t \in s.tickets \cap UNION rosters : ~canTransitionTo(s.tk[t].status, next)

\* What a tick gets from the engine, and the service after settleOldProposals.
\* late are the proposals whose deadline passes between engine.Tick and
\* engine.PendingAcceptances.
EngineTick(timedOut, formed, now, late) ==
  LET matches == TickMatches(formed)
      left    == TickPending(timedOut, formed, now)
      e       == TickTickets(timedOut, formed)
  IN  [matches |-> matches, after |-> left \ late, pending |-> Lapse(left, late),
       eng     |-> MarkCompleted(e, svc.tickets \cap UNION matches),
       settled |-> settleOldProposals(svc, e, matches, left \ late)]

\* The rosters that need a match id at the tick k.
Unnamed(k) == {r \in k.matches : k.settled.matchIDs[r] = NoMatch}
              \cup NewProposals(k.settled, k.after)

\* The service after each of the next phases, given the ids NewID returns.
Finalized(k, fresh) == finalizeMatches(k.settled, k.matches, fresh)
Proposed(k, fresh)  == applyNewProposals(Finalized(k, fresh), k.after, fresh)
Synced(k, fresh)    == syncActiveTickets(Proposed(k, fresh), k.eng)

Tick(k, fresh, expired) ==
  /\ svc' = evictExpiredTickets(Synced(k, fresh), expired)
  /\ eng' = Evicted(k.eng, expired)
  /\ pending' = k.pending
  /\ usedIDs' = usedIDs \cup {fresh[r] : r \in DOMAIN fresh}
  /\ tickFailed' = (\/ tickFailed
                    \/ Refused(k.settled, k.matches, "PLACING")
                    \/ LET s == Finalized(k, fresh)
                       IN  Refused(s, NewProposals(s, k.after), "REQUIRES_ACCEPTANCE"))
  /\ UNCHANGED rejectedIn

-----------------------------------------------------------------------------

Stop == \E t \in Tickets : \E requeued \in SUBSET Siblings(t) : StopMatchmaking(t, requeued)

Start == \E t \in Tickets : StartMatchmaking(t)

Backfill == \E t \in Tickets, session \in BackfillARNs :
              \E requeued \in SUBSET UNION {Siblings(u) : u \in findSessionBackfill(session)} :
                StartMatchBackfill(t, session, requeued)

Decide == \E t \in Tickets, ids \in SUBSET Players :
            \/ AcceptMatch(t, ids)
            \/ RejectMatch(t, ids)
            \/ \E done \in SUBSET ids : AcceptMatchLapses(t, ids, done)

TickOnce == \E timedOut \in SUBSET MayTimeOut, now \in Times, expired \in SUBSET Finished :
              \E formed \in MayForm(Settled(timedOut)) :
                \E late \in SUBSET TickPending(timedOut, formed, now) :
                  LET k == EngineTick(timedOut, formed, now, late)
                  IN  \E fresh \in FreshIDs(Unnamed(k)) : Tick(k, fresh, expired)

DeadlinePasses == /\ \E p \in pending : Deadline(p)
                  /\ UNCHANGED <<svc, usedIDs, rejectedIn, tickFailed>>

Commands == Start \/ Backfill \/ Stop \/ Decide

Next == /\ Commands \/ TickOnce \/ DeadlinePasses
        /\ UNCHANGED AcceptanceRequired

Spec == Init /\ [][Next]_vars

-----------------------------------------------------------------------------
(* Properties *)

status(t) == svc.tk[t].status

\* Every variable has its type.
TypeOK == /\ FlexiTypeOK
          /\ svc \in Service
          /\ usedIDs \subseteq MatchIDs
          /\ rejectedIn \subseteq MatchIDs
          /\ tickFailed \in BOOLEAN

\* Between two steps the service and the engine tell the same story about a
\* ticket, up to what only the next tick may report: an engine that has
\* cancelled the ticket, or has settled the proposal for which the service still
\* shows REQUIRES_ACCEPTANCE, or holds on to a lapsed proposal which the service
\* has given up.  A finished ticket is finished on both sides, which is what
\* lets Evict and a reuse of its id work.
EngineAgrees ==
  \A t \in Tickets :
    LET e == eng[t].status
    IN  /\ t \notin svc.tickets => e = Unknown
        /\ t \in svc.tickets =>
             \/ e = status(t)
             \/ e \in InPool \cup {"CANCELLED"} /\ status(t) \in InPool
             \/ e \in {"SEARCHING", "CANCELLED"} /\ status(t) = "REQUIRES_ACCEPTANCE"
             \/ /\ e = "REQUIRES_ACCEPTANCE" /\ status(t) \in InPool
                /\ \A p \in pending : t \in p.ids => p.expired

\* The tracker and the tickets agree: a match is tracked exactly while its
\* tickets are in REQUIRES_ACCEPTANCE for it, with exactly these tickets, and
\* every proposal players may still answer is tracked as one match.
ProposalsTracked ==
  /\ \A m \in MatchIDs :
       svc.byMatch[m] = {t \in svc.tickets : /\ status(t) = "REQUIRES_ACCEPTANCE"
                                             /\ svc.tk[t].matchID = m}
  /\ \A p \in PendingAcceptances :
       /\ svc.matchIDs[p.ids] \in MatchIDs
       /\ svc.byMatch[svc.matchIDs[p.ids]] = p.ids
       /\ svc.createdAt[svc.matchIDs[p.ids]] = p.createdAt

\* No tick is cut short by a transition the status machine refuses: whatever
\* commands came in between, the engine never matches a ticket the service
\* has already finished.
TickNeverFails == ~tickFailed

TypesOf(details) == [i \in DOMAIN details |-> details[i].type]

\* What a subscriber sees of one match: it is announced once and first, its
\* acceptance phase is reported at most once, and it succeeds only as an
\* accepted or a direct match, after which nothing follows.
LegalMatchFeeds ==
  LET P == "PotentialMatchCreated"  A == "AcceptMatch"  S == "MatchmakingSucceeded"
  IN  IF AcceptanceRequired
      THEN {<<>>, <<P>>, <<P, A>>, <<P, "TimedOut">>, <<P, A, "TimedOut">>,
            <<P, A, "Rejected">>, <<P, A, "Accepted", S>>}
      ELSE {<<>>, <<P, S>>}

MatchFeedLegal ==
  \A m \in MatchIDs : /\ TypesOf(svc.matchFeed[m]) \in LegalMatchFeeds
                      /\ m \notin usedIDs => svc.matchFeed[m] = <<>>

Reported(m, outcome) == \E i \in DOMAIN svc.matchFeed[m] : svc.matchFeed[m][i].type = outcome

\* AcceptMatchCompleted blames a player exactly when one rejected this match:
\* decisions never leak from an earlier match of the same ticket.
OutcomeFaithful ==
  \A m \in MatchIDs : /\ Reported(m, "Rejected") => m \in rejectedIn
                      /\ m \in rejectedIn => ~Reported(m, "TimedOut") /\ ~Reported(m, "Accepted")

\* What a subscriber sees of one ticket: searching first, and last either
\* searching still or one cancellation or timeout, exactly when the ticket
\* ended that way; no recorded event is left unpublished or published twice.
FeedLegal ==
  \A t \in svc.tickets :
    LET f == TypesOf(svc.feed[t])
        final == CASE status(t) = "CANCELLED" -> "MatchmakingCancelled"
                   [] status(t) = "TIMED_OUT" -> "MatchmakingTimedOut"
                   [] OTHER                   -> "MatchmakingSearching"
    IN  /\ f # <<>> /\ f[Len(f)] = final
        /\ \A i \in 1..(Len(f) - 1) : f[i] = "MatchmakingSearching"
        /\ svc.tk[t].events = <<>>

\* A notification is delivered later than it is generated and shows the teams of
\* the moment it is about: those of its own match for every ticket of it, also
\* when the proposal has failed since, and none of a failed proposal when a
\* ticket searches again.
EventCarriesItsTeams ==
  /\ \A m \in MatchIDs : \A i \in DOMAIN svc.matchFeed[m] : svc.matchFeed[m][i].teams = {m}
  /\ \A t \in svc.tickets : \A i \in DOMAIN svc.feed[t] :
       svc.feed[t][i].type = "MatchmakingSearching" =>
         svc.feed[t][i].teams = {IF svc.tk[t].isBackfill THEN "seats" ELSE "none"}

\* A ticket back in the pool carries nothing over from the proposal that
\* failed, a proposed one no status reason from before, and the teams of a
\* proposed or matched one are those of its own match.
CleanSlate ==
  \A t \in svc.tickets :
    /\ status(t) \in InPool =>
         /\ svc.tk[t].matchID = NoMatch
         /\ svc.tk[t].acceptances = Undecided
         /\ svc.tk[t].teams = IF svc.tk[t].isBackfill THEN "seats" ELSE "none"
    /\ status(t) = "REQUIRES_ACCEPTANCE" => svc.tk[t].reason = ""
    /\ status(t) \in {"REQUIRES_ACCEPTANCE", "COMPLETED"} =>
         svc.tk[t].teams = svc.tk[t].matchID

\* A game session has at most one outstanding backfill request.
OneBackfillPerSession ==
  \A t, u \in svc.active :
    svc.tk[t].isBackfill /\ svc.tk[u].isBackfill /\ svc.tk[t].session = svc.tk[u].session
    /\ svc.tk[t].session # NoSession => t = u

\* A finished ticket never changes its status or its match again; it can only
\* be evicted.
TerminalIsFinal ==
  [][\A t \in svc.tickets : IsTerminal(status(t)) /\ t \in svc.tickets' =>
        /\ status(t)' = status(t)
        /\ svc.tk'[t].matchID = svc.tk[t].matchID]_vars

\* Once StopMatchmaking has returned for an active ticket, the ticket can only
\* be cancelled: it is never matched, requeued or timed out afterwards.
StopWins ==
  [][\A t \in svc.tickets :
        ~IsTerminal(status(t)) /\ svc.tk[t].cancelByAPI /\ status(t)' # status(t)
        => status(t)' = "CANCELLED"]_vars

\* docs/feature/publishers.md: AcceptMatchCompleted is emitted when "a player
\* rejected (`Rejected`)".  Stated of every match that is over.
RejectionAnnounced ==
  \A m \in rejectedIn : svc.byMatch[m] = {} => Reported(m, "Rejected")
=============================================================================
