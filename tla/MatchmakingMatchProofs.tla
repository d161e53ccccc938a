----------------------- MODULE MatchmakingMatchProofs -----------------------
(***************************************************************************)
(* What is published of one match: proofs about Matchmaking for every set  *)
(* of tickets, players, rosters and match ids.                             *)
(***************************************************************************)
EXTENDS MatchmakingFeedProofs

-----------------------------------------------------------------------------
(* What each method publishes of the matches *)

\* An event of the match m that shows the teams of m.
About(m, event) == [type |-> event, teams |-> {m}]

Hushed(s, u) == HasFeed(u) /\ u.matchFeed = s.matchFeed

\* The matches M publish an event, with the teams their tickets have in s.
Says(s, u, M, event) ==
  \A m \in MatchIDs :
    u.matchFeed[m] = IF m \in M THEN Append(s.matchFeed[m],
                                            buildDetail(event, snapshot(s, s.byMatch[m])))
                     ELSE s.matchFeed[m]

\* The same tickets in the same matches.
SameTeams(s, u) == u.tickets = s.tickets /\ u.tk = s.tk /\ u.byMatch = s.byMatch

LEMMA SaveHushed ==
  ASSUME NEW s, HasFeed(s), NEW S
  PROVE  Hushed(s, SaveTicket(s, S)) /\ SameTeams(s, SaveTicket(s, S))
BY DEF Hushed, HasFeed, SameTeams, SaveTicket

LEMMA ForgetHushed == ASSUME NEW s, HasFeed(s), NEW M PROVE Hushed(s, forget(s, M))
BY DEF Hushed, HasFeed, forget

LEMMA AssignHushed ==
  ASSUME NEW s, HasFeed(s), NEW ids, NEW times
  PROVE  Hushed(s, assignAt(s, ids, times))
BY DEF Hushed, HasFeed, assignAt

LEMMA SetHushed == ASSUME NEW s, HasFeed(s), NEW tk PROVE Hushed(s, [s EXCEPT !.tk = tk])
BY DEF Hushed, HasFeed

LEMMA AddTicketHushed == ASSUME NEW s, HasFeed(s), NEW S PROVE Hushed(s, addTicket(s, S))
BY DEF Hushed, HasFeed, addTicket

LEMMA EvictHushed ==
  ASSUME NEW s, HasFeed(s), NEW expired
  PROVE  Hushed(s, evictExpiredTickets(s, expired))
BY DEF Hushed, HasFeed, evictExpiredTickets

LEMMA AnnounceSays ==
  ASSUME NEW s, HasFeed(s), NEW M, NEW event
  PROVE  LET u == Announce(s, M, event)
         IN  HasFeed(u) /\ SameTeams(s, u) /\ Says(s, u, M, event)
<1>. DEFINE g == [m \in MatchIDs |->
                    IF m \notin M THEN s.matchFeed[m]
                    ELSE Append(s.matchFeed[m],
                                buildDetail(event, snapshot(s, s.byMatch[m])))]
            u == [s EXCEPT !.matchFeed = g]
<1>1. u = Announce(s, M, event)
  BY DEF Announce
<1>2. \A m \in MatchIDs : g[m] = IF m \in M THEN Append(s.matchFeed[m],
                                            buildDetail(event, snapshot(s, s.byMatch[m])))
                                 ELSE s.matchFeed[m]
  OBVIOUS
<1>. HIDE DEF g
<1>3. HasFeed(u) /\ SameTeams(s, u) /\ u.matchFeed = g
  BY DEF HasFeed, SameTeams
<1>. HIDE DEF u
<1>. QED
  BY <1>1, <1>2, <1>3 DEF Says

\* The outcome completeAcceptance reports of a match.
Outcome(s, m) == buildDetail(acceptanceFailureOutcome(s, m), snapshot(s, s.byMatch[m]))

Concludes(s, u, M) ==
  \A m \in MatchIDs : u.matchFeed[m] = IF m \in M THEN Append(s.matchFeed[m], Outcome(s, m))
                                       ELSE s.matchFeed[m]

LEMMA CompleteAcceptanceSays ==
  ASSUME NEW s, HasFeed(s), NEW M
  PROVE  LET u == completeAcceptance(s, M)
         IN  HasFeed(u) /\ Concludes(s, u, M)
<1>. DEFINE rejected == {m \in M : acceptanceFailureOutcome(s, m) = "Rejected"}
            v == Announce(s, rejected, "Rejected")
            u == Announce(v, M \ rejected, "TimedOut")
<1>1. u = completeAcceptance(s, M)
  BY DEF completeAcceptance
<1>2. /\ \A m : m \in rejected <=> m \in M /\ acceptanceFailureOutcome(s, m) = "Rejected"
      /\ \A m : acceptanceFailureOutcome(s, m) \in {"Rejected", "TimedOut"}
  BY DEF acceptanceFailureOutcome
<1>. HIDE DEF rejected
<1>3. HasFeed(v) /\ SameTeams(s, v) /\ Says(s, v, rejected, "Rejected")
  BY AnnounceSays
<1>. HIDE DEF v
<1>4. HasFeed(u) /\ SameTeams(v, u) /\ Says(v, u, M \ rejected, "TimedOut")
  BY <1>3, AnnounceSays
<1>. HIDE DEF u
<1>5. \A m : snapshot(v, v.byMatch[m]) = snapshot(s, s.byMatch[m])
  BY <1>3 DEF SameTeams, snapshot
<1>6. ASSUME NEW m \in MatchIDs
      PROVE  u.matchFeed[m] = IF m \in M THEN Append(s.matchFeed[m], Outcome(s, m))
                              ELSE s.matchFeed[m]
  BY <1>2, <1>3, <1>4, <1>5 DEF Says, Outcome
<1>. QED
  BY <1>1, <1>4, <1>6 DEF Concludes

LEMMA SettleSays ==
  ASSUME NEW s \in Service, NEW e, NEW matches, NEW after
  PROVE  LET u == settleOldProposals(s, e, matches, after)
             gone == SettledProposals(s, matches, after)
         IN  Concludes(s, u, {m \in gone : ~CancelledByAPI(s, m)})
<1>. DEFINE gone == SettledProposals(s, matches, after)
            told == {m \in gone : ~CancelledByAPI(s, m)}
            v == completeAcceptance(s, told)
            left == Leaving(v, e, gone)
            tk == [t \in Tickets |-> IF t \notin left THEN v.tk[t] ELSE Released(v, e, t)]
            moved == [v EXCEPT !.tk = tk]
            saved == SaveTicket(moved, left)
            w == addTicket(saved, left)
            u == forget(w, gone)
<1>1. u = settleOldProposals(s, e, matches, after)
  BY DEF settleOldProposals, releaseTickets, Leaving, Released
<1>. HIDE DEF gone, told
<1>2. HasFeed(v) /\ Concludes(s, v, told)
  BY ServiceHasFeed, CompleteAcceptanceSays
<1>. HIDE DEF v, left, tk
<1>3. Hushed(v, moved)
  BY <1>2, SetHushed
<1>. HIDE DEF moved
<1>4. Hushed(moved, saved)
  BY <1>3, SaveHushed DEF Hushed
<1>. HIDE DEF saved
<1>5. Hushed(saved, w)
  BY <1>4, AddTicketHushed DEF Hushed
<1>. HIDE DEF w
<1>6. Hushed(w, u)
  BY <1>5, ForgetHushed DEF Hushed
<1>. HIDE DEF u
<1>7. Concludes(s, u, told)
  BY <1>2, <1>3, <1>4, <1>5, <1>6 DEF Concludes, Hushed
<1>. QED
  BY <1>1, <1>7 DEF told, gone

LEMMA SyncHushed ==
  ASSUME NEW s \in Service, NEW e,
         \A t \in Behind(s, e) : s.tk[t].status # "REQUIRES_ACCEPTANCE"
  PROVE  \A m \in MatchIDs : syncActiveTickets(s, e).matchFeed[m] = s.matchFeed[m]
<1>. DEFINE behind == Behind(s, e)
            late == {s.tk[t].matchID :
                       t \in {t \in behind : /\ s.tk[t].status = "REQUIRES_ACCEPTANCE"
                                             /\ e[t].status = "CANCELLED"
                                             /\ ~s.tk[t].cancelByAPI}} \ {NoMatch}
            rejected == {m \in late : acceptanceFailureOutcome(s, m) = "Rejected"}
            tk == [t \in Tickets |-> IF t \in behind THEN transitionFromEngine(s.tk[t], e[t].status)
                                     ELSE s.tk[t]]
            moved == [s EXCEPT !.tk = tk]
            saved == SaveTicket(moved, behind)
            w == addTicket(saved, behind)
            told1 == Announce(w, rejected, "Rejected")
            told2 == Announce(told1, late \ rejected, "TimedOut")
            u == forget(told2, late)
<1>1. u = syncActiveTickets(s, e)
  BY DEF syncActiveTickets, Behind
<1>2. late = {}
  BY DEF late, behind
<1>3. rejected = {} /\ late \ rejected = {}
  BY <1>2
<1>. HIDE DEF late, rejected, behind, tk
<1>4. Hushed(s, moved)
  BY ServiceHasFeed, SetHushed
<1>. HIDE DEF moved
<1>5. Hushed(moved, saved)
  BY <1>4, SaveHushed DEF Hushed
<1>. HIDE DEF saved
<1>6. Hushed(saved, w)
  BY <1>5, AddTicketHushed DEF Hushed
<1>. HIDE DEF w
<1>7. HasFeed(told1) /\ Says(w, told1, {}, "Rejected")
  BY <1>3, <1>6, AnnounceSays DEF Hushed
<1>. HIDE DEF told1
<1>8. HasFeed(told2) /\ Says(told1, told2, {}, "TimedOut")
  BY <1>3, <1>7, AnnounceSays
<1>. HIDE DEF told2
<1>9. Hushed(told2, u)
  BY <1>8, ForgetHushed
<1>. HIDE DEF u
<1>. QED
  BY <1>1, <1>4, <1>5, <1>6, <1>7, <1>8, <1>9 DEF Says, Hushed

LEMMA PlacedTeams ==
  ASSUME NEW x \in Ticket, NEW m
  PROVE  placing(x, m)[3].teams = m
<1>. DEFINE seated == SetPlayerTeams(x, m)
            placed == MoveToPlacing(seated, m)
<1>1. seated = [x EXCEPT !.teams = m]
  BY DEF SetPlayerTeams
<1>2. "teams" \in DOMAIN seated /\ seated.teams = m
  BY <1>1 DEF Ticket
<1>. HIDE DEF seated
<1>3. "teams" \in DOMAIN placed /\ placed.teams = m
  BY <1>2 DEF MoveToPlacing
<1>4. placing(x, m)[3] = Complete(placed)
  BY DEF placing, seated
<1>. HIDE DEF placed
<1>. QED
  BY <1>3, <1>4 DEF Complete

LEMMA ProposedTeams ==
  ASSUME NEW x \in Ticket, NEW m
  PROVE  proposing(x, m)[2].teams = m /\ proposing(x, m)[2].acceptances = x.acceptances
<1>. DEFINE assigned == AssignToProposal(x, m)
<1>1. "teams" \in DOMAIN assigned /\ assigned.acceptances = x.acceptances
  BY DEF AssignToProposal, Ticket
<1>2. proposing(x, m)[2] = [assigned EXCEPT !.teams = m]
  BY DEF proposing, SetPlayerTeams
<1>. HIDE DEF assigned
<1>. QED
  BY <1>1, <1>2

\* The teams of the match m are shown when all its tickets have them.
LEMMA TeamsShown ==
  ASSUME NEW s, NEW m, NEW r, s.byMatch[m] = r, r # {}, r \subseteq s.tickets,
         \A t \in r : s.tk[t].teams = m
  PROVE  \A event : buildDetail(event, snapshot(s, s.byMatch[m])) = About(m, event)
<1>1. snapshot(s, s.byMatch[m]) = {m}
  <2>1. r \cap s.tickets = r
    OBVIOUS
  <2>. QED
    BY <2>1 DEF snapshot
<1>. QED
  BY <1>1 DEF buildDetail, About

Accepts(s, r) == AcceptanceRequired /\ \E t \in r \cap s.tickets : s.tk[t].status = "REQUIRES_ACCEPTANCE"

\* What a match is told to be, whose tickets were matched directly or were in a proposal.
Success(s, r, m, g) ==
  LET posed == IF s.matchIDs[r] = NoMatch THEN Append(g, About(m, "PotentialMatchCreated")) ELSE g
      done  == IF Accepts(s, r) THEN Append(posed, About(m, "Accepted")) ELSE posed
  IN  Append(done, About(m, "MatchmakingSucceeded"))

Succeeds(s, u, matches, fresh) ==
  /\ \A r \in matches : LET m == MatchOf(s, fresh, r)
                        IN  m \in MatchIDs /\ u.matchFeed[m] = Success(s, r, m, s.matchFeed[m])
  /\ \A m \in MatchIDs : (\A r \in matches : m # MatchOf(s, fresh, r)) =>
                           u.matchFeed[m] = s.matchFeed[m]

LEMMA FinalizeSays ==
  ASSUME NEW s \in Service, Paired(s), NEW matches \in SUBSET Rosters,
         NEW D, NEW fresh, Names(fresh, D, s),
         \A r \in matches : s.matchIDs[r] = NoMatch => r \in D,
         \A q, r \in matches : q \cap r # {} => q = r,
         \A r \in matches : r \subseteq s.tickets
  PROVE  Succeeds(s, finalizeMatches(s, matches, fresh), matches, fresh)
<1>. DEFINE direct == {r \in matches : s.matchIDs[r] = NoMatch}
            ids == [r \in direct |-> fresh[r]]
            times == [r \in direct |-> NoTime]
            known == assignAt(s, ids, times)
            placed == s.tickets \cap UNION matches
            accepted == {r \in matches : /\ AcceptanceRequired
                                         /\ \E t \in r \cap s.tickets :
                                              s.tk[t].status = "REQUIRES_ACCEPTANCE"}
            Id(r) == known.matchIDs[r]
            tk == [t \in Tickets |-> IF t \notin placed THEN s.tk[t]
                    ELSE placing(s.tk[t], known.matchIDs[RosterOf(t, matches)])[3]]
            Of(rosters) == {known.matchIDs[r] : r \in rosters}
            moved == [known EXCEPT !.tk = tk]
            saved == SaveTicket(moved, placed)
            told1 == Announce(saved, Of(direct), "PotentialMatchCreated")
            told2 == Announce(told1, Of(accepted), "Accepted")
            told3 == Announce(told2, Of(matches), "MatchmakingSucceeded")
            u == forget(told3, Of(matches))
<1>1. u = finalizeMatches(s, matches, fresh)
  BY DEF finalizeMatches
<1>2. /\ known \in Service /\ KeepsTickets(s, known)
      /\ Assigns(s, known, direct, fresh) /\ Hushed(s, known)
  <2>1. direct \in SUBSET Rosters /\ direct \subseteq D
    OBVIOUS
  <2>2. /\ ids \in [direct -> MatchIDs] /\ times \in [direct -> Times \cup {NoTime}]
        /\ \A r \in direct : ids[r] = fresh[r]
        /\ \A r1, r2 \in direct : ids[r1] = ids[r2] => r1 = r2
    BY <2>1 DEF Names
  <2>. HIDE DEF direct, ids, times
  <2>3. KeepsTickets(s, known) /\ known \in Service /\ Assigns(s, known, direct, ids)
    BY <2>1, <2>2, AssignAtEffect
  <2>4. Assigns(s, known, direct, fresh)
    BY <2>2, <2>3 DEF Assigns
  <2>5. Hushed(s, known)
    BY ServiceHasFeed, AssignHushed
  <2>. QED
    BY <2>3, <2>4, <2>5
<1>3. /\ \A r : r \in direct <=> r \in matches /\ s.matchIDs[r] = NoMatch
      /\ \A r : r \in accepted <=> r \in matches /\ Accepts(s, r)
      /\ direct \subseteq matches /\ accepted \subseteq matches
  BY DEF Accepts
<1>. HIDE DEF direct, accepted, ids, times, known
<1>4. ASSUME NEW r \in matches
      PROVE  /\ Id(r) = MatchOf(s, fresh, r) /\ Id(r) \in MatchIDs /\ known.byMatch[Id(r)] = r
             /\ r # {} /\ r \in Rosters
  <2>1. r \in Rosters /\ r # {} /\ s.matchIDs[r] \in MatchIDs \cup {NoMatch}
    BY FlexiConstants, ServiceFields DEF FlexiConstants
  <2>2. CASE r \in direct
    BY <1>2, <1>3, <2>1, <2>2 DEF Assigns, MatchOf, Names
  <2>3. CASE r \notin direct
    <3>1. s.matchIDs[r] # NoMatch /\ s.byMatch[s.matchIDs[r]] = r /\ Id(r) = s.matchIDs[r]
      BY <1>2, <1>3, <2>1, <2>3 DEF Assigns, Paired
    <3>2. \A q \in direct : fresh[q] # s.matchIDs[r]
      BY <1>3, <2>1, <3>1 DEF Names
    <3>3. known.byMatch[s.matchIDs[r]] = r
      BY <1>2, <2>1, <3>1, <3>2 DEF Assigns
    <3>. QED
      BY <2>1, <3>1, <3>3 DEF MatchOf
  <2>. QED
    BY <2>2, <2>3
<1>5. \A q, r \in matches : Id(q) = Id(r) => q = r
  BY <1>4
<1>6. ASSUME NEW r \in matches
      PROVE  \A t \in r : tk[t].teams = Id(r)
  <2>. SUFFICES ASSUME NEW t \in r PROVE tk[t].teams = Id(r)
    OBVIOUS
  <2>1. t \in s.tickets /\ t \in UNION matches /\ t \in Tickets /\ s.tk[t] \in Ticket
    BY ServiceFields
  <2>2. RosterOf(t, matches) = r
    BY <2>1, RosterOfTicket
  <2>3. tk[t] = placing(s.tk[t], Id(r))[3]
    BY <2>1, <2>2
  <2>. QED
    BY <2>1, <2>3, PlacedTeams
<1>7. HasFeed(moved) /\ moved.matchFeed = s.matchFeed /\ moved.tk = tk
      /\ moved.tickets = s.tickets /\ moved.byMatch = known.byMatch
  <2>. HIDE DEF tk
  <2>. QED
    BY <1>2 DEF Hushed, HasFeed, KeepsTickets
<1>. HIDE DEF moved, tk, placed
<1>8. Hushed(moved, saved) /\ SameTeams(moved, saved)
  BY <1>7, SaveHushed
<1>. HIDE DEF saved
<1>. DEFINE M1 == Of(direct)
            M2 == Of(accepted)
            M3 == Of(matches)
<1>9. \A r \in matches : /\ Id(r) \in M1 <=> r \in direct
                         /\ Id(r) \in M2 <=> r \in accepted
                         /\ Id(r) \in M3
  BY <1>3, <1>5
<1>10. \A m : (\A r \in matches : m # Id(r)) => m \notin M1 /\ m \notin M2 /\ m \notin M3
  BY <1>3
<1>. HIDE DEF M1, M2, M3
<1>11. HasFeed(told1) /\ SameTeams(saved, told1) /\ Says(saved, told1, M1, "PotentialMatchCreated")
  BY <1>8, AnnounceSays DEF Hushed, M1
<1>. HIDE DEF told1
<1>12. HasFeed(told2) /\ SameTeams(told1, told2) /\ Says(told1, told2, M2, "Accepted")
  BY <1>11, AnnounceSays DEF M2
<1>. HIDE DEF told2
<1>13. HasFeed(told3) /\ SameTeams(told2, told3) /\ Says(told2, told3, M3, "MatchmakingSucceeded")
  BY <1>12, AnnounceSays DEF M3
<1>. HIDE DEF told3
<1>14. Hushed(told3, u)
  BY <1>13, ForgetHushed
<1>. HIDE DEF u, Of
<1>15. ASSUME NEW m \in MatchIDs, \A r \in matches : m # Id(r)
       PROVE  u.matchFeed[m] = s.matchFeed[m]
  <2>1. m \notin M1 /\ m \notin M2 /\ m \notin M3
    BY <1>10, <1>15
  <2>. QED
    BY <1>7, <1>8, <1>11, <1>12, <1>13, <1>14, <2>1 DEF Says, Hushed
<1>16. ASSUME NEW r \in matches
       PROVE  u.matchFeed[Id(r)] = Success(s, r, Id(r), s.matchFeed[Id(r)])
  <2>. DEFINE m == Id(r)
  <2>1. /\ m \in MatchIDs
        /\ m \in M1 <=> s.matchIDs[r] = NoMatch
        /\ m \in M2 <=> Accepts(s, r)
        /\ m \in M3
    BY <1>3, <1>4, <1>9
  <2>2. r \subseteq s.tickets /\ r # {} /\ known.byMatch[m] = r /\ \A t \in r : tk[t].teams = m
    BY <1>4, <1>6
  <2>. HIDE DEF m
  <2>3. /\ \A event : buildDetail(event, snapshot(saved, saved.byMatch[m])) = About(m, event)
        /\ \A event : buildDetail(event, snapshot(told1, told1.byMatch[m])) = About(m, event)
        /\ \A event : buildDetail(event, snapshot(told2, told2.byMatch[m])) = About(m, event)
    <3>1. saved.byMatch[m] = r /\ saved.tickets = s.tickets /\ saved.tk = tk
      BY <1>7, <1>8, <2>2 DEF SameTeams
    <3>2. told1.byMatch[m] = r /\ told1.tickets = s.tickets /\ told1.tk = tk
      BY <1>11, <3>1 DEF SameTeams
    <3>3. told2.byMatch[m] = r /\ told2.tickets = s.tickets /\ told2.tk = tk
      BY <1>12, <3>2 DEF SameTeams
    <3>4. \A event : buildDetail(event, snapshot(saved, saved.byMatch[m])) = About(m, event)
      BY <2>2, <3>1, TeamsShown
    <3>5. \A event : buildDetail(event, snapshot(told1, told1.byMatch[m])) = About(m, event)
      BY <2>2, <3>2, TeamsShown
    <3>6. \A event : buildDetail(event, snapshot(told2, told2.byMatch[m])) = About(m, event)
      BY <2>2, <3>3, TeamsShown
    <3>. QED
      BY <3>4, <3>5, <3>6
  <2>. DEFINE posed == IF s.matchIDs[r] = NoMatch
                       THEN Append(s.matchFeed[m], About(m, "PotentialMatchCreated"))
                       ELSE s.matchFeed[m]
              done  == IF Accepts(s, r) THEN Append(posed, About(m, "Accepted")) ELSE posed
  <2>4. told1.matchFeed[m] = posed
    BY <1>7, <1>8, <1>11, <2>1, <2>3 DEF Says, Hushed
  <2>. HIDE DEF posed
  <2>5. told2.matchFeed[m] = done
    BY <1>12, <2>1, <2>3, <2>4 DEF Says
  <2>. HIDE DEF done
  <2>6. u.matchFeed[m] = Append(done, About(m, "MatchmakingSucceeded"))
    <3>1. told3.matchFeed[m] = Append(told2.matchFeed[m],
                                      buildDetail("MatchmakingSucceeded",
                                                  snapshot(told2, told2.byMatch[m])))
      BY <1>13, <2>1 DEF Says
    <3>2. buildDetail("MatchmakingSucceeded", snapshot(told2, told2.byMatch[m]))
            = About(m, "MatchmakingSucceeded")
      BY <2>3, Zenon
    <3>. QED
      BY <1>14, <2>5, <3>1, <3>2 DEF Hushed
  <2>7. u.matchFeed[m] = Success(s, r, m, s.matchFeed[m])
    BY <2>6 DEF Success, posed, done
  <2>. QED
    BY <2>7 DEF m
<1>17. Succeeds(s, u, matches, fresh)
  <2>1. ASSUME NEW r \in matches
        PROVE  /\ MatchOf(s, fresh, r) \in MatchIDs
               /\ u.matchFeed[MatchOf(s, fresh, r)] =
                    Success(s, r, MatchOf(s, fresh, r), s.matchFeed[MatchOf(s, fresh, r)])
    <3>1. Id(r) = MatchOf(s, fresh, r) /\ Id(r) \in MatchIDs
      BY <1>4
    <3>. HIDE DEF Id
    <3>. QED
      BY <1>16, <3>1
  <2>2. \A r \in matches : Id(r) = MatchOf(s, fresh, r)
    BY <1>4
  <2>. HIDE DEF Id
  <2>3. ASSUME NEW m \in MatchIDs, \A r \in matches : m # MatchOf(s, fresh, r)
        PROVE  u.matchFeed[m] = s.matchFeed[m]
    BY <1>15, <2>2, <2>3
  <2>. QED
    BY <2>1, <2>3 DEF Succeeds
<1>. QED
  BY <1>1, <1>17

Poses(s, u, new, fresh) ==
  /\ \A r \in new : u.matchFeed[fresh[r]] =
                      Append(s.matchFeed[fresh[r]], About(fresh[r], "PotentialMatchCreated"))
  /\ \A m \in MatchIDs : (\A r \in new : m # fresh[r]) => u.matchFeed[m] = s.matchFeed[m]

LEMMA ProposeSays ==
  ASSUME NEW s \in Service, NEW after \in SUBSET Proposal,
         \A p \in after : p.ids \in Rosters,
         NEW D, NEW fresh, Names(fresh, D, s), NewProposals(s, after) \subseteq D,
         Newcomers(s, after)
  PROVE  Poses(s, applyNewProposals(s, after, fresh), NewProposals(s, after), fresh)
<1>. DEFINE new == NewProposals(s, after)
            ids == [r \in new |-> fresh[r]]
            times == [r \in new |-> CreatedAt(r, after)]
            tracked == assignAt(s, ids, times)
            proposed == s.tickets \cap UNION new
            tk == [t \in Tickets |-> IF t \notin proposed THEN s.tk[t]
                    ELSE proposing(s.tk[t], fresh[RosterOf(t, new)])[2]]
            moved == [tracked EXCEPT !.tk = tk]
            saved == SaveTicket(moved, proposed)
            M == {fresh[r] : r \in new}
            u == Announce(saved, M, "PotentialMatchCreated")
<1>1. u = applyNewProposals(s, after, fresh)
  BY DEF applyNewProposals
<1>2. /\ tracked \in Service /\ KeepsTickets(s, tracked)
      /\ Assigns(s, tracked, new, fresh) /\ Hushed(s, tracked)
  <2>1. new \in SUBSET Rosters /\ new \subseteq D
    BY DEF Newcomers
  <2>2. \A r \in new : CreatedAt(r, after) \in Times \cup {NoTime}
    BY DEF Newcomers, Proposal
  <2>3. /\ ids \in [new -> MatchIDs] /\ times \in [new -> Times \cup {NoTime}]
        /\ \A r \in new : ids[r] = fresh[r]
        /\ \A r1, r2 \in new : ids[r1] = ids[r2] => r1 = r2
    BY <2>1, <2>2 DEF Names
  <2>. HIDE DEF new, ids, times
  <2>4. KeepsTickets(s, tracked) /\ tracked \in Service /\ Assigns(s, tracked, new, ids)
    BY <2>1, <2>3, AssignAtEffect
  <2>5. Assigns(s, tracked, new, fresh)
    BY <2>3, <2>4 DEF Assigns
  <2>6. Hushed(s, tracked)
    BY ServiceHasFeed, AssignHushed
  <2>. QED
    BY <2>4, <2>5, <2>6
<1>3. ASSUME NEW r \in new
      PROVE  /\ r \in Rosters /\ r # {} /\ r \subseteq s.tickets /\ fresh[r] \in MatchIDs
             /\ tracked.byMatch[fresh[r]] = r
  <2>1. r \in Rosters /\ r \subseteq s.tickets
    BY DEF Newcomers
  <2>2. r # {} /\ r \in D
    BY <2>1, FlexiConstants DEF FlexiConstants
  <2>. QED
    BY <1>2, <2>1, <2>2 DEF Assigns, Names
<1>4. ASSUME NEW r \in new, NEW t \in r PROVE tk[t].teams = fresh[r]
  <2>1. t \in s.tickets /\ t \in UNION new /\ t \in Tickets /\ s.tk[t] \in Ticket
    BY <1>3, ServiceFields
  <2>2. RosterOf(t, new) = r
    BY <2>1, RosterOfTicket DEF Newcomers
  <2>3. tk[t] = proposing(s.tk[t], fresh[r])[2]
    BY <2>1, <2>2
  <2>. QED
    BY <2>1, <2>3, ProposedTeams
<1>. HIDE DEF new, tracked, proposed
<1>5. HasFeed(moved) /\ moved.matchFeed = s.matchFeed /\ moved.tk = tk
      /\ moved.tickets = s.tickets /\ moved.byMatch = tracked.byMatch
  <2>. HIDE DEF tk
  <2>. QED
    BY <1>2 DEF Hushed, HasFeed, KeepsTickets
<1>. HIDE DEF moved, tk
<1>6. Hushed(moved, saved) /\ SameTeams(moved, saved)
  BY <1>5, SaveHushed
<1>. HIDE DEF saved
<1>7. \A r \in new : fresh[r] \in M
  OBVIOUS
<1>8. \A m : (\A r \in new : m # fresh[r]) => m \notin M
  OBVIOUS
<1>. HIDE DEF M
<1>9. Says(saved, u, M, "PotentialMatchCreated")
  BY <1>6, AnnounceSays DEF Hushed
<1>. HIDE DEF u
<1>10. ASSUME NEW r \in new
       PROVE  u.matchFeed[fresh[r]] =
                Append(s.matchFeed[fresh[r]], About(fresh[r], "PotentialMatchCreated"))
  <2>. DEFINE m == fresh[r]
  <2>1. /\ saved.byMatch[m] = r /\ saved.tickets = s.tickets /\ saved.tk = tk /\ m \in MatchIDs
        /\ r # {} /\ r \subseteq s.tickets /\ \A t \in r : tk[t].teams = m /\ m \in M
    BY <1>3, <1>4, <1>5, <1>6, <1>7 DEF SameTeams
  <2>2. m \in M
    BY <1>7
  <2>. HIDE DEF m
  <2>3. \A event : buildDetail(event, snapshot(saved, saved.byMatch[m])) = About(m, event)
    BY <2>1, TeamsShown
  <2>4. u.matchFeed[m] = Append(s.matchFeed[m], About(m, "PotentialMatchCreated"))
    BY <1>5, <1>6, <1>9, <2>1, <2>2, <2>3 DEF Says, Hushed
  <2>. QED
    BY <2>4 DEF m
<1>11. ASSUME NEW m \in MatchIDs, \A r \in new : m # fresh[r]
       PROVE  u.matchFeed[m] = s.matchFeed[m]
  BY <1>5, <1>6, <1>8, <1>9, <1>11 DEF Says, Hushed
<1>. QED
  BY <1>1, <1>10, <1>11 DEF Poses, new

-----------------------------------------------------------------------------
(* What a tick publishes of the matches *)

\* The feeds and the tracker through the phases of a tick, from svc over s1 and s2 to u.
TickFeeds(matches, gone, new, D, fresh, s1, s2, u) ==
  /\ Concludes(svc, s1, {m \in gone : ~CancelledByAPI(svc, m)})
  /\ Succeeds(s1, s2, matches, fresh)
  /\ Poses(s2, u, new, fresh)
  /\ gone \subseteq MatchIDs /\ \A m \in gone : svc.byMatch[m] # {} /\ svc.byMatch[m] \notin matches
  /\ \A m \in MatchIDs :
       /\ s1.byMatch[m] = IF m \in gone THEN {} ELSE svc.byMatch[m]
       /\ s2.byMatch[m] = IF s1.byMatch[m] \in matches THEN {} ELSE s1.byMatch[m]
       /\ (\A r \in new : m # fresh[r]) => u.byMatch[m] = s2.byMatch[m]
  /\ \A r \in new : u.byMatch[fresh[r]] = r
  /\ Paired(s1) /\ s1 \in Service /\ \A m \in MatchIDs : s1.byMatch[m] = Waiting(s1, m)
  /\ matches \subseteq Rosters
  /\ \A r \in matches : s1.matchIDs[r] = NoMatch => r \in D
  /\ new \subseteq D /\ \A r \in D : fresh[r] \in MatchIDs \ usedIDs /\ fresh[r] \in usedIDs'

LEMMA TickRunFeeds ==
  ASSUME IInv, NEW e, NEW matches, NEW left, NEW now, NEW late, NEW after, NEW f, NEW D, NEW fresh,
         NEW used, NEW expired, NEW s1, NEW s2, NEW s3, NEW s4,
         TickRun(e, matches, left, now, late, after, f, D, fresh, used, expired, s1, s2, s3, s4)
  PROVE  TickFeeds(matches, SettledProposals(svc, matches, after), NewProposals(s2, after),
                   D, fresh, s1, s2, svc')
<1>. DEFINE gone == SettledProposals(svc, matches, after)
            new == NewProposals(s2, after)
<1>1. svc \in Service
  BY DEF IInv, TypeOK
<1>2. /\ Ticked(e, matches, left, now) /\ after \in SUBSET left
      /\ Between(s1, e, usedIDs) /\ Between(s2, f, usedIDs) /\ Between(s3, f, used)
      /\ Between(s4, f, used)
  BY DEF TickRun
<1>3. /\ s1 \in Service /\ s2 \in Service /\ s3 \in Service /\ s4 \in Service /\ Paired(s1)
      /\ matches \in SUBSET Rosters /\ \A m \in MatchIDs : s1.byMatch[m] = Waiting(s1, m)
  BY <1>2 DEF Between, Tracker, Ticked
<1>4. /\ Concludes(svc, s1, {m \in gone : ~CancelledByAPI(svc, m)})
      /\ Forgets(svc, s1, gone)
  <2>1. s1 = settleOldProposals(svc, e, matches, after)
    BY DEF TickRun
  <2>2. Concludes(svc, s1, {m \in gone : ~CancelledByAPI(svc, m)})
    BY <1>1, <2>1, SettleSays
  <2>3. Forgets(svc, s1, gone)
    BY <1>1, <2>1, SettleEffect
  <2>. QED
    BY <2>2, <2>3
<1>5. /\ gone \subseteq MatchIDs
      /\ \A m \in gone : svc.byMatch[m] # {} /\ svc.byMatch[m] \notin matches
  BY DEF SettledProposals
<1>. HIDE DEF gone
<1>6. Succeeds(s1, s2, matches, fresh) /\ Drops(s1, s2, matches)
  <2>1. /\ s2 = finalizeMatches(s1, matches, fresh) /\ Names(fresh, D, s1)
        /\ \A r \in matches : s1.matchIDs[r] = NoMatch => r \in D
    BY DEF TickRun
  <2>2. \A q, r \in matches : q \cap r # {} => q = r
    BY <1>2 DEF Ticked
  <2>3. ASSUME NEW r \in matches PROVE r \subseteq s1.tickets
    <3>. SUFFICES ASSUME NEW t \in r PROVE t \in s1.tickets
      OBVIOUS
    <3>1. t \in Tickets /\ t \in UNION matches
      BY <1>3, FlexiConstants DEF FlexiConstants
    <3>2. e[t].status = "PLACING"
      BY <1>2, <3>1 DEF Ticked
    <3>. QED
      BY <1>2, <3>1, <3>2 DEF Between, Unknown
  <2>4. Succeeds(s1, s2, matches, fresh)
    BY <1>3, <2>1, <2>2, <2>3, FinalizeSays
  <2>5. Drops(s1, s2, matches)
    BY <1>3, <2>1, FinalizeEffect
  <2>. QED
    BY <2>4, <2>5
<1>7. /\ s3 = applyNewProposals(s2, after, fresh) /\ Names(fresh, D, s2)
      /\ NewProposals(s2, after) \subseteq D /\ Newcomers(s2, after)
  BY DEF TickRun
<1>8. Poses(s2, s3, new, fresh) /\ Assigns(s2, s3, new, fresh)
  <2>1. after \in SUBSET Proposal /\ \A p \in after : p.ids \in Rosters
    BY <1>2 DEF Ticked
  <2>2. Poses(s2, s3, NewProposals(s2, after), fresh)
    BY <1>3, <1>7, <2>1, ProposeSays
  <2>3. Assigns(s2, s3, NewProposals(s2, after), fresh)
    BY <1>3, <1>7, <2>1, ProposeEffect
  <2>. QED
    BY <2>2, <2>3
<1>9. \A m \in MatchIDs : s4.matchFeed[m] = s3.matchFeed[m]
  <2>1. /\ s4 = syncActiveTickets(s3, f)
        /\ \A t \in Tickets : \A p \in after : t \in p.ids => f[t].status = "REQUIRES_ACCEPTANCE"
        /\ \A m \in MatchIDs : s3.byMatch[m] # {} => Reports(s3, after, m)
        /\ \A t \in Tickets :
             f[t].status = IF e[t].status = "PLACING" THEN "COMPLETED" ELSE e[t].status
    BY DEF TickRun
  <2>2. \A t \in Tickets : f[t].status # "PLACING"
    BY <2>1
  <2>3. \A t \in Behind(s3, f) : s3.tk[t].status # "REQUIRES_ACCEPTANCE"
    BY <1>2, <2>1, <2>2, BehindInPool DEF InPool
  <2>. QED
    BY <1>3, <2>1, <2>3, SyncHushed
<1>10. KeepsTracker(s3, s4)
  BY DEF TickRun
<1>11. svc'.matchFeed = s4.matchFeed /\ svc'.byMatch = s4.byMatch
  <2>1. svc' = evictExpiredTickets(s4, expired) /\ expired \in SUBSET Finished
    BY DEF TickRun
  <2>2. expired \in SUBSET Tickets
    BY <1>1, <2>1, ServiceFields DEF Finished
  <2>3. Hushed(s4, svc')
    BY <1>3, <2>1, ServiceHasFeed, EvictHushed
  <2>4. KeepsTracker(s4, svc')
    BY <1>3, <2>1, <2>2, EvictEffect
  <2>. QED
    BY <2>3, <2>4 DEF Hushed, KeepsTracker
<1>12. /\ \A r \in matches : s1.matchIDs[r] = NoMatch => r \in D
       /\ \A r \in D : fresh[r] \in MatchIDs \ usedIDs /\ fresh[r] \in usedIDs'
  BY DEF TickRun
<1>13. new \subseteq D
  BY <1>7
<1>. HIDE DEF new
<1>14. Poses(s2, svc', new, fresh)
  BY <1>8, <1>9, <1>11, <1>12, <1>13 DEF Poses
<1>15. ASSUME NEW m \in MatchIDs
       PROVE  /\ s1.byMatch[m] = IF m \in gone THEN {} ELSE svc.byMatch[m]
              /\ s2.byMatch[m] = IF s1.byMatch[m] \in matches THEN {} ELSE s1.byMatch[m]
              /\ (\A r \in new : m # fresh[r]) => svc'.byMatch[m] = s2.byMatch[m]
  BY <1>4, <1>6, <1>8, <1>10, <1>11 DEF Forgets, Drops, Assigns, KeepsTracker
<1>16. \A r \in new : svc'.byMatch[fresh[r]] = r
  BY <1>8, <1>10, <1>11 DEF Assigns, KeepsTracker
<1>17. TickFeeds(matches, gone, new, D, fresh, s1, s2, svc')
  BY <1>3, <1>4, <1>5, <1>6, <1>12, <1>13, <1>14, <1>15, <1>16 DEF TickFeeds
<1>. QED
  BY <1>17 DEF gone, new

\* The tickets each phase leaves alone.
LEMMA SettleLeaves ==
  ASSUME NEW s \in Service, NEW e, NEW matches, NEW after, NEW t \in Tickets,
         t \notin Leaving(s, e, SettledProposals(s, matches, after))
  PROVE  settleOldProposals(s, e, matches, after).tk[t] = s.tk[t]
BY SettleEffect DEF Moves

LEMMA FinalizeLeaves ==
  ASSUME NEW s \in Service, Paired(s), NEW matches \in SUBSET Rosters,
         NEW D, NEW fresh, Names(fresh, D, s),
         \A r \in matches : s.matchIDs[r] = NoMatch => r \in D
  PROVE  \A t \in Tickets : t \notin UNION matches =>
                            finalizeMatches(s, matches, fresh).tk[t] = s.tk[t]
<1>. DEFINE u == finalizeMatches(s, matches, fresh)
            S == s.tickets \cap UNION matches
            Placed(x) == placing(s.tk[x], MatchOf(s, fresh, RosterOf(x, matches)))[3]
<1>1. /\ Moves(s, u, S, Placed)
      /\ \A x \in S : MatchOf(s, fresh, RosterOf(x, matches)) \in MatchIDs
      /\ Drops(s, u, matches)
  BY FinalizeEffect
<1>. HIDE DEF u
<1>2. \A t \in Tickets : t \notin UNION matches => u.tk[t] = s.tk[t]
  BY <1>1 DEF Moves
<1>. QED
  BY <1>2 DEF u

LEMMA ProposeMoves ==
  ASSUME NEW s \in Service, NEW after \in SUBSET Proposal,
         \A p \in after : p.ids \in Rosters,
         NEW D, NEW fresh, Names(fresh, D, s), NewProposals(s, after) \subseteq D
  PROVE  \A t \in Tickets :
           applyNewProposals(s, after, fresh).tk[t] =
             IF t \in s.tickets \cap UNION NewProposals(s, after)
             THEN proposing(s.tk[t], fresh[RosterOf(t, NewProposals(s, after))])[2] ELSE s.tk[t]
BY ProposeEffect DEF Moves

LEMMA SyncLeaves ==
  ASSUME NEW s \in Service, NEW f, \A x \in Behind(s, f) : s.tk[x].status \in InPool
  PROVE  \A t \in Tickets : s.tk[t].status = "REQUIRES_ACCEPTANCE" =>
                            syncActiveTickets(s, f).tk[t] = s.tk[t]
<1>1. \A x \in Behind(s, f) : s.tk[x].status # "REQUIRES_ACCEPTANCE"
  BY DEF InPool
<1>2. \A x \in Tickets : s.tk[x].status = "REQUIRES_ACCEPTANCE" => x \notin Behind(s, f)
  BY <1>1
<1>. QED
  BY <1>1, <1>2, SyncEffect DEF Moves

\* A ticket whose proposal is neither settled nor matched stays as it is.
LEMMA TicketsWait ==
  ASSUME IInv, NEW e, NEW matches, NEW left, NEW now, NEW late, NEW after, NEW f, NEW D, NEW fresh,
         NEW used, NEW expired, NEW s1, NEW s2, NEW s3, NEW s4,
         TickRun(e, matches, left, now, late, after, f, D, fresh, used, expired, s1, s2, s3, s4),
         NEW m \in MatchIDs, m \notin SettledProposals(svc, matches, after),
         svc.byMatch[m] \notin matches, NEW t \in svc.byMatch[m], t \in svc'.tickets
  PROVE  svc'.tk[t] = svc.tk[t]
<1>. DEFINE gone == SettledProposals(svc, matches, after)
<1>1. svc \in Service /\ Tracker(svc, usedIDs) /\ t \in Waiting(svc, m)
  BY DEF IInv, TypeOK, Tracker
<1>2. /\ Ticked(e, matches, left, now) /\ after \in SUBSET left
      /\ Between(s1, e, usedIDs) /\ Between(s2, f, usedIDs) /\ Between(s3, f, used)
      /\ Between(s4, f, used)
  BY DEF TickRun
<1>3. /\ s1 \in Service /\ s2 \in Service /\ s3 \in Service /\ s4 \in Service /\ Paired(s1)
      /\ matches \in SUBSET Rosters
  BY <1>2 DEF Between, Tracker, Ticked
<1>4. t \in Tickets /\ svc.tk[t].status = "REQUIRES_ACCEPTANCE" /\ svc.tk[t].matchID = m
  BY <1>1, ServiceFields DEF Waiting
<1>5. s1.tk[t] = svc.tk[t]
  <2>1. s1 = settleOldProposals(svc, e, matches, after) /\ gone \subseteq MatchIDs
    BY DEF TickRun, SettledProposals
  <2>2. ASSUME NEW n \in gone PROVE t \notin svc.byMatch[n]
    BY <1>1, <1>4, <2>1, <2>2 DEF Tracker, Waiting
  <2>3. t \notin Leaving(svc, e, gone)
    BY <2>2 DEF Leaving
  <2>. QED
    BY <1>1, <1>4, <2>1, <2>3, SettleLeaves
<1>6. s2.tk[t] = s1.tk[t]
  <2>1. t \notin UNION matches
    BY <1>2, MatchKnown
  <2>2. /\ Names(fresh, D, s1)
        /\ \A r \in matches : s1.matchIDs[r] = NoMatch => r \in D
    BY DEF TickRun
  <2>3. \A x \in Tickets : x \notin UNION matches =>
                            finalizeMatches(s1, matches, fresh).tk[x] = s1.tk[x]
    BY <1>3, <2>2, FinalizeLeaves
  <2>4. s2 = finalizeMatches(s1, matches, fresh)
    BY DEF TickRun
  <2>. QED
    BY <1>4, <2>1, <2>3, <2>4
<1>7. s3.tk[t] = s2.tk[t]
  <2>1. /\ s3 = applyNewProposals(s2, after, fresh) /\ Names(fresh, D, s2)
        /\ NewProposals(s2, after) \subseteq D /\ Newcomers(s2, after)
    BY DEF TickRun
  <2>2. after \in SUBSET Proposal /\ \A p \in after : p.ids \in Rosters
    BY <1>2 DEF Ticked
  <2>3. t \notin UNION NewProposals(s2, after)
    BY <1>4, <1>5, <1>6, <2>1 DEF Newcomers, InPool
  <2>. QED
    BY <1>3, <1>4, <2>1, <2>2, <2>3, ProposeMoves
<1>8. s4.tk[t] = s3.tk[t]
  <2>1. /\ \A x \in Tickets : \A p \in after : x \in p.ids => f[x].status = "REQUIRES_ACCEPTANCE"
        /\ \A n \in MatchIDs : s3.byMatch[n] # {} => Reports(s3, after, n)
        /\ \A x \in Tickets :
             f[x].status = IF e[x].status = "PLACING" THEN "COMPLETED" ELSE e[x].status
    BY DEF TickRun
  <2>2. \A x \in Tickets : f[x].status # "PLACING"
    BY <2>1
  <2>3. Between(s3, f, used) /\ t \in Tickets /\ s3.tk[t].status = "REQUIRES_ACCEPTANCE"
    BY <1>2, <1>4, <1>5, <1>6, <1>7
  <2>4. \A x \in Tickets : s3.tk[x].status = "REQUIRES_ACCEPTANCE" =>
                            syncActiveTickets(s3, f).tk[x] = s3.tk[x]
    <3>1. \A x \in Behind(s3, f) : s3.tk[x].status \in InPool
      BY <2>1, <2>2, <2>3, BehindInPool
    <3>. QED
      BY <1>3, <3>1, SyncLeaves
  <2>5. s4 = syncActiveTickets(s3, f)
    BY DEF TickRun
  <2>. QED
    BY <2>3, <2>4, <2>5
<1>9. svc'.tk[t] = s4.tk[t]
  <2>1. svc' = evictExpiredTickets(s4, expired) /\ expired \in SUBSET Finished
    BY DEF TickRun
  <2>2. expired \in SUBSET Tickets
    BY <1>1, <2>1, ServiceFields DEF Finished
  <2>. QED
    BY <1>3, <2>1, <2>2, EvictCarries
<1>. QED
  BY <1>5, <1>6, <1>7, <1>8, <1>9

\* A player has rejected the proposal the ticket x is in.
Refuses(x) == \E p \in Players : x.acceptances[p] = "reject"

\* Nobody has answered a proposal that is new.
LEMMA NobodyAnswered ==
  ASSUME IInv, NEW e, NEW matches, NEW left, NEW now, NEW late, NEW after, NEW f, NEW D, NEW fresh,
         NEW used, NEW expired, NEW s1, NEW s2, NEW s3, NEW s4,
         TickRun(e, matches, left, now, late, after, f, D, fresh, used, expired, s1, s2, s3, s4),
         \A x \in svc.tickets : Good(svc.tk[x], svc.feed[x]),
         NEW r \in NewProposals(s2, after), NEW t \in r, t \in svc'.tickets
  PROVE  ~Refuses(svc'.tk[t])
<1>. DEFINE new == NewProposals(s2, after)
<1>1. svc \in Service
  BY DEF IInv, TypeOK
<1>2. /\ Ticked(e, matches, left, now) /\ after \in SUBSET left
      /\ Between(s1, e, usedIDs) /\ Between(s2, f, usedIDs) /\ Between(s3, f, used)
      /\ Between(s4, f, used)
  BY DEF TickRun
<1>3. /\ s2 \in Service /\ s3 \in Service /\ s4 \in Service
      /\ s1.tickets = svc.tickets /\ s2.tickets = svc.tickets
  BY <1>2 DEF Between
<1>4. /\ s3 = applyNewProposals(s2, after, fresh) /\ Names(fresh, D, s2)
      /\ NewProposals(s2, after) \subseteq D /\ Newcomers(s2, after)
  BY DEF TickRun
<1>5. /\ t \in s2.tickets /\ t \in Tickets /\ s2.tk[t] \in Ticket /\ s2.tk[t].status \in InPool
      /\ t \in UNION new
  BY <1>3, <1>4, ServiceFields DEF Newcomers
<1>6. s2.tk[t].acceptances = Undecided
  <2>1. PhaseCarries(svc, s1) /\ PhaseCarries(s1, s2)
    BY TickRunPhases
  <2>2. Good(s2.tk[t], s2.feed[t])
    BY <1>3, <1>5, <2>1 DEF PhaseCarries, Carries
  <2>. QED
    BY <1>5, <2>2 DEF Good, Clean
<1>7. s3.tk[t].acceptances = Undecided /\ s3.tk[t].status = "REQUIRES_ACCEPTANCE"
  <2>. DEFINE m == fresh[RosterOf(t, new)]
  <2>1. after \in SUBSET Proposal /\ \A p \in after : p.ids \in Rosters
    BY <1>2 DEF Ticked
  <2>2. m \in MatchIDs
    BY <1>4, <1>5, RosterOfTicket DEF Names
  <2>3. s3.tk[t] = proposing(s2.tk[t], m)[2]
    BY <1>3, <1>4, <1>5, <2>1, ProposeMoves
  <2>. HIDE DEF m
  <2>. QED
    BY <1>5, <1>6, <2>2, <2>3, ProposedTeams, ProposedTicket
<1>8. s4.tk[t] = s3.tk[t]
  <2>1. /\ \A x \in Tickets : \A p \in after : x \in p.ids => f[x].status = "REQUIRES_ACCEPTANCE"
        /\ \A n \in MatchIDs : s3.byMatch[n] # {} => Reports(s3, after, n)
        /\ \A x \in Tickets :
             f[x].status = IF e[x].status = "PLACING" THEN "COMPLETED" ELSE e[x].status
    BY DEF TickRun
  <2>2. \A x \in Tickets : f[x].status # "PLACING"
    BY <2>1
  <2>3. Between(s3, f, used) /\ t \in Tickets /\ s3.tk[t].status = "REQUIRES_ACCEPTANCE"
    BY <1>2, <1>5, <1>7
  <2>4. \A x \in Tickets : s3.tk[x].status = "REQUIRES_ACCEPTANCE" =>
                            syncActiveTickets(s3, f).tk[x] = s3.tk[x]
    <3>1. \A x \in Behind(s3, f) : s3.tk[x].status \in InPool
      BY <2>1, <2>2, <2>3, BehindInPool
    <3>. QED
      BY <1>3, <3>1, SyncLeaves
  <2>5. s4 = syncActiveTickets(s3, f)
    BY DEF TickRun
  <2>. QED
    BY <2>3, <2>4, <2>5
<1>9. svc'.tk[t] = s4.tk[t]
  <2>1. svc' = evictExpiredTickets(s4, expired) /\ expired \in SUBSET Finished
    BY DEF TickRun
  <2>2. expired \in SUBSET Tickets
    BY <1>1, <2>1, ServiceFields DEF Finished
  <2>. QED
    BY <1>3, <2>1, <2>2, EvictCarries
<1>. QED
  BY <1>7, <1>8, <1>9 DEF Refuses, Undecided

\* What a tick may do to the match m: it leaves it alone, or the match is over without a
\* word, fails, becomes a match, goes on waiting, is made directly, or is new.
Untold(m) == svc'.byMatch[m] = {} /\ svc'.matchFeed[m] = svc.matchFeed[m]

Fails(m) == /\ svc.byMatch[m] # {} /\ svc'.byMatch[m] = {}
            /\ svc'.matchFeed[m] = Append(svc.matchFeed[m], Outcome(svc, m))

Seated(m) ==
  /\ svc.byMatch[m] # {} /\ svc'.byMatch[m] = {}
  /\ \E p \in pending : p.ids = svc.byMatch[m] /\ \A t \in p.ids : FullyAccepted(t)
  /\ svc'.matchFeed[m] = Append(Append(svc.matchFeed[m], About(m, "Accepted")),
                                About(m, "MatchmakingSucceeded"))

Waits(m) == /\ svc.byMatch[m] # {} /\ svc'.byMatch[m] = svc.byMatch[m]
            /\ svc'.matchFeed[m] = svc.matchFeed[m]
            /\ \A t \in svc'.byMatch[m] : svc'.tk[t] = svc.tk[t]

Direct(m) == /\ ~AcceptanceRequired /\ m \notin usedIDs /\ m \in usedIDs' /\ svc'.byMatch[m] = {}
             /\ svc'.matchFeed[m] = Append(Append(svc.matchFeed[m], About(m, "PotentialMatchCreated")),
                                           About(m, "MatchmakingSucceeded"))

Starts(m) == /\ AcceptanceRequired /\ m \notin usedIDs /\ m \in usedIDs'
             /\ svc'.matchFeed[m] = Append(svc.matchFeed[m], About(m, "PotentialMatchCreated"))
             /\ \A t \in svc'.byMatch[m] : ~Refuses(svc'.tk[t])

TickOf(m) == Untold(m) \/ Fails(m) \/ Seated(m) \/ Waits(m) \/ Direct(m) \/ Starts(m)

\* An accepted proposal keeps its match id.
LEMMA MatchesNamed ==
  ASSUME IInv, NEW e, NEW matches, NEW left, NEW now, Ticked(e, matches, left, now),
         AcceptanceRequired, NEW gone, NEW new, NEW D, NEW fresh, NEW s1, NEW s2, NEW u,
         TickFeeds(matches, gone, new, D, fresh, s1, s2, u), NEW r \in matches
  PROVE  s1.matchIDs[r] # NoMatch /\ \E p \in pending : p.ids = r /\ \A t \in r : FullyAccepted(t)
<1>1. svc \in Service /\ Tracker(svc, usedIDs)
  BY DEF IInv, TypeOK
<1>2. PICK p \in pending : p.ids = r /\ \A t \in r : FullyAccepted(t)
  BY DEF Ticked
<1>3. Known(p) /\ r \in Rosters /\ r # {}
  BY <1>2, FlexiConstants DEF IInv, PendingKnown, GivenUp, EngineShape, FlexiConstants
<1>. DEFINE n == svc.matchIDs[r]
<1>4. n \in MatchIDs /\ svc.byMatch[n] = r
  BY <1>1, <1>2, <1>3, ServiceFields DEF Known, Tracker, Paired
<1>. HIDE DEF n
<1>5. s1.byMatch[n] = r
  BY <1>4 DEF TickFeeds
<1>6. Paired(s1)
  BY DEF TickFeeds
<1>7. s1.matchIDs[r] = n
  BY <1>3, <1>4, <1>5, <1>6 DEF Paired
<1>. QED
  BY <1>2, <1>4, <1>7, TicketConstants DEF TicketConstants

\* What becomes of a match in a tick.
LEMMA MatchTicks ==
  ASSUME IInv, IInv', NEW gone, NEW matches, NEW new, NEW D, NEW fresh, NEW s1, NEW s2,
         TickFeeds(matches, gone, new, D, fresh, s1, s2, svc'),
         AcceptanceRequired => \A r \in matches :
           /\ s1.matchIDs[r] # NoMatch
           /\ \E p \in pending : p.ids = r /\ \A t \in r : FullyAccepted(t),
         ~AcceptanceRequired => new = {},
         NEW m \in MatchIDs,
         m \notin gone /\ svc.byMatch[m] \notin matches =>
           \A t \in svc.byMatch[m] \cap svc'.tickets : svc'.tk[t] = svc.tk[t],
         \A r \in new : \A t \in r \cap svc'.tickets : ~Refuses(svc'.tk[t])
  PROVE  TickOf(m)
<1>1. /\ svc \in Service /\ Tracker(svc, usedIDs)
      /\ \A t \in svc'.byMatch[m] : t \in svc'.tickets
  BY DEF IInv, TypeOK, Tracker, Waiting
<1>2. /\ Concludes(svc, s1, {n \in gone : ~CancelledByAPI(svc, n)})
      /\ Succeeds(s1, s2, matches, fresh) /\ Poses(s2, svc', new, fresh)
      /\ Paired(s1) /\ s1 \in Service /\ matches \subseteq Rosters
      /\ \A r \in matches : s1.matchIDs[r] = NoMatch => r \in D
      /\ new \subseteq D /\ \A r \in D : fresh[r] \in MatchIDs \ usedIDs /\ fresh[r] \in usedIDs'
  BY DEF TickFeeds
<1>3. /\ s1.byMatch[m] = IF m \in gone THEN {} ELSE svc.byMatch[m]
      /\ s2.byMatch[m] = IF s1.byMatch[m] \in matches THEN {} ELSE s1.byMatch[m]
      /\ (\A r \in new : m # fresh[r]) => svc'.byMatch[m] = s2.byMatch[m]
      /\ \A r \in new : svc'.byMatch[fresh[r]] = r
      /\ m \in gone => svc.byMatch[m] # {} /\ svc.byMatch[m] \notin matches
  BY DEF TickFeeds
<1>4. svc.byMatch[m] # {} => m \in usedIDs /\ AcceptanceRequired
  BY <1>1 DEF Tracker
<1>5. \A r \in matches : r # {} /\ r \in Rosters
  BY <1>2, FlexiConstants DEF FlexiConstants
<1>6. m \in usedIDs => \A r \in D : m # fresh[r]
  BY <1>2
<1>7. /\ s1.matchFeed[m] = IF m \in gone /\ ~CancelledByAPI(svc, m)
                           THEN Append(svc.matchFeed[m], Outcome(svc, m)) ELSE svc.matchFeed[m]
      /\ (\A r \in matches : m # MatchOf(s1, fresh, r)) => s2.matchFeed[m] = s1.matchFeed[m]
      /\ (\A r \in new : m # fresh[r]) => svc'.matchFeed[m] = s2.matchFeed[m]
  BY <1>2 DEF Concludes, Succeeds, Poses
<1>8. ASSUME NEW r \in matches, s1.matchIDs[r] # NoMatch, s1.matchIDs[r] = m
      PROVE  s1.byMatch[m] = r
  BY <1>2, <1>5, <1>8 DEF Paired
<1>9. CASE m \in gone
  <2>1. /\ svc.byMatch[m] # {} /\ s1.byMatch[m] = {} /\ s2.byMatch[m] = {}
        /\ \A r \in D : m # fresh[r]
    BY <1>3, <1>4, <1>6, <1>9
  <2>2. ASSUME NEW r \in matches PROVE m # MatchOf(s1, fresh, r)
    BY <1>2, <1>5, <1>8, <2>1 DEF MatchOf
  <2>3. \A r \in new : m # fresh[r]
    BY <1>2, <2>1
  <2>. QED
    BY <1>3, <1>7, <1>9, <2>1, <2>2, <2>3 DEF TickOf, Untold, Fails
<1>10. CASE m \notin gone /\ svc.byMatch[m] \in matches
  <2>. DEFINE r == svc.byMatch[m]
  <2>1. /\ r \in matches /\ r # {} /\ r \in Rosters /\ s1.byMatch[m] = r /\ s2.byMatch[m] = {}
        /\ AcceptanceRequired /\ m \in usedIDs
    BY <1>3, <1>4, <1>5, <1>10
  <2>2. s1.matchIDs[r] = m
    BY <1>2, <2>1 DEF Paired
  <2>3. \A q \in new : m # fresh[q]
    BY <1>2, <1>6, <2>1
  <2>4. /\ svc'.byMatch[m] = {} /\ s1.matchFeed[m] = svc.matchFeed[m]
        /\ svc'.matchFeed[m] = s2.matchFeed[m]
    BY <1>3, <1>7, <1>10, <2>1, <2>3
  <2>5. m # NoMatch
    BY TicketConstants DEF TicketConstants
  <2>6. s2.matchFeed[m] = Success(s1, r, m, s1.matchFeed[m])
    <3>1. MatchOf(s1, fresh, r) = m
      BY <2>2, <2>5 DEF MatchOf
    <3>2. s2.matchFeed[MatchOf(s1, fresh, r)] =
            Success(s1, r, MatchOf(s1, fresh, r), s1.matchFeed[MatchOf(s1, fresh, r)])
      BY <1>2, <2>1 DEF Succeeds
    <3>. QED
      BY <3>1, <3>2
  <2>7. \E p \in pending : p.ids = r /\ \A t \in r : FullyAccepted(t)
    BY <2>1
  <2>. HIDE DEF r
  <2>8. CASE Accepts(s1, r)
    <3>1. svc'.matchFeed[m] = Append(Append(svc.matchFeed[m], About(m, "Accepted")),
                                     About(m, "MatchmakingSucceeded"))
      BY <2>2, <2>4, <2>5, <2>6, <2>8 DEF Success
    <3>. QED
      BY <2>1, <2>4, <2>7, <3>1 DEF TickOf, Seated, r
  <2>9. Accepts(s1, r)
    <3>1. r = Waiting(s1, m)
      BY <2>1 DEF TickFeeds
    <3>. QED
      BY <2>1, <3>1 DEF Accepts, Waiting
  <2>. QED
    BY <2>8, <2>9
<1>11. CASE m \notin gone /\ svc.byMatch[m] \notin matches /\ svc.byMatch[m] # {}
  <2>1. s1.byMatch[m] = svc.byMatch[m] /\ s2.byMatch[m] = svc.byMatch[m] /\ m \in usedIDs
    BY <1>3, <1>4, <1>11
  <2>2. ASSUME NEW r \in matches PROVE m # MatchOf(s1, fresh, r)
    BY <1>2, <1>6, <1>8, <1>11, <2>1 DEF MatchOf
  <2>3. \A r \in new : m # fresh[r]
    BY <1>2, <1>6, <2>1
  <2>4. svc'.byMatch[m] = svc.byMatch[m] /\ svc'.matchFeed[m] = svc.matchFeed[m]
    BY <1>3, <1>7, <1>11, <2>1, <2>2, <2>3
  <2>5. \A t \in svc'.byMatch[m] : svc'.tk[t] = svc.tk[t]
    BY <1>1, <1>11, <2>4
  <2>. QED
    BY <1>11, <2>4, <2>5 DEF TickOf, Waits
<1>12. CASE svc.byMatch[m] = {}
  <2>1. m \notin gone /\ s1.byMatch[m] = {} /\ s2.byMatch[m] = {}
        /\ s1.matchFeed[m] = svc.matchFeed[m]
    BY <1>3, <1>7, <1>12
  <2>2. \A r \in matches : s1.matchIDs[r] # NoMatch => s1.matchIDs[r] # m
    BY <1>5, <1>8, <2>1
  <2>3. CASE \E r \in new : m = fresh[r]
    <3>1. PICK r \in new : m = fresh[r]
      BY <2>3
    <3>2. AcceptanceRequired /\ m \notin usedIDs /\ m \in usedIDs' /\ svc'.byMatch[m] = r
      BY <1>2, <1>3, <3>1
    <3>3. ASSUME NEW q \in matches PROVE m # MatchOf(s1, fresh, q)
      BY <2>2, <3>2 DEF MatchOf
    <3>4. s2.matchFeed[m] = svc.matchFeed[m]
      BY <1>7, <2>1, <3>3
    <3>5. svc'.matchFeed[m] = Append(s2.matchFeed[m], About(m, "PotentialMatchCreated"))
      BY <1>2, <3>1 DEF Poses
    <3>6. \A t \in svc'.byMatch[m] : ~Refuses(svc'.tk[t])
      BY <1>1, <3>1, <3>2
    <3>. QED
      BY <3>2, <3>4, <3>5, <3>6 DEF TickOf, Starts
  <2>4. CASE /\ \A r \in new : m # fresh[r]
             /\ \E r \in matches : m = MatchOf(s1, fresh, r)
    <3>1. PICK r \in matches : m = MatchOf(s1, fresh, r)
      BY <2>4
    <3>2. s1.matchIDs[r] = NoMatch /\ m = fresh[r]
      BY <2>2, <3>1 DEF MatchOf
    <3>3. ~AcceptanceRequired /\ m \notin usedIDs /\ m \in usedIDs'
      BY <1>2, <3>2
    <3>4. s2.matchFeed[m] = Success(s1, r, m, s1.matchFeed[m])
      <4>1. s2.matchFeed[MatchOf(s1, fresh, r)] =
              Success(s1, r, MatchOf(s1, fresh, r), s1.matchFeed[MatchOf(s1, fresh, r)])
        BY <1>2 DEF Succeeds
      <4>. QED
        BY <3>1, <4>1
    <3>5. ~Accepts(s1, r)
      BY <3>3 DEF Accepts
    <3>6. s2.matchFeed[m] = Append(Append(svc.matchFeed[m], About(m, "PotentialMatchCreated")),
                                   About(m, "MatchmakingSucceeded"))
      BY <2>1, <3>2, <3>4, <3>5 DEF Success
    <3>7. svc'.matchFeed[m] = s2.matchFeed[m] /\ svc'.byMatch[m] = {}
      BY <1>3, <1>7, <2>1, <2>4
    <3>. QED
      BY <3>3, <3>6, <3>7 DEF TickOf, Direct
  <2>5. CASE /\ \A r \in new : m # fresh[r]
             /\ \A r \in matches : m # MatchOf(s1, fresh, r)
    BY <1>3, <1>7, <2>1, <2>5 DEF TickOf, Untold
  <2>. QED
    BY <2>3, <2>4, <2>5
<1>. QED
  BY <1>9, <1>10, <1>11, <1>12

-----------------------------------------------------------------------------
(* What has been published of a match *)

Posed(m)    == <<About(m, "PotentialMatchCreated")>>
Answered(m) == Append(Posed(m), About(m, "AcceptMatch"))

\* All that may be published of a match that a player has rejected or has not.
Tale(m, g, refused) ==
  IF AcceptanceRequired
  THEN \/ g \in {<<>>, Posed(m), Answered(m)}
       \/ /\ ~refused
          /\ g \in {Append(Posed(m), About(m, "TimedOut")), Append(Answered(m), About(m, "TimedOut")),
                    Append(Append(Answered(m), About(m, "Accepted")), About(m, "MatchmakingSucceeded"))}
       \/ refused /\ g = Append(Answered(m), About(m, "Rejected"))
  ELSE g \in {<<>>, Append(Posed(m), About(m, "MatchmakingSucceeded"))}

\* Nothing is told of a match before it has its id; while it is tracked nothing is told
\* but that it is posed and that it was answered, and a player has rejected it exactly
\* when one of its tickets says so.
TaleOf(m) ==
  /\ Tale(m, svc.matchFeed[m], m \in rejectedIn)
  /\ m \notin usedIDs => svc.matchFeed[m] = <<>> /\ m \notin rejectedIn
  /\ svc.byMatch[m] # {} => /\ svc.matchFeed[m] \in {Posed(m), Answered(m)}
                            /\ m \in rejectedIn => svc.matchFeed[m] = Answered(m)
  /\ svc.byMatch[m] # {} => (m \in rejectedIn <=> \E t \in svc.byMatch[m] : Refuses(svc.tk[t]))

Tales == \A m \in MatchIDs : TaleOf(m)

\* A ticket with a rejection is finished in the engine.
RefusalsEnd ==
  \A t \in svc.tickets : svc.tk[t].status = "REQUIRES_ACCEPTANCE" /\ Refuses(svc.tk[t])
                           => eng[t].status = "CANCELLED"

\* A proposal nobody has been reported to have answered is not accepted: of one that
\* lapsed during an answer some player is missing, of any other all are.
Unanswered ==
  \A p \in pending, m \in MatchIDs :
    p.ids = svc.byMatch[m] /\ svc.matchFeed[m] = Posed(m) =>
      IF p.expired THEN \E t \in p.ids : ~FullyAccepted(t)
                   ELSE \A t \in p.ids : eng[t].accepted = {}

Telling == Lasting /\ Tales /\ RefusalsEnd /\ Unanswered

\* The tickets of a tracked match have its teams.
LEMMA TrackedTeams ==
  ASSUME Lasting, NEW m \in MatchIDs, svc.byMatch[m] # {}
  PROVE  /\ svc.byMatch[m] \subseteq svc.tickets /\ svc.byMatch[m] \subseteq Tickets
         /\ \A t \in svc.byMatch[m] : /\ svc.tk[t].status = "REQUIRES_ACCEPTANCE"
                                      /\ svc.tk[t].teams = m /\ svc.tk[t].matchID = m
         /\ \A event : buildDetail(event, snapshot(svc, svc.byMatch[m])) = About(m, event)
         /\ m \in usedIDs /\ AcceptanceRequired
<1>1. svc \in Service /\ Tracker(svc, usedIDs) /\ svc.tickets \subseteq Tickets
  BY ServiceFields DEF Lasting, IInv, TypeOK
<1>2. /\ svc.byMatch[m] \subseteq svc.tickets /\ m \in usedIDs /\ AcceptanceRequired
      /\ \A t \in svc.byMatch[m] : svc.tk[t].status = "REQUIRES_ACCEPTANCE" /\ svc.tk[t].matchID = m
  BY <1>1 DEF Tracker, Waiting
<1>3. \A t \in svc.byMatch[m] : svc.tk[t].teams = m
  BY <1>2 DEF Lasting, Good, Clean
<1>4. \A event : buildDetail(event, snapshot(svc, svc.byMatch[m])) = About(m, event)
  BY <1>2, <1>3, TeamsShown
<1>. QED
  BY <1>1, <1>2, <1>3, <1>4

\* A failed match blames a player exactly when one has rejected it.
LEMMA FailedOutcome ==
  ASSUME Lasting, NEW m \in MatchIDs, TaleOf(m), svc.byMatch[m] # {}
  PROVE  Outcome(svc, m) = About(m, IF m \in rejectedIn THEN "Rejected" ELSE "TimedOut")
<1>1. /\ svc.byMatch[m] \subseteq svc.tickets
      /\ \A event : buildDetail(event, snapshot(svc, svc.byMatch[m])) = About(m, event)
  BY TrackedTeams
<1>2. m \in rejectedIn <=> \E t \in svc.byMatch[m] : Refuses(svc.tk[t])
  BY DEF TaleOf
<1>3. acceptanceFailureOutcome(svc, m) = IF m \in rejectedIn THEN "Rejected" ELSE "TimedOut"
  BY <1>1, <1>2 DEF acceptanceFailureOutcome, Refuses
<1>. QED
  BY <1>1, <1>3 DEF Outcome

\* All players have accepted a match only after an answer, and with no rejection.
LEMMA AcceptedAnswered ==
  ASSUME Telling, NEW m \in MatchIDs, svc.byMatch[m] # {}, NEW p \in pending,
         p.ids = svc.byMatch[m], \A t \in p.ids : FullyAccepted(t)
  PROVE  svc.matchFeed[m] = Answered(m) /\ m \notin rejectedIn
<1>1. PICK t \in p.ids : TRUE
  OBVIOUS
<1>2. /\ \A u \in p.ids : /\ svc.tk[u].status = "REQUIRES_ACCEPTANCE"
                          /\ u \in svc.tickets /\ u \in Tickets
  BY TrackedTeams DEF Telling
<1>3. svc.matchFeed[m] # Posed(m)
  BY <1>1, TicketConstants DEF Telling, Unanswered, FullyAccepted, TicketConstants
<1>4. \A u \in p.ids : eng[u].status = "REQUIRES_ACCEPTANCE"
  BY <1>2 DEF Telling, Lasting, IInv, EngineShape
<1>5. \A u \in p.ids : ~Refuses(svc.tk[u])
  BY <1>2, <1>4 DEF Telling, RefusalsEnd
<1>6. TaleOf(m)
  BY DEF Telling, Tales
<1>. QED
  BY <1>3, <1>5, <1>6 DEF TaleOf

LEMMA TickTales ==
  ASSUME Telling, UNCHANGED <<rejectedIn, AcceptanceRequired>>, usedIDs \subseteq usedIDs',
         NEW m \in MatchIDs, TickOf(m)
  PROVE  TaleOf(m)'
<1>1. TaleOf(m) /\ Lasting
  BY DEF Telling, Tales
<1>2. svc.byMatch[m] # {} => m \in usedIDs /\ AcceptanceRequired
  BY <1>1, TrackedTeams
<1>3. CASE Untold(m)
  BY <1>1, <1>3 DEF Untold, TaleOf, Tale
<1>4. CASE Fails(m)
  <2>1. Outcome(svc, m) = About(m, IF m \in rejectedIn THEN "Rejected" ELSE "TimedOut")
    BY <1>1, <1>4, FailedOutcome DEF Fails
  <2>2. svc'.matchFeed[m] = Append(svc.matchFeed[m], Outcome(svc, m)) /\ svc'.byMatch[m] = {}
    BY <1>4 DEF Fails
  <2>3. Tale(m, svc'.matchFeed[m], m \in rejectedIn)
    BY <1>1, <1>2, <1>4, <2>1, <2>2 DEF Fails, TaleOf, Tale
  <2>. QED
    BY <1>2, <1>4, <2>2, <2>3 DEF Fails, TaleOf, Tale
<1>5. CASE Seated(m)
  <2>1. svc.matchFeed[m] = Answered(m) /\ m \notin rejectedIn
    BY <1>5, AcceptedAnswered DEF Seated
  <2>2. Tale(m, svc'.matchFeed[m], m \in rejectedIn)
    BY <1>2, <1>5, <2>1 DEF Seated, Tale
  <2>. QED
    BY <1>2, <1>5, <2>2 DEF Seated, TaleOf, Tale
<1>6. CASE Waits(m)
  BY <1>1, <1>2, <1>6 DEF Waits, TaleOf, Tale
<1>7. CASE Direct(m)
  <2>1. svc.matchFeed[m] = <<>> /\ m \notin rejectedIn
    BY <1>1, <1>7 DEF Direct, TaleOf
  <2>2. svc'.matchFeed[m] = Append(Posed(m), About(m, "MatchmakingSucceeded"))
    BY <1>7, <2>1, FirstEvent DEF Direct, Posed
  <2>3. Tale(m, svc'.matchFeed[m], m \in rejectedIn)
    BY <1>7, <2>2 DEF Direct, Tale
  <2>. QED
    BY <1>7, <2>3 DEF Direct, TaleOf, Tale
<1>8. CASE Starts(m)
  <2>1. svc.matchFeed[m] = <<>> /\ m \notin rejectedIn
    BY <1>1, <1>8 DEF Starts, TaleOf
  <2>2. svc'.matchFeed[m] = Posed(m)
    BY <1>8, <2>1, FirstEvent DEF Starts, Posed
  <2>3. Tale(m, svc'.matchFeed[m], m \in rejectedIn)
    BY <1>8, <2>2 DEF Starts, Tale
  <2>. QED
    BY <1>8, <2>1, <2>2, <2>3 DEF Starts, TaleOf, Tale
<1>. QED
  BY <1>3, <1>4, <1>5, <1>6, <1>7, <1>8 DEF TickOf

LEMMA TickRunTicks ==
  ASSUME Lasting, NEW e, NEW matches, NEW left, NEW now, NEW late, NEW after, NEW f, NEW D, NEW fresh,
         NEW used, NEW expired, NEW s1, NEW s2, NEW s3, NEW s4,
         TickRun(e, matches, left, now, late, after, f, D, fresh, used, expired, s1, s2, s3, s4)
  PROVE  \A m \in MatchIDs : TickOf(m)
<1>. DEFINE gone == SettledProposals(svc, matches, after)
            new == NewProposals(s2, after)
<1>1. IInv /\ \A x \in svc.tickets : Good(svc.tk[x], svc.feed[x])
  BY DEF Lasting
<1>2. Ticked(e, matches, left, now) /\ after \in SUBSET left
  BY DEF TickRun
<1>3. TickFeeds(matches, gone, new, D, fresh, s1, s2, svc')
  BY <1>1, TickRunFeeds
<1>4. AcceptanceRequired => \A r \in matches :
        /\ s1.matchIDs[r] # NoMatch
        /\ \E p \in pending : p.ids = r /\ \A t \in r : FullyAccepted(t)
  <2>. HIDE DEF gone, new
  <2>. QED
    BY <1>1, <1>2, <1>3, MatchesNamed
<1>5. ~AcceptanceRequired => new = {}
  BY <1>2 DEF Ticked, NewProposals
<1>6. IInv'
  BY <1>1, TickRunKeeps
<1>7. ASSUME NEW m \in MatchIDs, m \notin gone, svc.byMatch[m] \notin matches,
             NEW t \in svc.byMatch[m], t \in svc'.tickets
      PROVE  svc'.tk[t] = svc.tk[t]
  BY <1>1, <1>7, TicketsWait
<1>8. ASSUME NEW r \in new, NEW t \in r, t \in svc'.tickets PROVE ~Refuses(svc'.tk[t])
  BY <1>1, <1>8, NobodyAnswered
<1>. HIDE DEF gone, new
<1>9. ASSUME NEW m \in MatchIDs PROVE TickOf(m)
  BY <1>1, <1>3, <1>4, <1>5, <1>6, <1>7, <1>8, MatchTicks
<1>. QED
  BY <1>9

LEMMA TickRefusalsEnd ==
  ASSUME Telling, NEW e, NEW matches, NEW left, NEW now, NEW late, NEW after, NEW f, NEW D, NEW fresh,
         NEW used, NEW expired, NEW s1, NEW s2, NEW s3, NEW s4,
         TickRun(e, matches, left, now, late, after, f, D, fresh, used, expired, s1, s2, s3, s4)
  PROVE  RefusalsEnd'
<1>. SUFFICES ASSUME NEW t \in svc'.tickets, svc'.tk[t].status = "REQUIRES_ACCEPTANCE",
                     Refuses(svc'.tk[t])
              PROVE  eng'[t].status = "CANCELLED"
  BY DEF RefusalsEnd
<1>1. Lasting /\ IInv
  BY DEF Telling, Lasting
<1>2. IInv'
  BY <1>1, TickRunKeeps
<1>3. svc' \in Service /\ Tracker(svc, usedIDs)'
  BY <1>2 DEF IInv, TypeOK
<1>. DEFINE m == svc'.tk[t].matchID
<1>4. t \in Tickets /\ m \in MatchIDs /\ t \in svc'.byMatch[m]
  <2>1. t \in Tickets /\ svc'.tk[t] \in Ticket
    BY <1>3, ServiceFields
  <2>2. m \in MatchIDs
    BY <1>3, <2>1 DEF Tracker, Ticket
  <2>. QED
    BY <1>3, <2>1, <2>2 DEF Tracker, Waiting
<1>. HIDE DEF m
<1>5. TickOf(m)
  BY <1>1, <1>4, TickRunTicks
<1>6. Waits(m)
  BY <1>4, <1>5 DEF TickOf, Untold, Fails, Seated, Direct, Starts
<1>7. t \in svc.byMatch[m] /\ svc'.tk[t] = svc.tk[t]
  BY <1>4, <1>6 DEF Waits
<1>8. eng[t].status = "CANCELLED"
  BY <1>1, <1>4, <1>7, TrackedTeams DEF Telling, RefusalsEnd
<1>9. e[t].status = "CANCELLED"
  <2>1. Ticked(e, matches, left, now)
    BY DEF TickRun
  <2>. QED
    BY <1>4, <1>8, <2>1 DEF Ticked, InPool
<1>10. f[t].status = "CANCELLED"
  BY <1>4, <1>9 DEF TickRun
<1>11. t \notin expired /\ eng' = Evicted(f, expired)
  <2>1. svc' = evictExpiredTickets(s4, expired) /\ s4 \in Service /\ expired \in SUBSET Finished
    BY DEF TickRun, Between
  <2>2. svc'.tickets = s4.tickets \ expired
    BY <2>1 DEF evictExpiredTickets, Service
  <2>. QED
    BY <2>2 DEF TickRun
<1>. QED
  BY <1>4, <1>10, <1>11 DEF Evicted

\* A proposal that waits on is tracked as the match it has been.
LEMMA StaysTracked ==
  ASSUME IInv, NEW e, NEW matches, NEW left, NEW now, NEW late, NEW after, NEW f, NEW D, NEW fresh,
         NEW used, NEW expired, NEW s1, NEW s2, NEW s3, NEW s4,
         TickRun(e, matches, left, now, late, after, f, D, fresh, used, expired, s1, s2, s3, s4),
         NEW q \in after, Stays(q, e)
  PROVE  \E n \in MatchIDs : n \in usedIDs /\ svc.byMatch[n] = q.ids /\ svc'.byMatch[n] = q.ids
<1>. DEFINE n == svc.matchIDs[q.ids]
            gone == SettledProposals(svc, matches, after)
            new == NewProposals(s2, after)
<1>1. /\ svc \in Service /\ Tracker(svc, usedIDs) /\ PendingKnown
      /\ Ticked(e, matches, left, now) /\ after \in SUBSET left
      /\ TickFeeds(matches, gone, new, D, fresh, s1, s2, svc')
  <2>1. TickFeeds(matches, gone, new, D, fresh, s1, s2, svc')
    BY TickRunFeeds
  <2>2. Ticked(e, matches, left, now) /\ after \in SUBSET left
    BY DEF TickRun
  <2>. QED
    BY <2>1, <2>2 DEF IInv, TypeOK
<1>2. q \in left /\ q \in pending /\ q.ids \in Rosters /\ q.ids # {} /\ q.ids \subseteq Tickets
  BY <1>1, FlexiConstants DEF Stays, Ticked, FlexiConstants
<1>3. Known(q)
  BY <1>1, <1>2 DEF PendingKnown, GivenUp, Stays
<1>4. n \in MatchIDs /\ svc.byMatch[n] = q.ids /\ svc.createdAt[n] = q.createdAt /\ n \in usedIDs
  <2>1. n \in MatchIDs
    BY <1>1, <1>2, <1>3, ServiceFields DEF Known
  <2>2. svc.byMatch[n] = q.ids
    BY <1>1, <1>2, <1>3 DEF Known, Tracker, Paired
  <2>. QED
    BY <1>1, <1>2, <1>3, <2>1, <2>2 DEF Known, Tracker
<1>. HIDE DEF n
<1>5. n \notin gone
  BY <1>4 DEF SettledProposals
<1>6. q.ids \notin matches
  BY <1>1, <1>2 DEF Ticked
<1>. HIDE DEF gone, new
<1>7. \A r \in new : n # fresh[r]
  BY <1>1, <1>4 DEF TickFeeds
<1>8. svc'.byMatch[n] = q.ids
  BY <1>1, <1>4, <1>5, <1>6, <1>7 DEF TickFeeds
<1>. QED
  BY <1>4, <1>8

LEMMA TickUnanswered ==
  ASSUME Telling, NEW e, NEW matches, NEW left, NEW now, NEW late, NEW after, NEW f, NEW D, NEW fresh,
         NEW used, NEW expired, NEW s1, NEW s2, NEW s3, NEW s4,
         TickRun(e, matches, left, now, late, after, f, D, fresh, used, expired, s1, s2, s3, s4)
  PROVE  Unanswered'
<1>. SUFFICES ASSUME NEW p \in pending', NEW m \in MatchIDs, p.ids = svc'.byMatch[m],
                     svc'.matchFeed[m] = Posed(m)
              PROVE  ~p.expired /\ \A t \in p.ids : eng'[t].accepted = {}
  BY DEF Unanswered
<1>1. Lasting /\ IInv
  BY DEF Telling, Lasting
<1>2. IInv'
  BY <1>1, TickRunKeeps
<1>3. Paired(svc') /\ Ticked(e, matches, left, now) /\ after = left \ late
  BY <1>2 DEF IInv, Tracker, Paired, TickRun
<1>4. PICK q \in left : p = Lapsed(q, late)
  <2>1. pending' = Lapse(left, late) /\ left \in SUBSET Proposal
    BY <1>3 DEF TickRun, Ticked
  <2>. QED
    BY <2>1, LapseImage
<1>5. q \in Proposal /\ q.ids \in Rosters /\ q.ids # {} /\ p.ids = q.ids
  BY <1>3, <1>4, LapsedFields, FlexiConstants DEF Ticked, FlexiConstants
<1>6. q \in after /\ p = q
  <2>1. s4.byMatch[m] = svc'.byMatch[m]
    <3>1. svc' = evictExpiredTickets(s4, expired)
      BY DEF TickRun
    <3>. QED
      BY <3>1 DEF evictExpiredTickets, TickRun, Between, Service
  <2>2. PICK x \in after : x.ids = q.ids
    <3>1. s4.byMatch[m] = q.ids /\ s4.byMatch[m] # {}
      BY <1>5, <2>1
    <3>2. Reports(s4, after, m)
      BY <3>1 DEF TickRun
    <3>. QED
      BY <3>1, <3>2 DEF Reports
  <2>3. x = q
    BY <1>3, <1>4, <1>5, <2>2 DEF Ticked
  <2>. QED
    BY <1>3, <1>4, <2>2, <2>3 DEF Lapsed
<1>7. Stays(q, e) \/ Forms(q, e, now)
  BY <1>3, <1>4 DEF Ticked
<1>8. ASSUME NEW t \in q.ids PROVE eng'[t].accepted \in {{}, e[t].accepted}
  <2>1. t \in Tickets /\ eng' = Evicted(f, expired) /\ f = MarkCompleted(e, svc.tickets \cap UNION matches)
    BY <1>5 DEF TickRun, Proposal
  <2>2. f[t].accepted = e[t].accepted
    BY <1>1, <1>3, <2>1, MarkedEngine
  <2>. QED
    BY <2>1, <2>2 DEF Evicted, NoEngineTicket
<1>9. \A t \in q.ids : e[t].accepted = {}
  <2>1. CASE Forms(q, e, now)
    BY <2>1 DEF Forms
  <2>2. CASE Stays(q, e)
    <3>1. PICK n \in MatchIDs : n \in usedIDs /\ svc.byMatch[n] = q.ids /\ svc'.byMatch[n] = q.ids
      BY <1>1, <1>6, <2>2, StaysTracked
    <3>2. n = m
      BY <1>3, <1>5, <3>1 DEF Paired
    <3>3. TickOf(m)
      BY <1>1, TickRunTicks
    <3>4. svc.matchFeed[m] = Posed(m)
      BY <1>5, <3>1, <3>2, <3>3 DEF TickOf, Untold, Fails, Seated, Direct, Starts, Waits
    <3>5. \A t \in q.ids : eng[t].accepted = {}
      BY <2>2, <3>1, <3>2, <3>4 DEF Telling, Unanswered, Stays
    <3>. QED
      BY <2>2, <3>5 DEF Stays
  <2>. QED
    BY <1>7, <2>1, <2>2
<1>. QED
  BY <1>6, <1>7, <1>8, <1>9 DEF Stays, Forms

-----------------------------------------------------------------------------
(* Commands that say nothing of a match *)

\* The matches, what has been published of them, and the answers to them are left alone.
Silent ==
  /\ svc'.matchFeed = svc.matchFeed /\ svc'.byMatch = svc.byMatch
  /\ UNCHANGED <<usedIDs, rejectedIn, AcceptanceRequired>>
  /\ \A t \in svc.tickets : svc.tk[t].status = "REQUIRES_ACCEPTANCE" =>
       /\ svc'.tk[t].acceptances = svc.tk[t].acceptances
       /\ eng[t].status = "CANCELLED" => eng'[t].status = "CANCELLED"
  /\ \A t \in svc'.tickets : svc'.tk[t].status = "REQUIRES_ACCEPTANCE" =>
       t \in svc.tickets /\ svc.tk[t].status = "REQUIRES_ACCEPTANCE"

LEMMA SilentTells ==
  ASSUME Telling, Silent
  PROVE  Tales' /\ RefusalsEnd'
<1>1. Tales'
  <2>. SUFFICES ASSUME NEW m \in MatchIDs PROVE TaleOf(m)'
    BY DEF Tales
  <2>1. TaleOf(m) /\ Lasting
    BY DEF Telling, Tales
  <2>2. svc'.matchFeed[m] = svc.matchFeed[m] /\ svc'.byMatch[m] = svc.byMatch[m]
    BY DEF Silent
  <2>3. svc.byMatch[m] # {} =>
          ((\E t \in svc.byMatch[m] : Refuses(svc'.tk[t])) <=>
           (\E t \in svc.byMatch[m] : Refuses(svc.tk[t])))
    BY <2>1, TrackedTeams DEF Silent, Refuses
  <2>4. UNCHANGED <<usedIDs, rejectedIn, AcceptanceRequired>>
    BY DEF Silent
  <2>. QED
    BY <2>1, <2>2, <2>3, <2>4 DEF TaleOf, Tale
<1>2. RefusalsEnd'
  BY DEF Telling, RefusalsEnd, Silent, Refuses
<1>. QED
  BY <1>1, <1>2

LEMMA SilentUnanswered ==
  ASSUME Telling, Silent, pending' \subseteq pending,
         \A p \in pending' : \A t \in p.ids : eng'[t] = eng[t]
  PROVE  Unanswered'
BY DEF Telling, Unanswered, Silent, FullyAccepted

LEMMA StopTells ==
  ASSUME Telling, NEW t \in Tickets, NEW requeued, StopMatchmaking(t, requeued),
         UNCHANGED AcceptanceRequired
  PROVE  Tales' /\ RefusalsEnd' /\ Unanswered'
<1>1. /\ FlexiTypeOK /\ EngineShape /\ svc \in Service /\ t \in svc.tickets
      /\ svc.tickets \subseteq Tickets /\ UNCHANGED <<usedIDs, rejectedIn>>
  BY ServiceFields DEF Telling, Lasting, IInv, TypeOK, StopMatchmaking
<1>. DEFINE ticket == RequestCancel(svc.tk[t])
            v == [svc EXCEPT !.tk[t] = ticket]
<1>2. /\ svc' = SaveTicket(v, {t}) /\ svc.tk[t] \in Ticket
      /\ ticket.acceptances = svc.tk[t].acceptances /\ ticket.status = svc.tk[t].status
  <2>1. svc.tk[t] \in Ticket
    BY <1>1, ServiceFields
  <2>2. ticket.acceptances = svc.tk[t].acceptances /\ ticket.status = svc.tk[t].status
    BY <2>1 DEF RequestCancel, Ticket
  <2>3. svc' = SaveTicket(v, {t})
    BY DEF StopMatchmaking
  <2>. QED
    BY <2>1, <2>2, <2>3
<1>. HIDE DEF ticket
<1>3. /\ svc'.tickets = svc.tickets /\ svc'.byMatch = svc.byMatch /\ svc'.matchFeed = svc.matchFeed
      /\ \A x \in Tickets : svc'.tk[x] = IF x = t THEN ticket ELSE svc.tk[x]
  <2>1. v.tickets = svc.tickets /\ v.byMatch = svc.byMatch /\ v.matchFeed = svc.matchFeed
    BY <1>1 DEF Service
  <2>2. HasFeed(v)
    BY <1>1, ServiceHasFeed DEF HasFeed
  <2>3. \A x \in Tickets : v.tk[x] = IF x = t THEN ticket ELSE svc.tk[x]
    BY <1>1, ServiceFields DEF Service
  <2>. HIDE DEF v
  <2>4. Hushed(v, svc') /\ SameTeams(v, svc')
    BY <1>2, <2>2, SaveHushed
  <2>. QED
    BY <2>1, <2>3, <2>4 DEF Hushed, SameTeams
<1>4. CASE Live(t)
  <2>1. Collapses(eng', t) /\ pending' = pending \ ProposalsOf(t)
    BY <1>1, <1>4, CancelCollapses DEF StopMatchmaking
  <2>2. \A x \in Tickets : eng[x].status = "CANCELLED" => eng'[x].status = "CANCELLED"
    BY <1>1, <2>1, CollapsedStays
  <2>3. Silent
    BY <1>1, <1>2, <1>3, <2>2 DEF Silent
  <2>4. pending' \subseteq pending /\ \A p \in pending' : \A x \in p.ids : eng'[x] = eng[x]
    BY <1>1, <2>1, CollapsedEngine
  <2>. QED
    BY <2>3, <2>4, SilentTells, SilentUnanswered
<1>5. CASE ~Live(t)
  <2>1. UNCHANGED <<eng, pending>>
    BY <1>5 DEF StopMatchmaking, engVars
  <2>2. Silent
    BY <1>1, <1>2, <1>3, <2>1 DEF Silent
  <2>. QED
    BY <2>1, <2>2, SilentTells, SilentUnanswered
<1>. QED
  BY <1>4, <1>5

\* Proposals nobody has answered lapse; of one that does so during an answer a player is missing.
LEMMA LapseTells ==
  ASSUME Telling, UNCHANGED <<svc, usedIDs, rejectedIn, AcceptanceRequired>>,
         \A t \in Tickets : eng'[t].status = eng[t].status,
         NEW L \in SUBSET pending, pending' = Lapse(pending, L),
         \A p \in pending \ L : \A t \in p.ids : eng'[t] = eng[t],
         \A p \in L : /\ ~p.expired
                      /\ (\A t \in p.ids : eng[t].accepted = {}) =>
                            \E t \in p.ids : eng'[t].accepted # Players
  PROVE  Tales' /\ RefusalsEnd' /\ Unanswered'
<1>1. /\ pending \subseteq Proposal /\ svc.tickets \subseteq Tickets
  BY ServiceFields DEF Telling, Lasting, IInv, TypeOK, FlexiTypeOK
<1>2. Tales' /\ RefusalsEnd'
  <2>1. Silent
    BY <1>1 DEF Silent
  <2>. QED
    BY <2>1, SilentTells
<1>3. ASSUME NEW q \in pending', NEW m \in MatchIDs, q.ids = svc'.byMatch[m],
             svc'.matchFeed[m] = Posed(m)
      PROVE  IF q.expired THEN \E t \in q.ids : eng'[t].accepted # Players
                          ELSE \A t \in q.ids : eng'[t].accepted = {}
  <2>1. PICK p \in pending : q = Lapsed(p, L)
    BY <1>1, <1>3, LapseImage
  <2>2. q.ids = p.ids
    BY <1>1, <2>1, LapsedFields
  <2>3. IF p.expired THEN \E t \in p.ids : eng[t].accepted # Players
                     ELSE \A t \in p.ids : eng[t].accepted = {}
    BY <1>3, <2>2 DEF Telling, Unanswered, FullyAccepted
  <2>4. CASE p \in L
    <3>1. q.expired
      BY <1>1, <2>1, <2>4, LapsedFields
    <3>. QED
      BY <2>2, <2>3, <2>4, <3>1
  <2>5. CASE p \notin L
    <3>1. q = p
      BY <2>1, <2>5 DEF Lapsed
    <3>. QED
      BY <2>3, <2>5, <3>1
  <2>. QED
    BY <2>4, <2>5
<1>4. Unanswered'
  BY <1>3 DEF Unanswered, FullyAccepted
<1>. QED
  BY <1>2, <1>4

LEMMA DeadlineTells ==
  ASSUME Telling, DeadlinePasses, UNCHANGED AcceptanceRequired
  PROVE  Tales' /\ RefusalsEnd' /\ Unanswered'
<1>1. UNCHANGED <<eng, svc, usedIDs, rejectedIn>> /\ EngineShape
  BY DEF DeadlinePasses, Deadline, Telling, Lasting, IInv
<1>2. PICK p \in pending : ~p.expired /\ pending' = Lapse(pending, {p})
  BY DEF DeadlinePasses, Deadline, PendingAcceptances
<1>3. PICK t \in p.ids : TRUE
  BY <1>1, FlexiConstants DEF EngineShape, FlexiConstants
<1>. QED
  BY <1>1, <1>2, <1>3, LapseTells, TicketConstants DEF TicketConstants

-----------------------------------------------------------------------------
(* Answers *)

\* The ticket t may answer for the match m, which nobody has rejected.
Open(t, m) ==
  /\ t \in svc.tickets /\ t \in Tickets /\ m \in MatchIDs /\ t \in svc.byMatch[m]
  /\ svc.tk[t].matchID = m /\ svc.tk[t].status = "REQUIRES_ACCEPTANCE"
  /\ svc.matchFeed[m] \in {Posed(m), Answered(m)}
  /\ m \notin rejectedIn /\ \A u \in svc.byMatch[m] : ~Refuses(svc.tk[u])
  /\ \A p \in pending : t \in p.ids => p.ids = svc.byMatch[m] /\ ~p.expired
  /\ \E p \in pending : t \in p.ids
  /\ \A k \in MatchIDs : k # m => t \notin svc.byMatch[k]

LEMMA MayAnswer ==
  ASSUME Telling, NEW t, NEW ids, MayAccept(t, ids)
  PROVE  Open(t, svc.tk[t].matchID)
<1>. DEFINE m == svc.tk[t].matchID
<1>1. /\ Lasting /\ IInv /\ EngineShape /\ Tracker(svc, usedIDs) /\ svc \in Service
      /\ PendingKnown
  BY DEF Telling, Lasting, IInv, TypeOK
<1>2. /\ t \in svc.tickets /\ t \in Tickets /\ m \in MatchIDs
      /\ \E p \in pending : t \in p.ids
      /\ \A p \in pending : p.expired => t \notin p.ids
  BY <1>1, AnsweredTicket
<1>3. svc.tk[t].status = "REQUIRES_ACCEPTANCE"
  BY DEF MayAccept, MayDecide
<1>4. t \in svc.byMatch[m] /\ \A k \in MatchIDs : k # m => t \notin svc.byMatch[k]
  BY <1>1, <1>2, <1>3 DEF Tracker, Waiting
<1>5. ASSUME NEW p \in pending, t \in p.ids PROVE p.ids = svc.byMatch[m] /\ ~p.expired
  <2>1. ~p.expired /\ p.ids \in Rosters
    BY <1>1, <1>2, <1>5 DEF EngineShape
  <2>2. Known(p)
    BY <1>1, <2>1 DEF PendingKnown, GivenUp
  <2>3. svc.matchIDs[p.ids] \in MatchIDs
    BY <1>1, <2>1, <2>2, ServiceFields DEF Known
  <2>4. svc.byMatch[svc.matchIDs[p.ids]] = p.ids
    BY <1>1, <2>1, <2>2 DEF Known, Tracker, Paired
  <2>. QED
    BY <1>4, <1>5, <2>1, <2>3, <2>4
<1>. HIDE DEF m
<1>6. \A u \in svc.byMatch[m] : ~Refuses(svc.tk[u])
  <2>1. PICK p \in pending : t \in p.ids
    BY <1>2
  <2>2. \A u \in svc.byMatch[m] : /\ u \in Tickets /\ u \in svc.tickets
                                  /\ svc.tk[u].status = "REQUIRES_ACCEPTANCE"
    BY <1>1, <1>2, <1>4, TrackedTeams
  <2>3. \A u \in svc.byMatch[m] : eng[u].status = "REQUIRES_ACCEPTANCE"
    BY <1>1, <1>5, <2>1, <2>2 DEF EngineShape
  <2>. QED
    BY <2>2, <2>3 DEF Telling, RefusalsEnd
<1>7. TaleOf(m)
  BY <1>2 DEF Telling, Tales
<1>8. svc.matchFeed[m] \in {Posed(m), Answered(m)} /\ m \notin rejectedIn
  BY <1>4, <1>6, <1>7 DEF TaleOf
<1>9. svc.tk[t].matchID = m
  BY DEF m
<1>10. Open(t, m)
  BY <1>2, <1>3, <1>4, <1>5, <1>6, <1>8, <1>9 DEF Open
<1>. QED
  BY <1>10 DEF m

LEMMA PosedAnswered ==
  ASSUME NEW m
  PROVE  /\ Answered(m) # Posed(m) /\ Posed(m) # <<>> /\ Answered(m) # <<>>
         /\ Posed(m)[Len(Posed(m))].type = "PotentialMatchCreated"
         /\ Answered(m)[Len(Answered(m))].type = "AcceptMatch"
<1>. DEFINE a == About(m, "PotentialMatchCreated")
            b == About(m, "AcceptMatch")
<1>1. a.type = "PotentialMatchCreated" /\ b.type = "AcceptMatch"
  BY DEF About
<1>. HIDE DEF a, b
<1>2. <<a>> \in Seq({a, b}) /\ b \in {a, b} /\ Len(<<a>>) = 1 /\ <<a>>[1] = a
  OBVIOUS
<1>3. Len(Append(<<a>>, b)) = 2 /\ Append(<<a>>, b)[2] = b
  BY <1>2
<1>4. Posed(m) = <<a>> /\ Answered(m) = Append(<<a>>, b)
  BY DEF Posed, Answered, a, b
<1>5. Len(Posed(m)) = 1 /\ Posed(m)[1] = a /\ Len(Answered(m)) = 2 /\ Answered(m)[2] = b
  BY <1>2, <1>3, <1>4
<1>6. Len(<<>>) = 0
  OBVIOUS
<1>7. Answered(m) # Posed(m) /\ Posed(m) # <<>> /\ Answered(m) # <<>>
  BY <1>5, <1>6
<1>8. Posed(m)[Len(Posed(m))] = a /\ Answered(m)[Len(Answered(m))] = b
  BY <1>5
<1>. QED
  BY <1>1, <1>7, <1>8

\* The match m has been answered with decision, for the players ids of t.
Answers(t, m, ids, decision) ==
  /\ svc'.tickets = svc.tickets /\ svc'.byMatch = svc.byMatch
  /\ \A x \in Tickets : svc'.tk[x] = IF x = t THEN RecordPlayerAcceptances(svc.tk[t], ids, decision)
                                     ELSE svc.tk[x]
  /\ \A k \in MatchIDs : svc'.matchFeed[k] = IF k = m THEN Answered(m) ELSE svc.matchFeed[k]

LEMMA DecisionsSay ==
  ASSUME Telling, NEW t, NEW m, Open(t, m), NEW ids \in SUBSET Players, NEW decision,
         svc' = recordDecisions(t, ids, decision)
  PROVE  Answers(t, m, ids, decision)
<1>. DEFINE ticket == RecordPlayerAcceptances(svc.tk[t], ids, decision)
            v == [svc EXCEPT !.tk[t] = ticket]
            s == SaveTicket(v, {t})
            u == Announce(s, {m}, "AcceptMatch")
<1>1. /\ svc \in Service /\ t \in svc.tickets /\ t \in Tickets /\ m \in MatchIDs
      /\ svc.tk[t] \in Ticket /\ svc.tk[t].matchID = m /\ Lasting
  BY ServiceFields DEF Telling, Lasting, IInv, TypeOK, Open
<1>2. ticket.matchID = m /\ ticket.teams = svc.tk[t].teams
  BY <1>1 DEF RecordPlayerAcceptances, Ticket
<1>. HIDE DEF ticket
<1>3. /\ HasFeed(s) /\ s.matchFeed = svc.matchFeed /\ s.tickets = svc.tickets /\ s.byMatch = svc.byMatch
      /\ \A x \in Tickets : s.tk[x] = IF x = t THEN ticket ELSE svc.tk[x]
  <2>1. v.tickets = svc.tickets /\ v.byMatch = svc.byMatch /\ v.matchFeed = svc.matchFeed
    BY <1>1 DEF Service
  <2>2. HasFeed(v)
    BY <1>1, ServiceHasFeed DEF HasFeed
  <2>3. \A x \in Tickets : v.tk[x] = IF x = t THEN ticket ELSE svc.tk[x]
    BY <1>1, ServiceFields DEF Service
  <2>. HIDE DEF v
  <2>4. Hushed(v, s) /\ SameTeams(v, s)
    BY <2>2, SaveHushed
  <2>. QED
    BY <2>1, <2>3, <2>4 DEF Hushed, SameTeams
<1>4. svc' = IF /\ s.matchFeed[m] # <<>>
                /\ s.matchFeed[m][Len(s.matchFeed[m])].type = "AcceptMatch"
             THEN s ELSE u
  <2>1. s.tk[t].matchID = m
    BY <1>1, <1>2, <1>3
  <2>. QED
    BY <1>1, <2>1 DEF recordDecisions, ticket
<1>. HIDE DEF s
<1>5. /\ u.tickets = s.tickets /\ u.tk = s.tk /\ u.byMatch = s.byMatch
      /\ \A k \in MatchIDs : u.matchFeed[k] = IF k = m THEN Append(s.matchFeed[m], About(m, "AcceptMatch"))
                                              ELSE s.matchFeed[k]
  <2>1. /\ svc.byMatch[m] # {} /\ svc.byMatch[m] \subseteq svc.tickets /\ svc.byMatch[m] \subseteq Tickets
        /\ \A x \in svc.byMatch[m] : svc.tk[x].teams = m
    BY <1>1, TrackedTeams DEF Open
  <2>2. \A x \in svc.byMatch[m] : s.tk[x].teams = m
    BY <1>2, <1>3, <2>1
  <2>3. buildDetail("AcceptMatch", snapshot(s, s.byMatch[m])) = About(m, "AcceptMatch")
    <3>. DEFINE r == s.byMatch[m]
    <3>1. s.byMatch[m] = r /\ r # {} /\ r \subseteq s.tickets /\ \A x \in r : s.tk[x].teams = m
      BY <1>3, <2>1, <2>2
    <3>. HIDE DEF r
    <3>2. \A event : buildDetail(event, snapshot(s, s.byMatch[m])) = About(m, event)
      BY <3>1, TeamsShown
    <3>. QED
      BY <3>2
  <2>. QED
    BY <1>3, <2>3 DEF Announce, HasFeed
<1>. HIDE DEF u
<1>6. svc'.matchFeed[m] = Answered(m)
  <2>1. s.matchFeed[m] \in {Posed(m), Answered(m)}
    BY <1>3 DEF Open
  <2>2. Append(Posed(m), About(m, "AcceptMatch")) = Answered(m)
    BY DEF Answered
  <2>. QED
    BY <1>1, <1>4, <1>5, <2>1, <2>2, PosedAnswered
<1>. QED
  BY <1>3, <1>4, <1>5, <1>6 DEF Answers, ticket

LEMMA Recorded ==
  ASSUME NEW x \in Ticket, NEW ids, NEW decision, NEW y,
         y = RecordPlayerAcceptances(x, ids, decision)
  PROVE  \A p \in Players : y.acceptances[p] = IF p \in ids THEN decision ELSE x.acceptances[p]
BY DEF RecordPlayerAcceptances, Ticket

LEMMA AcceptTells ==
  ASSUME Telling, NEW t \in Tickets, NEW ids \in SUBSET Players, AcceptMatch(t, ids),
         UNCHANGED AcceptanceRequired
  PROVE  Tales' /\ RefusalsEnd' /\ Unanswered'
<1>. DEFINE m == svc.tk[t].matchID
<1>1. /\ MayAccept(t, ids) /\ eng' = Accept(t, ids) /\ svc' = recordDecisions(t, ids, "accept")
      /\ UNCHANGED <<pending, usedIDs, rejectedIn>>
  BY DEF AcceptMatch
<1>2. Open(t, m)
  BY <1>1, MayAnswer
<1>. HIDE DEF m
<1>3. Answers(t, m, ids, "accept")
  BY <1>1, <1>2, DecisionsSay
<1>4. /\ FlexiTypeOK /\ svc \in Service /\ svc.tickets \subseteq Tickets /\ Lasting /\ t \in svc.tickets
      /\ EngineShape /\ \A k \in MatchIDs : TaleOf(k)
  <2>1. Lasting /\ IInv /\ \A k \in MatchIDs : TaleOf(k)
    BY DEF Telling, Lasting, Tales
  <2>2. FlexiTypeOK /\ svc \in Service /\ EngineShape /\ t \in svc.tickets
    BY <1>2, <2>1 DEF IInv, TypeOK, Open
  <2>. QED
    BY <2>1, <2>2, ServiceFields
<1>5. \A u \in Tickets : eng'[u].status = eng[u].status /\ (u # t => eng'[u] = eng[u])
  BY <1>1, <1>4, AcceptedEngine
<1>6. ~Refuses(svc.tk[t]) /\ ~Refuses(svc'.tk[t])
  <2>1. svc.tk[t] \in Ticket /\ ~Refuses(svc.tk[t])
    BY <1>2, <1>4, ServiceFields DEF Open
  <2>2. svc'.tk[t] = RecordPlayerAcceptances(svc.tk[t], ids, "accept")
    BY <1>3 DEF Answers
  <2>. QED
    BY <2>1, <2>2, Recorded DEF Refuses
<1>7. ASSUME NEW k \in MatchIDs PROVE TaleOf(k)'
  <2>1. /\ svc'.byMatch[k] = svc.byMatch[k]
        /\ svc'.matchFeed[k] = IF k = m THEN Answered(m) ELSE svc.matchFeed[k]
    BY <1>3 DEF Answers
  <2>2. \A u \in svc.byMatch[k] : Refuses(svc'.tk[u]) <=> Refuses(svc.tk[u])
    <3>1. \A u \in svc.byMatch[k] : u \in Tickets
      BY <1>4, TrackedTeams
    <3>. QED
      BY <1>3, <1>6, <3>1 DEF Answers
  <2>3. CASE k # m
    BY <1>1, <1>4, <2>1, <2>2, <2>3 DEF TaleOf, Tale
  <2>4. CASE k = m
    <3>1. svc.byMatch[m] # {} /\ m \notin rejectedIn
      BY <1>2 DEF Open
    <3>2. AcceptanceRequired /\ m \in usedIDs
      BY <1>4, <2>4, <3>1, TrackedTeams
    <3>3. Tale(m, Answered(m), m \in rejectedIn)'
      BY <3>2 DEF Tale
    <3>. QED
      BY <1>1, <1>4, <2>1, <2>2, <2>4, <3>1, <3>2, <3>3 DEF TaleOf, Tale
  <2>. QED
    BY <2>3, <2>4
<1>8. RefusalsEnd'
  <2>. SUFFICES ASSUME NEW u \in svc'.tickets, svc'.tk[u].status = "REQUIRES_ACCEPTANCE",
                       Refuses(svc'.tk[u])
                PROVE  eng'[u].status = "CANCELLED"
    BY DEF RefusalsEnd
  <2>1. u \in svc.tickets /\ u \in Tickets /\ u # t /\ svc'.tk[u] = svc.tk[u]
    BY <1>3, <1>4, <1>6 DEF Answers
  <2>. QED
    BY <1>5, <2>1 DEF Telling, RefusalsEnd
<1>9. Unanswered'
  <2>. SUFFICES ASSUME NEW p \in pending', NEW k \in MatchIDs, p.ids = svc'.byMatch[k],
                       svc'.matchFeed[k] = Posed(k)
                PROVE  IF p.expired THEN \E u \in p.ids : eng'[u].accepted # Players
                                    ELSE \A u \in p.ids : eng'[u].accepted = {}
    BY DEF Unanswered, FullyAccepted
  <2>1. k # m
    BY <1>2, <1>3, PosedAnswered DEF Answers, Open
  <2>2. /\ p \in pending /\ p.ids = svc.byMatch[k] /\ svc.matchFeed[k] = Posed(k) /\ t \notin p.ids
        /\ p.ids \subseteq Tickets
    BY <1>1, <1>2, <1>3, <1>4, <2>1 DEF Answers, Open, FlexiTypeOK, Proposal
  <2>3. \A u \in p.ids : eng'[u] = eng[u]
    BY <1>5, <2>2
  <2>. QED
    BY <2>2, <2>3 DEF Telling, Unanswered, FullyAccepted
<1>. QED
  BY <1>7, <1>8, <1>9 DEF Tales

LEMMA RejectTells ==
  ASSUME Telling, NEW t \in Tickets, NEW ids \in SUBSET Players, RejectMatch(t, ids),
         UNCHANGED AcceptanceRequired
  PROVE  Tales' /\ RefusalsEnd' /\ Unanswered'
<1>. DEFINE m == svc.tk[t].matchID
<1>1. /\ MayAccept(t, ids) /\ eng' = Reject(t) /\ svc' = recordDecisions(t, ids, "reject")
      /\ pending' = pending \ ProposalsOf(t)
      /\ rejectedIn' = rejectedIn \cup {m} /\ usedIDs' = usedIDs
  BY DEF RejectMatch
<1>2. Open(t, m)
  BY <1>1, MayAnswer
<1>. HIDE DEF m
<1>3. Answers(t, m, ids, "reject")
  BY <1>1, <1>2, DecisionsSay
<1>4. /\ FlexiTypeOK /\ svc \in Service /\ svc.tickets \subseteq Tickets /\ Lasting /\ t \in svc.tickets
      /\ EngineShape /\ \A k \in MatchIDs : TaleOf(k)
  <2>1. Lasting /\ IInv /\ \A k \in MatchIDs : TaleOf(k)
    BY DEF Telling, Lasting, Tales
  <2>2. FlexiTypeOK /\ svc \in Service /\ EngineShape /\ t \in svc.tickets
    BY <1>2, <2>1 DEF IInv, TypeOK, Open
  <2>. QED
    BY <2>1, <2>2, ServiceFields
<1>5. /\ Collapses(eng', t) /\ pending' \subseteq pending
      /\ \A p \in pending' : \A u \in p.ids : eng'[u] = eng[u]
      /\ \A u \in Tickets : eng[u].status = "CANCELLED" => eng'[u].status = "CANCELLED"
  <2>1. Collapses(eng', t)
    BY <1>1, <1>2, <1>4, RejectCollapses DEF Open
  <2>. QED
    BY <1>1, <1>4, <2>1, CollapsedEngine, CollapsedStays
<1>6. Refuses(svc'.tk[t])
  <2>1. svc.tk[t] \in Ticket /\ ids # {}
    BY <1>1, <1>4, ServiceFields DEF MayAccept, MayDecide
  <2>2. svc'.tk[t] = RecordPlayerAcceptances(svc.tk[t], ids, "reject")
    BY <1>3 DEF Answers
  <2>. QED
    BY <2>1, <2>2, Recorded DEF Refuses
<1>7. ASSUME NEW k \in MatchIDs PROVE TaleOf(k)'
  <2>1. /\ svc'.byMatch[k] = svc.byMatch[k]
        /\ svc'.matchFeed[k] = IF k = m THEN Answered(m) ELSE svc.matchFeed[k]
    BY <1>3 DEF Answers
  <2>2. CASE k # m
    <3>1. \A u \in svc.byMatch[k] : u \in Tickets /\ u # t
      BY <1>2, <1>4, <2>2, TrackedTeams DEF Open
    <3>2. \A u \in svc.byMatch[k] : svc'.tk[u] = svc.tk[u]
      BY <1>3, <3>1 DEF Answers
    <3>3. k \in rejectedIn' <=> k \in rejectedIn
      BY <1>1, <2>2
    <3>. QED
      BY <1>1, <1>4, <2>1, <2>2, <3>2, <3>3 DEF TaleOf, Tale
  <2>3. CASE k = m
    <3>1. t \in svc.byMatch[m] /\ m \in rejectedIn'
      BY <1>1, <1>2 DEF Open
    <3>2. AcceptanceRequired /\ m \in usedIDs
      BY <1>4, <2>3, <3>1, TrackedTeams
    <3>3. Tale(m, Answered(m), m \in rejectedIn)'
      BY <3>2 DEF Tale
    <3>. QED
      BY <1>1, <1>6, <2>1, <2>3, <3>1, <3>2, <3>3 DEF TaleOf, Tale
  <2>. QED
    BY <2>2, <2>3
<1>8. RefusalsEnd'
  <2>. SUFFICES ASSUME NEW u \in svc'.tickets, svc'.tk[u].status = "REQUIRES_ACCEPTANCE",
                       Refuses(svc'.tk[u])
                PROVE  eng'[u].status = "CANCELLED"
    BY DEF RefusalsEnd
  <2>1. u \in svc.tickets /\ u \in Tickets /\ (u # t => svc'.tk[u] = svc.tk[u])
    BY <1>3, <1>4 DEF Answers
  <2>2. CASE u = t
    BY <1>5, <2>2 DEF Collapses
  <2>3. CASE u # t
    BY <1>5, <2>1, <2>3 DEF Telling, RefusalsEnd
  <2>. QED
    BY <2>2, <2>3
<1>9. Unanswered'
  <2>. SUFFICES ASSUME NEW p \in pending', NEW k \in MatchIDs, p.ids = svc'.byMatch[k],
                       svc'.matchFeed[k] = Posed(k)
                PROVE  IF p.expired THEN \E u \in p.ids : eng'[u].accepted # Players
                                    ELSE \A u \in p.ids : eng'[u].accepted = {}
    BY DEF Unanswered, FullyAccepted
  <2>1. k # m
    BY <1>2, <1>3, PosedAnswered DEF Answers, Open
  <2>2. /\ p \in pending /\ p.ids = svc.byMatch[k] /\ svc.matchFeed[k] = Posed(k)
        /\ \A u \in p.ids : eng'[u] = eng[u]
    BY <1>3, <1>5, <2>1 DEF Answers
  <2>. QED
    BY <2>2 DEF Telling, Unanswered, FullyAccepted
<1>. QED
  BY <1>7, <1>8, <1>9 DEF Tales

LEMMA AcceptLapsesTells ==
  ASSUME Telling, NEW t \in Tickets, NEW ids \in SUBSET Players, NEW done \in SUBSET ids,
         AcceptMatchLapses(t, ids, done), UNCHANGED AcceptanceRequired
  PROVE  Tales' /\ RefusalsEnd' /\ Unanswered'
<1>. DEFINE L == ProposalsOf(t)
<1>1. /\ MayAccept(t, ids) /\ eng' = Accept(t, done) /\ pending' = Lapse(pending, L)
      /\ done # ids /\ UNCHANGED <<svc, usedIDs, rejectedIn>>
  BY DEF AcceptMatchLapses
<1>2. FlexiTypeOK /\ pending \subseteq Proposal
  BY DEF Telling, Lasting, IInv, TypeOK, FlexiTypeOK
<1>3. \A u \in Tickets : eng'[u].status = eng[u].status /\ (u # t => eng'[u] = eng[u])
  BY <1>1, <1>2, AcceptedEngine
<1>4. L \in SUBSET pending /\ \A p \in pending : p \in L <=> t \in p.ids
  BY DEF ProposalsOf
<1>5. \A p \in pending \ L : \A u \in p.ids : eng'[u] = eng[u]
  BY <1>2, <1>3, <1>4 DEF Proposal
<1>6. ASSUME NEW p \in L
      PROVE  /\ ~p.expired
             /\ (\A u \in p.ids : eng[u].accepted = {}) => \E u \in p.ids : eng'[u].accepted # Players
  <2>1. ~p.expired
    BY <1>1, <1>4, MayAnswer DEF Open
  <2>2. ASSUME eng[t].accepted = {} PROVE eng'[t].accepted # Players
    <3>1. eng'[t].accepted = {} \cup done
      BY <1>1, <1>2, <2>2 DEF Accept, FlexiTypeOK, EngineTicket
    <3>. QED
      BY <1>1, <3>1
  <2>. QED
    BY <1>4, <2>1, <2>2
<1>. HIDE DEF L
<1>. QED
  BY <1>1, <1>3, <1>4, <1>5, <1>6, LapseTells

-----------------------------------------------------------------------------
(* Requests *)

LEMMA CommitHushed ==
  ASSUME NEW s, HasFeed(s), NEW t, NEW ticket
  PROVE  Hushed(s, addTicket(commitTicket(s, t, ticket), {t}))
<1>. DEFINE v == [s EXCEPT !.tickets = s.tickets \cup {t}, !.tk[t] = ticket, !.feed[t] = <<>>]
            w == commitTicket(s, t, ticket)
<1>1. Hushed(s, v) /\ w = SaveTicket(v, {t})
  BY DEF Hushed, HasFeed, commitTicket
<1>. HIDE DEF v, w
<1>2. Hushed(v, w)
  BY <1>1, SaveHushed DEF Hushed
<1>3. Hushed(w, addTicket(w, {t}))
  BY <1>2, AddTicketHushed DEF Hushed
<1>. QED
  BY <1>1, <1>2, <1>3 DEF Hushed, w

LEMMA SupersedeHushed ==
  ASSUME NEW s, HasFeed(s), NEW prev
  PROVE  Hushed(s, supersedeBackfill(s, prev))
<1>. DEFINE tk == [u \in Tickets |-> IF u \in prev THEN MarkCancelledBySuperseded(s.tk[u]) ELSE s.tk[u]]
            v == [s EXCEPT !.tk = tk]
            w == SaveTicket(v, prev)
<1>1. supersedeBackfill(s, prev) = addTicket(w, prev)
  BY DEF supersedeBackfill
<1>. HIDE DEF tk
<1>2. Hushed(s, v)
  BY SetHushed
<1>. HIDE DEF v
<1>3. Hushed(v, w)
  BY <1>2, SaveHushed DEF Hushed
<1>. HIDE DEF w
<1>4. Hushed(w, addTicket(w, prev))
  BY <1>3, AddTicketHushed DEF Hushed
<1>. QED
  BY <1>1, <1>2, <1>3, <1>4 DEF Hushed

\* The ticket t is new, the earlier requests prev are cancelled, and no match is told of.
ComesIn(t, prev) ==
  /\ svc'.matchFeed = svc.matchFeed /\ svc'.byMatch = svc.byMatch
  /\ svc'.tickets = svc.tickets \cup {t} /\ svc'.tk[t].status = "QUEUED"
  /\ \A x \in svc.tickets : IF x \in prev THEN svc'.tk[x].status = "CANCELLED"
                                          ELSE svc'.tk[x] = svc.tk[x]

LEMMA EnqueueTells ==
  ASSUME Telling, NEW t \in Tickets, IdFree(t), NEW prev, prev \subseteq svc.tickets,
         \A u \in prev : status(u) \in InPool,
         NEW e, NEW b, Superseded(prev, e, pending'), eng' = Enqueued(e, t, b),
         ComesIn(t, prev), UNCHANGED <<usedIDs, rejectedIn, AcceptanceRequired>>
  PROVE  Tales' /\ RefusalsEnd' /\ Unanswered'
<1>1. /\ IInv /\ EngineShape /\ svc.tickets \subseteq Tickets /\ t \notin svc.tickets
      /\ eng[t].status = Unknown
  <2>1. IInv
    BY DEF Telling, Lasting
  <2>. QED
    BY <2>1, ServiceFields DEF IInv, TypeOK, IdFree
<1>2. /\ e \in [Tickets -> EngineTicket] /\ pending' \subseteq pending
      /\ \A p \in pending' : \A u \in p.ids : u \in Tickets /\ e[u] = eng[u]
      /\ \A u \in Tickets : IsTerminal(eng[u].status) => e[u] = eng[u]
  <2>. DEFINE P == pending'
  <2>1. Superseded(prev, e, P)
    OBVIOUS
  <2>. HIDE DEF P
  <2>2. /\ e \in [Tickets -> EngineTicket] /\ P \subseteq pending
        /\ \A p \in P : \A u \in p.ids : u \in Tickets /\ e[u] = eng[u]
        /\ \A u \in Tickets : IsTerminal(eng[u].status) => e[u] = eng[u]
    BY <1>1, <2>1, SupersededEngine
  <2>. QED
    BY <2>2 DEF P
<1>3. \A u \in Tickets : u # t => eng'[u] = e[u]
  BY <1>2 DEF Enqueued
<1>4. \A x \in svc.tickets : svc.tk[x].status = "REQUIRES_ACCEPTANCE" => x \notin prev
  BY DEF InPool, status
<1>5. Silent
  <2>1. ASSUME NEW x \in svc.tickets, svc.tk[x].status = "REQUIRES_ACCEPTANCE"
        PROVE  /\ svc'.tk[x].acceptances = svc.tk[x].acceptances
               /\ eng[x].status = "CANCELLED" => eng'[x].status = "CANCELLED"
    BY <1>1, <1>2, <1>3, <1>4, <2>1 DEF ComesIn, IsTerminal, Terminal
  <2>2. ASSUME NEW x \in svc'.tickets, svc'.tk[x].status = "REQUIRES_ACCEPTANCE"
        PROVE  x \in svc.tickets /\ svc.tk[x].status = "REQUIRES_ACCEPTANCE"
    BY <2>2 DEF ComesIn
  <2>. QED
    BY <2>1, <2>2 DEF Silent, ComesIn
<1>6. \A p \in pending' : \A u \in p.ids : eng'[u] = eng[u]
  <2>1. ASSUME NEW p \in pending', NEW u \in p.ids PROVE u # t
    BY <1>1, <1>2, <2>1 DEF EngineShape, Unknown
  <2>. QED
    BY <1>2, <1>3, <2>1
<1>. QED
  BY <1>2, <1>5, <1>6, SilentTells, SilentUnanswered

LEMMA StartTells ==
  ASSUME Telling, NEW t \in Tickets, StartMatchmaking(t), UNCHANGED AcceptanceRequired
  PROVE  Tales' /\ RefusalsEnd' /\ Unanswered'
<1>. DEFINE ticket == newTicket(FALSE, NoSession)
            w == addTicket(commitTicket(svc, t, ticket), {t})
            prev == {}
<1>1. /\ svc \in Service /\ Index(svc) /\ IdFree(t) /\ t \notin svc.tickets
      /\ svc.tickets \subseteq Tickets
      /\ eng' = Enqueued(eng, t, FALSE) /\ svc' = w
      /\ UNCHANGED <<pending, usedIDs, rejectedIn>>
  <2>1. svc \in Service /\ Index(svc)
    BY DEF Telling, Lasting, IInv, TypeOK
  <2>. QED
    BY <2>1, ServiceFields DEF StartMatchmaking, IdFree
<1>2. t \notin svc.active /\ ticket \in Ticket /\ ticket.status = "QUEUED"
  BY <1>1, NewTicketType DEF Index
<1>3. Hushed(svc, w)
  BY <1>1, ServiceHasFeed, CommitHushed
<1>. HIDE DEF ticket
<1>4. /\ w \in Service /\ w.tickets = svc.tickets \cup {t} /\ w.active = svc.active \cup {t}
      /\ KeepsTracker(svc, w)
      /\ w.tk[t].status = "QUEUED" /\ Fixed(w.tk[t]) = Fixed(ticket)
      /\ \A x \in Tickets \ {t} : w.tk[x] = svc.tk[x]
  BY <1>1, <1>2, CommitAndPublish
<1>. HIDE DEF w
<1>5. ComesIn(t, prev)
  BY <1>1, <1>3, <1>4 DEF ComesIn, Hushed, KeepsTracker
<1>6. /\ prev \subseteq svc.tickets /\ \A u \in prev : status(u) \in InPool
      /\ Superseded(prev, eng, pending')
  BY <1>1 DEF Superseded
<1>. HIDE DEF prev
<1>. QED
  BY <1>1, <1>5, <1>6, EnqueueTells

LEMMA BackfillTells ==
  ASSUME Telling, NEW t \in Tickets, NEW session \in BackfillARNs, NEW requeued,
         StartMatchBackfill(t, session, requeued), UNCHANGED AcceptanceRequired
  PROVE  Tales' /\ RefusalsEnd' /\ Unanswered'
<1>. DEFINE prev == findSessionBackfill(session)
            v == supersedeBackfill(svc, prev)
            ticket == newTicket(TRUE, session)
            w == addTicket(commitTicket(v, t, ticket), {t})
<1>1. IInv /\ svc \in Service /\ Index(svc) /\ svc.tickets \subseteq Tickets
  <2>1. IInv /\ svc \in Service /\ Index(svc)
    BY DEF Telling, Lasting, IInv, TypeOK
  <2>. QED
    BY <2>1, ServiceFields
<1>2. /\ IdFree(t) /\ t \notin svc.tickets /\ svc' = w
      /\ \A u \in prev : isSupersedable(svc.tk[u].status)
      /\ UNCHANGED <<usedIDs, rejectedIn>>
  BY DEF StartMatchBackfill, IdFree
<1>3. PICK e : eng' = Enqueued(e, t, TRUE) /\ Superseded(prev, e, pending')
  BY <1>1, BackfillSupersedes
<1>4. /\ prev \subseteq svc.active /\ svc.active \subseteq svc.tickets
      /\ prev \subseteq Tickets /\ prev \in SUBSET svc.tickets
  BY <1>1 DEF Index, findSessionBackfill
<1>5. \A u \in prev : status(u) \in InPool
  BY <1>2 DEF isSupersedable, InPool, status
<1>6. ticket \in Ticket /\ ticket.status = "QUEUED"
  BY MatchmakingConstants, NewTicketType DEF MatchmakingConstants
<1>. HIDE DEF prev
<1>7. /\ v \in Service /\ v.tickets = svc.tickets /\ KeepsTracker(svc, v)
      /\ \A x \in Tickets : x \notin prev => v.tk[x] = svc.tk[x]
      /\ v.active = (svc.active \ prev) \cup {x \in prev : ~IsTerminal(v.tk[x].status)}
  BY <1>1, <1>4, SupersedeEffect
<1>8. \A x \in prev : v.tk[x].status = "CANCELLED"
  BY <1>1, <1>4, <1>5, SupersedeCarries DEF status
<1>9. Hushed(svc, v)
  BY <1>1, ServiceHasFeed, SupersedeHushed
<1>. HIDE DEF v, ticket
<1>10. Hushed(v, w)
  BY <1>9, CommitHushed DEF Hushed
<1>11. /\ w \in Service /\ w.tickets = v.tickets \cup {t} /\ w.active = v.active \cup {t}
       /\ KeepsTracker(v, w)
       /\ w.tk[t].status = "QUEUED" /\ Fixed(w.tk[t]) = Fixed(ticket)
       /\ \A x \in Tickets \ {t} : w.tk[x] = v.tk[x]
  <2>1. /\ v \in Service /\ t \notin v.active
        /\ ticket \in Ticket /\ ticket.status = "QUEUED"
    BY <1>1, <1>2, <1>4, <1>6, <1>7 DEF Index
  <2>. QED
    BY <2>1, CommitAndPublish
<1>. HIDE DEF w
<1>12. ComesIn(t, prev)
  BY <1>1, <1>2, <1>7, <1>8, <1>9, <1>10, <1>11 DEF ComesIn, Hushed, KeepsTracker
<1>. QED
  BY <1>2, <1>3, <1>4, <1>5, <1>12, EnqueueTells

-----------------------------------------------------------------------------
(* Theorems about one match *)

LEMMA InitTelling == Init => Telling
<1>. SUFFICES ASSUME Init PROVE Telling
  OBVIOUS
<1>1. Lasting
  BY InitLasting
<1>2. Tales
  BY DEF Init, Tales, TaleOf, Tale
<1>3. RefusalsEnd /\ Unanswered
  BY DEF Init, FlexiInit, RefusalsEnd, Unanswered
<1>. QED
  BY <1>1, <1>2, <1>3 DEF Telling

LEMMA TickTells ==
  ASSUME Telling, TickOnce, UNCHANGED AcceptanceRequired
  PROVE  Tales' /\ RefusalsEnd' /\ Unanswered'
<1>1. Lasting /\ IInv
  BY DEF Telling, Lasting
<1>2. PICK e, matches, left, now, late, after, f, D, fresh, used, expired, s1, s2, s3, s4 :
        TickRun(e, matches, left, now, late, after, f, D, fresh, used, expired, s1, s2, s3, s4)
  BY <1>1, TickRuns
<1>3. RefusalsEnd' /\ Unanswered'
  BY <1>2, TickRefusalsEnd, TickUnanswered
<1>4. UNCHANGED <<rejectedIn, AcceptanceRequired>> /\ usedIDs \subseteq usedIDs'
  BY <1>2 DEF TickRun
<1>5. \A m \in MatchIDs : TickOf(m)
  BY <1>1, <1>2, TickRunTicks
<1>6. ASSUME NEW m \in MatchIDs PROVE TaleOf(m)'
  BY <1>4, <1>5, TickTales
<1>. QED
  BY <1>3, <1>6 DEF Tales

LEMMA StepTelling == Telling /\ [Next]_vars => Telling'
<1>. SUFFICES ASSUME Telling, [Next]_vars PROVE Telling'
  OBVIOUS
<1>1. Lasting'
  BY StepLasting DEF Telling
<1>2. Tales' /\ RefusalsEnd' /\ Unanswered'
  <2>1. CASE UNCHANGED vars
    BY <2>1 DEF vars, engVars, Telling, Tales, TaleOf, Tale, RefusalsEnd, Unanswered, FullyAccepted
  <2>2. CASE Next
    <3>1. UNCHANGED AcceptanceRequired
      BY <2>2 DEF Next
    <3>2. CASE Start
      BY <3>1, <3>2, StartTells DEF Start
    <3>3. CASE Backfill
      BY <3>1, <3>3, BackfillTells DEF Backfill
    <3>4. CASE Stop
      BY <3>1, <3>4, StopTells DEF Stop
    <3>5. CASE Decide
      <4>1. PICK t \in Tickets, ids \in SUBSET Players :
              \/ AcceptMatch(t, ids)
              \/ RejectMatch(t, ids)
              \/ \E done \in SUBSET ids : AcceptMatchLapses(t, ids, done)
        BY <3>5 DEF Decide
      <4>. QED
        BY <3>1, <4>1, AcceptTells, RejectTells, AcceptLapsesTells
    <3>6. CASE TickOnce
      BY <3>1, <3>6, TickTells
    <3>7. CASE DeadlinePasses
      BY <3>1, <3>7, DeadlineTells
    <3>. QED
      BY <2>2, <3>2, <3>3, <3>4, <3>5, <3>6, <3>7 DEF Next, Commands
  <2>. QED
    BY <2>1, <2>2
<1>. QED
  BY <1>1, <1>2 DEF Telling

LEMMA TellingAlways == Spec => []Telling
<1>. QED
  BY InitTelling, StepTelling, PTL DEF Spec

LEMMA AppendSecond ==
  ASSUME NEW a, NEW b
  PROVE  Append(<<a>>, b) = <<a, b>>
<1>. DEFINE T == {a, b}
            f == Append(<<a>>, b)
            g == <<a, b>>
<1>1. /\ <<a>> \in Seq(T) /\ Len(<<a>>) = 1 /\ b \in T
      /\ <<a>>[1] = a
      /\ g \in Seq(T) /\ Len(g) = 2 /\ g[1] = a /\ g[2] = b
  OBVIOUS
<1>2. f \in Seq(T) /\ Len(f) = 2 /\ f[1] = a /\ f[2] = b
  BY <1>1
<1>. HIDE DEF T, f, g
<1>3. \A i \in 1..Len(f) : f[i] = g[i]
  BY <1>1, <1>2
<1>4. f = g
  BY <1>1, <1>2, <1>3, SeqEqual
<1>. QED
  BY <1>4 DEF f, g

LEMMA AppendThird ==
  ASSUME NEW a, NEW b, NEW c
  PROVE  Append(<<a, b>>, c) = <<a, b, c>>
<1>. DEFINE T == {a, b, c}
            f == Append(<<a, b>>, c)
            g == <<a, b, c>>
<1>1. /\ <<a, b>> \in Seq(T) /\ Len(<<a, b>>) = 2 /\ c \in T
      /\ <<a, b>>[1] = a /\ <<a, b>>[2] = b
      /\ g \in Seq(T) /\ Len(g) = 3 /\ g[1] = a /\ g[2] = b /\ g[3] = c
  OBVIOUS
<1>2. f \in Seq(T) /\ Len(f) = 3 /\ f[1] = a /\ f[2] = b /\ f[3] = c
  BY <1>1
<1>. HIDE DEF T, f, g
<1>3. \A i \in 1..Len(f) : f[i] = g[i]
  BY <1>1, <1>2
<1>4. f = g
  BY <1>1, <1>2, <1>3, SeqEqual
<1>. QED
  BY <1>4 DEF f, g

LEMMA AppendFourth ==
  ASSUME NEW a, NEW b, NEW c, NEW d
  PROVE  Append(<<a, b, c>>, d) = <<a, b, c, d>>
<1>. DEFINE T == {a, b, c, d}
            f == Append(<<a, b, c>>, d)
            g == <<a, b, c, d>>
<1>1. /\ <<a, b, c>> \in Seq(T) /\ Len(<<a, b, c>>) = 3 /\ d \in T
      /\ <<a, b, c>>[1] = a /\ <<a, b, c>>[2] = b /\ <<a, b, c>>[3] = c
      /\ g \in Seq(T) /\ Len(g) = 4 /\ g[1] = a /\ g[2] = b /\ g[3] = c /\ g[4] = d
  OBVIOUS
<1>2. f \in Seq(T) /\ Len(f) = 4 /\ f[1] = a /\ f[2] = b /\ f[3] = c /\ f[4] = d
  BY <1>1
<1>. HIDE DEF T, f, g
<1>3. \A i \in 1..Len(f) : f[i] = g[i]
  BY <1>1, <1>2
<1>4. f = g
  BY <1>1, <1>2, <1>3, SeqEqual
<1>. QED
  BY <1>4 DEF f, g

\* What one event of the match m may say, and what a subscriber sees of all of them.
Truthful(m, detail, refused) ==
  /\ detail.teams = {m}
  /\ detail.type = "Rejected" => refused
  /\ detail.type \in {"TimedOut", "Accepted"} => ~refused

Shown(m, g, refused) ==
  /\ TypesOf(g) \in LegalMatchFeeds
  /\ \A i \in DOMAIN g : Truthful(m, g[i], refused)

LEMMA ShownNone ==
  ASSUME NEW m, NEW refused, <<>> \in LegalMatchFeeds
  PROVE  Shown(m, <<>>, refused)
<1>1. TypesOf(<<>>) = <<>>
  BY DEF TypesOf
<1>2. \A i \in DOMAIN <<>> : FALSE
  OBVIOUS
<1>. QED
  BY <1>1, <1>2 DEF Shown

LEMMA ShownOne ==
  ASSUME NEW m, NEW refused, NEW a,
         Truthful(m, a, refused),
         <<a.type>> \in LegalMatchFeeds
  PROVE  Shown(m, <<a>>, refused)
<1>1. TypesOf(<<a>>) = <<a.type>>
  BY DEF TypesOf
<1>2. \A i \in DOMAIN <<a>> : <<a>>[i] \in {a}
  OBVIOUS
<1>3. \A x \in {a} : Truthful(m, x, refused)
  OBVIOUS
<1>4. \A i \in DOMAIN <<a>> : Truthful(m, <<a>>[i], refused)
  BY <1>2, <1>3
<1>. QED
  BY <1>1, <1>4 DEF Shown

LEMMA ShownTwo ==
  ASSUME NEW m, NEW refused, NEW a, NEW b,
         Truthful(m, a, refused), Truthful(m, b, refused),
         <<a.type, b.type>> \in LegalMatchFeeds
  PROVE  Shown(m, <<a, b>>, refused)
<1>1. TypesOf(<<a, b>>) = <<a.type, b.type>>
  BY DEF TypesOf
<1>2. \A i \in DOMAIN <<a, b>> : <<a, b>>[i] \in {a, b}
  OBVIOUS
<1>3. \A x \in {a, b} : Truthful(m, x, refused)
  OBVIOUS
<1>4. \A i \in DOMAIN <<a, b>> : Truthful(m, <<a, b>>[i], refused)
  BY <1>2, <1>3
<1>. QED
  BY <1>1, <1>4 DEF Shown

LEMMA ShownThree ==
  ASSUME NEW m, NEW refused, NEW a, NEW b, NEW c,
         Truthful(m, a, refused), Truthful(m, b, refused),
         Truthful(m, c, refused),
         <<a.type, b.type, c.type>> \in LegalMatchFeeds
  PROVE  Shown(m, <<a, b, c>>, refused)
<1>1. TypesOf(<<a, b, c>>) = <<a.type, b.type, c.type>>
  BY DEF TypesOf
<1>2. \A i \in DOMAIN <<a, b, c>> : <<a, b, c>>[i] \in {a, b, c}
  OBVIOUS
<1>3. \A x \in {a, b, c} : Truthful(m, x, refused)
  OBVIOUS
<1>4. \A i \in DOMAIN <<a, b, c>> : Truthful(m, <<a, b, c>>[i], refused)
  BY <1>2, <1>3
<1>. QED
  BY <1>1, <1>4 DEF Shown

LEMMA ShownFour ==
  ASSUME NEW m, NEW refused, NEW a, NEW b, NEW c, NEW d,
         Truthful(m, a, refused), Truthful(m, b, refused),
         Truthful(m, c, refused), Truthful(m, d, refused),
         <<a.type, b.type, c.type, d.type>> \in LegalMatchFeeds
  PROVE  Shown(m, <<a, b, c, d>>, refused)
<1>1. TypesOf(<<a, b, c, d>>) = <<a.type, b.type, c.type, d.type>>
  BY DEF TypesOf
<1>2. \A i \in DOMAIN <<a, b, c, d>> : <<a, b, c, d>>[i] \in {a, b, c, d}
  OBVIOUS
<1>3. \A x \in {a, b, c, d} : Truthful(m, x, refused)
  OBVIOUS
<1>4. \A i \in DOMAIN <<a, b, c, d>> : Truthful(m, <<a, b, c, d>>[i], refused)
  BY <1>2, <1>3
<1>. QED
  BY <1>1, <1>4 DEF Shown

LEMMA ToldSoFar ==
  ASSUME NEW m, NEW g, NEW refused, Tale(m, g, refused)
  PROVE  Shown(m, g, refused)
<1>. DEFINE p == About(m, "PotentialMatchCreated")
            a == About(m, "AcceptMatch")
            o == About(m, "TimedOut")
            r == About(m, "Rejected")
            c == About(m, "Accepted")
            s == About(m, "MatchmakingSucceeded")
<1>1. \A event : About(m, event).type = event /\ About(m, event).teams = {m}
  BY DEF About
<1>2. /\ p.type = "PotentialMatchCreated" /\ a.type = "AcceptMatch" /\ o.type = "TimedOut"
      /\ r.type = "Rejected" /\ c.type = "Accepted" /\ s.type = "MatchmakingSucceeded"
      /\ p.teams = {m} /\ a.teams = {m} /\ o.teams = {m} /\ r.teams = {m} /\ c.teams = {m}
      /\ s.teams = {m}
  BY <1>1
<1>3. Posed(m) = <<p>> /\ Answered(m) = <<p, a>>
  <2>1. Append(<<p>>, a) = <<p, a>>
    BY AppendSecond
  <2>. QED
    BY <2>1 DEF Posed, Answered
<1>4. IF AcceptanceRequired
      THEN \/ g \in {<<>>, <<p>>, <<p, a>>}
           \/ ~refused /\ g \in {<<p, o>>, <<p, a, o>>, <<p, a, c, s>>}
           \/ refused /\ g = <<p, a, r>>
      ELSE g \in {<<>>, <<p, s>>}
  <2>1. /\ Append(<<p>>, o) = <<p, o>> /\ Append(<<p>>, s) = <<p, s>>
        /\ Append(<<p, a>>, o) = <<p, a, o>> /\ Append(<<p, a>>, r) = <<p, a, r>>
        /\ Append(<<p, a>>, c) = <<p, a, c>> /\ Append(<<p, a, c>>, s) = <<p, a, c, s>>
    <3>. HIDE DEF p, a, o, r, c, s
    <3>1. Append(<<p>>, o) = <<p, o>> /\ Append(<<p>>, s) = <<p, s>>
      BY AppendSecond
    <3>2. /\ Append(<<p, a>>, o) = <<p, a, o>> /\ Append(<<p, a>>, r) = <<p, a, r>>
          /\ Append(<<p, a>>, c) = <<p, a, c>>
      BY AppendThird
    <3>3. Append(<<p, a, c>>, s) = <<p, a, c, s>>
      BY AppendFourth
    <3>. QED
      BY <3>1, <3>2, <3>3
  <2>. HIDE DEF p, a, o, r, c, s
  <2>2. /\ Append(Posed(m), o) = <<p, o>> /\ Append(Posed(m), s) = <<p, s>>
        /\ Append(Answered(m), o) = <<p, a, o>> /\ Append(Answered(m), r) = <<p, a, r>>
        /\ Append(Append(Answered(m), c), s) = <<p, a, c, s>>
    BY <1>3, <2>1
  <2>3. IF AcceptanceRequired
        THEN \/ g \in {<<>>, Posed(m), Answered(m)}
             \/ ~refused /\ g \in {Append(Posed(m), o), Append(Answered(m), o),
                                   Append(Append(Answered(m), c), s)}
             \/ refused /\ g = Append(Answered(m), r)
        ELSE g \in {<<>>, Append(Posed(m), s)}
    BY DEF Tale, p, a, o, r, c, s
  <2>. QED
    BY <1>3, <2>2, <2>3
<1>. HIDE DEF p, a, o, r, c, s
<1>5. /\ Truthful(m, p, refused) /\ Truthful(m, a, refused) /\ Truthful(m, s, refused)
      /\ refused => Truthful(m, r, refused)
      /\ ~refused => Truthful(m, o, refused) /\ Truthful(m, c, refused)
  BY <1>2 DEF Truthful
<1>6. CASE g = <<>>
  <2>1. <<>> \in LegalMatchFeeds
    BY <1>2, <1>6 DEF LegalMatchFeeds
  <2>2. Shown(m, <<>>, refused)
    BY <1>5, <1>6, <2>1, ShownNone
  <2>. QED
    BY <1>6, <2>2
<1>7. CASE g = <<p>> /\ AcceptanceRequired
  <2>1. <<p.type>> \in LegalMatchFeeds
    BY <1>2, <1>7 DEF LegalMatchFeeds
  <2>2. Shown(m, <<p>>, refused)
    BY <1>5, <1>7, <2>1, ShownOne
  <2>. QED
    BY <1>7, <2>2
<1>8. CASE g = <<p, a>> /\ AcceptanceRequired
  <2>1. <<p.type, a.type>> \in LegalMatchFeeds
    BY <1>2, <1>8 DEF LegalMatchFeeds
  <2>2. Shown(m, <<p, a>>, refused)
    BY <1>5, <1>8, <2>1, ShownTwo
  <2>. QED
    BY <1>8, <2>2
<1>9. CASE g = <<p, o>> /\ AcceptanceRequired /\ ~refused
  <2>1. <<p.type, o.type>> \in LegalMatchFeeds
    BY <1>2, <1>9 DEF LegalMatchFeeds
  <2>2. Shown(m, <<p, o>>, refused)
    BY <1>5, <1>9, <2>1, ShownTwo
  <2>. QED
    BY <1>9, <2>2
<1>10. CASE g = <<p, a, o>> /\ AcceptanceRequired /\ ~refused
  <2>1. <<p.type, a.type, o.type>> \in LegalMatchFeeds
    BY <1>2, <1>10 DEF LegalMatchFeeds
  <2>2. Shown(m, <<p, a, o>>, refused)
    BY <1>5, <1>10, <2>1, ShownThree
  <2>. QED
    BY <1>10, <2>2
<1>11. CASE g = <<p, a, r>> /\ AcceptanceRequired /\ refused
  <2>1. <<p.type, a.type, r.type>> \in LegalMatchFeeds
    BY <1>2, <1>11 DEF LegalMatchFeeds
  <2>2. Shown(m, <<p, a, r>>, refused)
    BY <1>5, <1>11, <2>1, ShownThree
  <2>. QED
    BY <1>11, <2>2
<1>12. CASE g = <<p, a, c, s>> /\ AcceptanceRequired /\ ~refused
  <2>1. <<p.type, a.type, c.type, s.type>> \in LegalMatchFeeds
    BY <1>2, <1>12 DEF LegalMatchFeeds
  <2>2. Shown(m, <<p, a, c, s>>, refused)
    BY <1>5, <1>12, <2>1, ShownFour
  <2>. QED
    BY <1>12, <2>2
<1>13. CASE g = <<p, s>> /\ ~AcceptanceRequired
  <2>1. <<p.type, s.type>> \in LegalMatchFeeds
    BY <1>2, <1>13 DEF LegalMatchFeeds
  <2>2. Shown(m, <<p, s>>, refused)
    BY <1>5, <1>13, <2>1, ShownTwo
  <2>. QED
    BY <1>13, <2>2
<1>. QED
  BY <1>4, <1>6, <1>7, <1>8, <1>9, <1>10, <1>11, <1>12, <1>13

LEMMA MatchShown ==
  ASSUME Telling, NEW m \in MatchIDs
  PROVE  Shown(m, svc.matchFeed[m], m \in rejectedIn)
<1>1. Tale(m, svc.matchFeed[m], m \in rejectedIn)
  BY DEF Telling, Tales, TaleOf
<1>. QED
  BY <1>1, ToldSoFar

\* A match is announced once and first, its acceptance phase is reported at most once,
\* and it succeeds only as an accepted or a direct one, after which nothing follows:
\* whatever is answered, stopped, superseded or timed out in between, and however late
\* the tick gets to it.
THEOREM MatchFeedLegalAlways == Spec => []MatchFeedLegal
<1>1. Telling => MatchFeedLegal
  <2>1. Telling => \A m \in MatchIDs : m \notin usedIDs => svc.matchFeed[m] = <<>>
    BY DEF Telling, Tales, TaleOf
  <2>. QED
    BY <2>1, MatchShown DEF MatchFeedLegal, Shown
<1>. QED
  BY <1>1, TellingAlways, PTL

\* AcceptMatchCompleted is Rejected only of a match a player has rejected, and of such
\* a match it is nothing else: decisions never leak from one proposal of a ticket to
\* the next.
THEOREM OutcomeFaithfulAlways == Spec => []OutcomeFaithful
<1>1. Telling => OutcomeFaithful
  BY MatchShown DEF OutcomeFaithful, Reported, Shown, Truthful
<1>. QED
  BY <1>1, TellingAlways, PTL

\* Every event of a match shows the teams of that match, also once the proposal has
\* failed, and MatchmakingSearching shows none of it.
THEOREM EventCarriesItsTeamsAlways == Spec => []EventCarriesItsTeams
<1>1. Telling => EventCarriesItsTeams
  <2>1. Telling => \A m \in MatchIDs : \A i \in DOMAIN svc.matchFeed[m] :
                     svc.matchFeed[m][i].teams = {m}
    BY MatchShown DEF Shown, Truthful
  <2>2. Telling => \A t \in svc.tickets : \A i \in DOMAIN svc.feed[t] :
                     svc.feed[t][i].type = "MatchmakingSearching" =>
                       svc.feed[t][i].teams = {IF svc.tk[t].isBackfill THEN "seats" ELSE "none"}
    BY DEF Telling, Lasting, Good, Told, Base
  <2>. QED
    BY <2>1, <2>2 DEF EventCarriesItsTeams
<1>. QED
  BY <1>1, TellingAlways, PTL
=============================================================================
