\* Backfill requests for one game session, tickets of two players.
SPECIFICATION Spec
CONSTANTS
  Tickets = {t1, t2, t3}
  Players = {p1, p2}
  MatchIDs = {m1}
  NoMatch = NoMatch
  Sessions = {s1}
  NoSession = NoSession
  BackfillARNs = {s1, NoSession}
  Rosters <- Pairs
  Times = {1}
  NoTime = 0
  CancelFinished = FALSE
  Policies = {TRUE}
SYMMETRY Symmetry
INVARIANTS
  EngineAgrees FeedLegal OneBackfillPerSession
