\* Liveness under fair ticks and deadlines: two tickets, no symmetry.
SPECIFICATION FairSpec
CONSTANTS
  Tickets = {t1, t2}
  Players = {p1}
  MatchIDs = {m1, m2}
  NoMatch = NoMatch
  Sessions = {}
  NoSession = NoSession
  BackfillARNs = {}
  Rosters <- Pairs
  Times = {1, 2}
  NoTime = 0
  CancelFinished = TRUE
  Policies = {TRUE}
PROPERTIES
  ProposalSettles EndReachesService
