\* Acceptance required, one match of two tickets.
SPECIFICATION Spec
CONSTANTS
  Tickets = {t1, t2}
  Players = {p1}
  MatchIDs = {m1}
  NoMatch = NoMatch
  Sessions = {}
  NoSession = NoSession
  BackfillARNs = {}
  Rosters <- Pairs
  Times = {1}
  NoTime = 0
  CancelFinished = FALSE
  Policies = {TRUE}
INVARIANT
  RejectionAnnounced
