\* Three tickets, matches of two, with and without acceptance.
SPECIFICATION Spec
CONSTANTS
  Tickets = {t1, t2, t3}
  Players = {p1}
  MatchIDs = {m1, m2}
  NoMatch = NoMatch
  Sessions = {}
  NoSession = NoSession
  BackfillARNs = {}
  Rosters <- Pairs
  Times = {1}
  NoTime = 0
  CancelFinished = TRUE
  Policies = {TRUE, FALSE}
SYMMETRY Symmetry
INVARIANTS
  TypeOK EngineAgrees ProposalsTracked TickNeverFails
  MatchFeedLegal OutcomeFaithful CleanSlate EventCarriesItsTeams
PROPERTIES
  TerminalIsFinal StopWins
