\* Requests that read one of two tickets, with and without acceptance.
SPECIFICATION DescribeSpec
CONSTANTS
  Tickets = {t1, t2}
  D = t1
  Players = {p1, p2}
  MatchIDs = {m1}
  NoMatch = NoMatch
  Sessions = {}
  NoSession = NoSession
  BackfillARNs = {}
  Rosters <- Pairs
  Times = {1}
  NoTime = 0
  CancelFinished = TRUE
  Policies = {TRUE, FALSE}
SYMMETRY Symmetry
INVARIANTS
  EndReportedWhole AnswerAfterEnd
