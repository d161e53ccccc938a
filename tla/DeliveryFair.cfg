\* Liveness with fair goroutines: two configurations, and the publisher of the
\* first one never answers.
SPECIFICATION FairSpec
CONSTANTS
  Producers = {p1, p2}
  Workers = {w1, w2}
  Lanes = {1, 2}
  Served = {2}
  LaneOf <- TwoLanes
  Capacity = 1
  None = None
PROPERTIES
  KeepsFairPromise CommandReturns
