\* A request and a tick of one configuration compete for its only slot.
SPECIFICATION ServerFairSpec
CONSTANTS
  Producers = {r1, k1}
  Requests = {r1}
  Workers = {w1, w2}
  Lanes = {c1}
  Served = {c1}
  LaneOf <- OneLane
  Capacity = 1
  None = None
INVARIANTS
  CleanExit CutOffReported
PROPERTIES
  ProcessEnds StartedEnd
\* The process ends.
CHECK_DEADLOCK FALSE
