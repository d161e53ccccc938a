\* Three commands of one configuration compete for two slots.
SPECIFICATION Spec
CONSTANTS
  Producers = {p1, p2, p3}
  Workers = {w1, w2, w3}
  Lanes = {c1}
  Served = {c1}
  LaneOf <- OneLane
  Capacity = 2
  None = None
SYMMETRY Symmetry
INVARIANTS
  TypeOK OneWorker InGenerationOrder NoStrandedBatch SlotAccounting DrainSound
  CleanCloseDrains
