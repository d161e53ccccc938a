\* Three requests of two configurations fight for two ids; one may supersede another.
SPECIFICATION Spec
CONSTANTS
  Commands = {p1, p2, p3}
  Configs = {c1, c2}
  IDs = {i1, i2}
  Nil = Nil
  Retention = 2
  Interval = 2
  MaxTime = 3
SYMMETRY Symmetry
INVARIANTS
  TypeOK TablesAgree NoOrphans OwnTicket EvictedOnTime
PROPERTIES
  KeptForRetention
