\* Two publishers of one configuration.
CONSTANTS
  Documents <- TwoTargets
  ConfigurationNames = {"x", "y"}
  Batches <- SmallBatches
  MaxAttempts = 3
SPECIFICATION FairSpec
INVARIANT ForwardedToEveryChild
\* A batch ends.
CHECK_DEADLOCK FALSE
