\* Up to three publishers of one or two configurations, with and without onlyEvents.
CONSTANTS
  Documents <- Files
  ConfigurationNames = {"x", "y"}
  Batches <- SmallBatches
  MaxAttempts = 3
SPECIFICATION FairSpec
INVARIANTS SentInOrder SilenceMeansDelivered
PROPERTIES FailureIsolated BatchEnds
\* A batch ends.
CHECK_DEADLOCK FALSE
