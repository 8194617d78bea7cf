\* Three workers share four batches over queues of two, in both merge modes.
CONSTANTS
  NumWorkers = 3
  NumBatches = 4
  QueueSize = 2
  Aggregator = aggregator
  NoBatch = NoBatch
SPECIFICATION FairSpec
INVARIANTS
  TypeOK
  EachBatchOnce
  SingleWriter
  NothingDestroyedInUse
  CountersAgree
PROPERTIES
  ImplementsRun
  EndsUnlessUnfed
\* The system really may stop: see Unfed.
CHECK_DEADLOCK FALSE
