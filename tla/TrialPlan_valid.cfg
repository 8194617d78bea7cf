\* The number of batches is converted to int.
CONSTANTS
  IntRange = 16
  LongRange = 128
SPECIFICATION PlanSpec
CHECK_DEADLOCK FALSE
INVARIANTS
  EveryTrialBatched
