\* Every accepted number of trials and batch size.
CONSTANTS
  IntRange = 16
  LongRange = 128
SPECIFICATION PlanSpec
CHECK_DEADLOCK FALSE
INVARIANTS
  BatchesConsecutive
  EnoughBatches
