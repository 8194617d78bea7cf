\* Batches of two trials anywhere among 64, each of 50 steps.
CONSTANTS
  Modulus = 64
  SeedFactor = 49
  LcgFactor = 13
  LcgTerm = 31
  Trials = 64
  TimeSteps = 50
  BatchSize = 2
  BaseSeeds = {0, 42}
  ExclusiveOr <- MCExclusiveOr
SPECIFICATION Spec
INVARIANTS
  BatchResult
  SeedsDistinct
PROPERTIES
  NoReverse
