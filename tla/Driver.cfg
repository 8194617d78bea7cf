\* Every command line of up to two options.
CONSTANTS
  IntMax = 16383
  UintMax = 32767
  LongMax = 1073741823
  Numbers <- MCNumbers
  Junk = Junk
  MaxArgs = 2
  Timings <- MCTimings
SPECIFICATION Spec
INVARIANTS
  RowEchoesCommandLine
  StatusTellsOutcome
  ValidRowsAgree
  RatiosInRange
