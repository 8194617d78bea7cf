\* Every mode, number of cores and set of usable cores.
CONSTANTS
  Processes = 2
  Threads = 3
  MaxCpu = 5
  SetSize = 6
SPECIFICATION AffinitySpec
INVARIANTS
  Spread
