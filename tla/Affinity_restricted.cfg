\* A CPU set that leaves out a core of a thread.
CONSTANTS
  Processes = 2
  Threads = 2
  MaxCpu = 5
  SetSize = 6
SPECIFICATION AffinitySpec
INVARIANTS
  ThreadsOfChildApart
