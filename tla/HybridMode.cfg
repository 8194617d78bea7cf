\* Two children of two threads, in every sync mode and handed over either way.
CONSTANTS
  NumProcesses = 2
  ResultSize = 1
  PipeCapacity = 1
  NumThreads = 2
  NumTrials = 3
  NoThread = NoThread
SPECIFICATION FairSpec
INVARIANTS
  TypeOK
  NoThreadLeft
  ExactTotal
PROPERTIES
  ImplementsProcessMode
  Ends
