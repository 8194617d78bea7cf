\* Three children that hand their Results over, either way.
CONSTANTS
  NumProcesses = 3
  ResultSize = 2
  PipeCapacity = 2
SPECIFICATION FairSpec
INVARIANTS
  TypeOK
  AllReaped
  ReadsDoNotBlock
  DescriptorsRestored
PROPERTIES
  ImplementsRun
  Ends
