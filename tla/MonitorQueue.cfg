\* Two producers, two consumers and two closers on a ring of two slots.
CONSTANTS
  Producers = {p1, p2}
  Consumers = {c1, c2}
  Closers = {k1, k2}
  Capacity = 2
  Load = 2
  MaxSpurious = 1
  NoThread = NoThread
  NoItem = NoItem
SPECIFICATION FairSpec
INVARIANTS
  TypeOK
  OneInside
  NoSleeperAfterClose
  DrainIsFinal
  EnoughWakeups
PROPERTIES
  ImplementsChannel
  EveryCallReturns
