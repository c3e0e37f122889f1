CONSTANTS
  p1 = p1
  p2 = p2
  p3 = p3
  c1 = c1
  c2 = c2
  poller = poller
  Producers <- MCProducers
  Consumers <- MCConsumers
  Pollers <- MCPollers
  ItemsEach = 2
  Capacity = 2
SPECIFICATION FairSpec
INVARIANTS
  TypeOK
  StoppedMeansDrained
  NoLostWakeup
PROPERTIES
  ImplementsChannel
  ShutdownCompletes
