CONSTANTS
  j1 = j1
  j2 = j2
  j3 = j3
  Job = {j1, j2, j3}
  KindOf <- MCKindOf
  Worker = {w1}
  Camps <- MCCamps
  Resource = {food}
  MaxRetries = 1
  NoJob = NoJob
SPECIFICATION FairSpec
INVARIANTS
  QueueInv
  InOnePlace
  RunsBounded
PROPERTIES
  EveryJobEnds
  ImplementsLifecycle
