SPECIFICATION FairQueueSpec
CONSTANTS
  Workers = {w1, w2}
  Master = master
  Checks = {c1, c2, c3}
  nBatchSize = 2
INVARIANTS
  ConstructorAssertion
PROPERTIES
  ImplementsVerifier
  WaitReturns
