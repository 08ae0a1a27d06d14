SPECIFICATION FairSpec
CONSTANTS
  e1 = e1
  e2 = e2
  w1 = w1
  w2 = w2
  None = None
  Events <- MCEvents
  Handled <- MCHandled
  Workers <- MCWorkers
  MaximumAttempts = 2
  LeaseTimeout = 1
  RetryBaseDelay = 1
  BatchSize = 2
  MaxFaults = 2
INVARIANTS
  DuplicatesNeedFaults
  ExtraAttemptsNeedFaults
  ClaimIsCurrent
PROPERTIES
  OnlyHolderSettles
  ImplementsQueue
  EveryEventSettles
