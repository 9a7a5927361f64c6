SPECIFICATION Spec
CONSTANTS
  Worker = {w1, w2}
  NULL = NULL
  MaxSequence = 2
  Poison = {}
  BatchSize = 2
  ClaimFor = 1
  MaxBackoff = 2
  MaxAttempts = 2
  MaxLog = 2
SYMMETRY WorkerSymmetry
INVARIANTS RelayInv LeaseExclusion DeadIffExhausted PublishedReachedTopic
PROPERTIES SettledRowsFrozen ImplementsFeed
