SPECIFICATION FairSpec
CONSTANTS
  Worker = {w1}
  NULL = NULL
  MaxSequence = 2
  Poison = {1}
  BatchSize = 1
  ClaimFor = 2
  MaxBackoff = 2
  MaxAttempts = 2
  MaxLog = 2
PROPERTIES EveryEventSettles
