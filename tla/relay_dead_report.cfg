SPECIFICATION Spec
CONSTANTS
  Worker = {w1, w2}
  NULL = NULL
  MaxSequence = 1
  Poison = {}
  BatchSize = 2
  ClaimFor = 2
  MaxBackoff = 2
  MaxAttempts = 2
  MaxLog = 3
INVARIANTS DeadReportIsTrue
