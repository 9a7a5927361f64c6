SPECIFICATION Spec
CONSTANTS
  Handler = {h1, h2}
  NULL = NULL
  Project = {p1, p2}
  User = {u1}
  InputStatus = {"", "done", "bogus"}
  Seeded = 1
  MaxTask = 2
  MaxSequence = 3
SYMMETRY HandlerSymmetry
INVARIANTS OpenTransactionsFit EventPerVersion SequenceFollowsVersion ReplayGivesTable AcknowledgedIsDurable
PROPERTIES VersionsCountWrites
