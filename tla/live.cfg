SPECIFICATION FairLiveSpec
CONSTANTS
  t1 = t1
  pA = pA
  Task = {t1}
  Project = {pA}
  ProjectOf <- OnlyOne
  MaxVersion = 2
  MaxLoads = 1
  MaxQueue = 1
  MaxConnects = 1
  MaxCopies = 1
  NULL = NULL
INVARIANTS OnlyDeadLettersLag
PROPERTIES ChangesReachBoard ReconnectsEventually StartConnects
CONSTRAINT RaceBeforeWrites
