SPECIFICATION Spec
CONSTANTS
  t1 = t1
  pA = pA
  Task = {t1}
  Project = {pA}
  ProjectOf <- OnlyOne
  MaxVersion = 2
  MaxLoads = 2
  MaxQueue = 1
  MaxConnects = 1
  NULL = NULL
INVARIANTS ReloadClosesGap
