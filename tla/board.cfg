SPECIFICATION ListSpec
CONSTANTS
  t1 = t1
  pA = pA
  Task = {t1}
  Project = {pA, pB}
  ProjectOf <- OnlyFirst
  MaxVersion = 2
  MaxLoads = 2
  MaxQueue = 1
  MaxConnects = 1
  NULL = NULL
CONSTRAINT NoRace
VIEW Relevant
INVARIANTS BoardInv OnlyKnownRaces BoardIsOneProject CountedOnceWhenLoaded
PROPERTIES EventsNeverRegress
