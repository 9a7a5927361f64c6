SPECIFICATION FairSpec
CONSTANTS
  TeamCount = 1
  WorkforceSize = 1
  MaxProjects = 2
  InputSpeed = {0, 4}
  InputStatus = {"done"}
  MaxSession = 2
  MaxTask = 2
  MaxMade = 3
  MaxLate = 1
  NULL = NULL
INVARIANTS EngineInv DriftIsCounted OwnTasksOnly ProjectLimits
PROPERTIES StopsWhenTold
