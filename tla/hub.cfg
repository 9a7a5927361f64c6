SPECIFICATION FairSpec
CONSTANTS
  p1 = p1
  Client = {c1}
  Project = {p1, p2}
  QueueSize = 2
  MaxRecords = 2
  MaxTopic = 3
  Corrupt <- SecondCorrupt
  MaxOwed = 1
  NULL = NULL
INVARIANTS HubInv NoSilentGap NoRecordSkipped
PROPERTIES CancelledClientsLeave ExpiredSessionsEnd EveryRecordBroadcast
