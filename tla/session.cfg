SPECIFICATION FairSpec
CONSTANTS
  Life = 3
  Margin = 1
  MaxCalls = 2
  MaxStale = 1
  MaxMail = 2
  NULL = NULL
INVARIANTS SessionInv
PROPERTIES StaleSocketsEnd ReconnectsOrLeaves
