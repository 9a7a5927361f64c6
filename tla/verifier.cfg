SPECIFICATION FairSpec
CONSTANTS
  k2 = k2
  enc = enc
  api = api
  NULL = NULL
  Request = {r1, r2}
  Kid = {k1, k2, enc}
  Unusable = {enc}
  FirstKeys = {k1, enc}
  Audience = api
  Token <- SomeTokens
  Window = 1
  Timeout = 1
  MaxRevision = 3
INVARIANTS VerifierInv
PROPERTIES WithdrawnKeysEnd RefusedOnlyWhenOvertaken PublishedKeysWork
