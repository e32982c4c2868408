SPECIFICATION FairSpec
CONSTANTS
  a = a
  b = b
  c = c
  d = d
  Masters <- MCMasters
  Addr <- MCAddr
  LockMax <- MCLockMax
  Platform <- MCPlatform
  Payload <- MCPayload
  Foreign <- MCForeign
  Lossy = TRUE
INVARIANTS TypeOK MutualExclusion LockRespected RetryRound
PROPERTIES SecondRoundDecides MessageLeaves EveryContentionEnds
