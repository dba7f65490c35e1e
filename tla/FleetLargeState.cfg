SPECIFICATION FairSpec
CONSTANTS
  w1 = w1
  s1 = s1
  s2 = s2
  Worker = {w1}
  Sync = {s1, s2}
  Empty = Empty
  NoBody = NoBody
  NoHeartbeat = NoHeartbeat
  LeaderPCRs <- MCLeaderPCRs
  WorkerPCRs <- MCWorkerPCRs
  LargeState = {2}
  MaxRev = 2
  FaultKinds <- MCNone
  MaxFaults = 0
  MaxLoops = 1
  SlowSyncs = FALSE
PROPERTIES StaleKeysAreRepaired
CHECK_DEADLOCK FALSE
