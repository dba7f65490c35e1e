SPECIFICATION FairSpec
CONSTANTS
  w1 = w1
  s1 = s1
  s2 = s2
  Worker = {w1}
  Sync = {s1, s2}
  Empty = Empty
  NoBody = NoBody
  NoHeartbeat = NoHeartbeat
  LeaderPCRs <- MCLeaderPCRs
  WorkerPCRs <- MCWorkerPCRs
  LargeState <- MCNone
  MaxRev = 2
  FaultKinds = {"loss"}
  MaxFaults = 1
  MaxLoops = 1
  SlowSyncs = FALSE
PROPERTIES StaleKeysAreRepaired
CHECK_DEADLOCK FALSE
