SPECIFICATION FairSpec
CONSTANTS
  w1 = w1
  s1 = s1
  s2 = s2
  Worker = {w1}
  Sync = {s1, s2}
  Empty = Empty
  NoBody = NoBody
  NoHeartbeat = NoHeartbeat
  LeaderPCRs <- MCLeaderPCRs
  WorkerPCRs <- MCWorkerPCRs
  LargeState <- MCNone
  MaxRev = 2
  FaultKinds = {"timeout", "loss", "initSync", "workerRestart", "leaderRestart"}
  MaxFaults = 1
  MaxLoops = 1
  SlowSyncs = FALSE
INVARIANTS FleetTypeOK  HeartbeatsFollowSync
 
CHECK_DEADLOCK FALSE
