SPECIFICATION Spec
CONSTANTS
  w1 = w1
  w2 = w2
  s1 = s1
  s2 = s2
  s3 = s3
  Worker = {w1, w2}
  Sync = {s1, s2, s3}
  Empty = Empty
  NoBody = NoBody
  LeaderPCRs <- MCLeaderPCRs
  WorkerPCRs <- MCTwoWorkers
  LargeState <- MCNone
  MaxRev = 2
  FaultKinds = {"timeout", "loss", "initSync", "workerRestart", "leaderRestart"}
  MaxFaults = 2
SYMMETRY Symmetry
INVARIANTS TypeOK AcceptedFindsItsKey OneOpenSync InstallsFreshKeys KeysOnlyToIdenticalEnclaves 
PROPERTIES ImplementsKeyDistribution
CHECK_DEADLOCK FALSE
