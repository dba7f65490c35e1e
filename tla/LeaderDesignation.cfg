SPECIFICATION FairSpec
CONSTANTS
  e1 = e1
  e2 = e2
  e3 = e3
  Enclave = {e1, e2, e3}
  Leader = e1
  MaxFaults = 2
INVARIANTS TypeOK LeaderIsDNSTarget WorkersCanRegister PutsFindEventLoop
PROPERTIES EveryoneDecides
CHECK_DEADLOCK FALSE
