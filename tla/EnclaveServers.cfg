SPECIFICATION FairSpec
CONSTANTS
  Configs <- const_All
  Request <- const_Request
  Hash <- const_Hash
  PCRs <- const_PCRs
  Bodies <- const_Bodies
  Zero = Zero
  MaxPosts = 2
  r1 = r1
  h1 = h1
  h2 = h2
INVARIANTS TypeOK DocumentsCarryAppHash  LimitIsExact DocumentsBindOwnCertificate
PROPERTY SelfSignedServersStayUp
CHECK_DEADLOCK FALSE
