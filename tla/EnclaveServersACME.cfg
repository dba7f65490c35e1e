SPECIFICATION FairSpec
CONSTANTS
  Configs <- const_ACME
  Request <- const_Request
  Hash <- const_Hash
  PCRs <- const_PCRs
  Bodies <- const_Bodies
  Zero = Zero
  MaxPosts = 2
  r1 = r1
  h1 = h1
  h2 = h2
PROPERTY ServersStayUp
CHECK_DEADLOCK FALSE
