SPECIFICATION Spec
CONSTANTS
  Configs <- const_Worker
  Request <- const_Request
  Hash <- const_Hash
  PCRs <- const_PCRs
  Bodies <- const_Bodies
  Zero = Zero
  MaxPosts = 2
  r1 = r1
  h1 = h1
  h2 = h2
INVARIANT DocumentsBindCertificate
CHECK_DEADLOCK FALSE
