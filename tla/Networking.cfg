SPECIFICATION FairSpec
CONSTANTS
  Base = 2
  Frame <- MCFrame
  MaxFrames = 2
  MaxFaults = 1
INVARIANTS TypeOK FramesIntact LeaksOnlyAfterStop
PROPERTIES ImplementsFrameLinks ForwardersEnd Reconnects StopReturns
CHECK_DEADLOCK FALSE
