SPECIFICATION FairSpec
CONSTANTS
  w1 = w1
  h1 = h1
  h2 = h2
  r1 = r1
  Worker = {w1}
  Handler = {h1, h2}
  Routine = {r1}
  Never = Never
  timeout = 2
  MaxTime = 5
INVARIANTS TypeOK ReplyIsAwaited NoStaleWorkers
PROPERTIES ImplementsWorkerSet CallsReturn StopReturnsUnlessHandlerLeft
CHECK_DEADLOCK FALSE
