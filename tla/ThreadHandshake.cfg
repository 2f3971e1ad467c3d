CONSTANTS
  engine = engine
  parser = parser
  app = app
  Handles = {engine, parser}
  Threads = {engine, parser, app}
  Setters <- OneMaster
SPECIFICATION FairSpec
INVARIANTS Parked
PROPERTIES EverySetReturns ExitIsReached GateSpec
CHECK_DEADLOCK FALSE
