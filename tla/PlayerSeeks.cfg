CONSTANTS
  MaxSeeks = 3
  StopWhenPreparing = FALSE
SPECIFICATION FairSpec
INVARIANTS TypeOK LastSeekWins NothingLeft
PROPERTIES StreamSpec BusyEnds CallReturns ReleaseEnds
CHECK_DEADLOCK FALSE
