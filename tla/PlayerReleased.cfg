CONSTANTS
  MaxSeeks = 1
  StopWhenPreparing = TRUE
SPECIFICATION Spec
INVARIANTS NothingLeft
CHECK_DEADLOCK FALSE
