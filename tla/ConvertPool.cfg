CONSTANTS
  WorkNum = 3
  Align = 16
  Heights = {20, 100}
  MaxJobs = 2
SPECIFICATION FairSpec
INVARIANTS TypeOK PictureComplete NobodyStraggles SlicesApart
PROPERTIES ConvertReturns ExitReturns
CHECK_DEADLOCK FALSE
