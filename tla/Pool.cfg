SPECIFICATION FairSpec
CONSTANTS
  NbFiles = 4
  Workers = 3
  MayFail = {2, 4}
  MayPanic = {3}
  MayRefuse = TRUE
CHECK_DEADLOCK FALSE
INVARIANT TypeOK
INVARIANT EachFileOnce
INVARIANT ExitZeroMeansAllDone
PROPERTY Exits
