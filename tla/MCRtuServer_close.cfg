\* The other side of the port goes away.
CONSTANTS
  f3 = f3
  f16 = f16
  f5 = f5
  f6 = f6
  None = None
  Requests <- MCRequests
  Echoed <- MCEchoed
  Window = 1
  Split = FALSE
  MayClose = TRUE
SPECIFICATION FairSpec
PROPERTY ClosedThenDone
\* start() may fail, and the program then ends.
CHECK_DEADLOCK FALSE
