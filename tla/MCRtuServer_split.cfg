\* A request may arrive in two portions.
CONSTANTS
  f3 = f3
  f16 = f16
  f5 = f5
  f6 = f6
  None = None
  Requests <- MCRequests
  Echoed <- MCEchoed
  Window = 1
  Split = TRUE
  MayClose = FALSE
SPECIFICATION FairSpec
PROPERTY Answered
\* start() may fail, and the program then ends.
CHECK_DEADLOCK FALSE
