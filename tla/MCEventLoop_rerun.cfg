SPECIFICATION FairSpec
CONSTANTS
  Timers = {t1}
  Intervals = {}
  Immediates = {}
  Clients = {}
  NoJob = NoJob
  MaxAux = 1
  MaxBcast = 1
  AllowTerminate = TRUE
  AllowPanic = FALSE
PROPERTIES
  RunReturns
CHECK_DEADLOCK FALSE
