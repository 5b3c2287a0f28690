SPECIFICATION LiveSpec
CONSTANTS
  Timers = {t1}
  Intervals = {i1}
  Immediates = {}
  Clients = {c1}
  NoJob = NoJob
  MaxAux = 1
  MaxBcast = 1
  AllowTerminate = TRUE
  AllowPanic = FALSE
PROPERTIES
  ControlReturns
  WorkDelivered
  RunEnds
CHECK_DEADLOCK FALSE
