SPECIFICATION Spec
CONSTANTS
  Timers = {t1}
  Intervals = {i1}
  Immediates = {m1}
  Clients = {c1}
  NoJob = NoJob
  MaxAux = 1
  MaxBcast = 2
  AllowTerminate = TRUE
  AllowPanic = TRUE
INVARIANTS
  TypeOK
  JobsAccounted
  HandshakesKept
PROPERTIES
  ContractHolds
CHECK_DEADLOCK FALSE
