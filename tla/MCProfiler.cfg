SPECIFICATION FairSpec
CONSTANTS
  VMs = {v1}
  MaxTrackers = 2
  MaxSessions = 2
  MaxNest = 2
INVARIANTS
  SamplesWhole
  TrackersExact
PROPERTIES
  FinishedForgotten
  InterruptDelivered
