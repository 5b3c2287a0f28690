SPECIFICATION CoreSpec
CONSTANTS
  NumPlain = 1
  MaxPromises = 3
  MaxPairs = 2
  MaxInputs = 0
  MaxCombs = 0
  MaxDepth = 3
  Handlers = {"js"}
  Thenables = {"thenable", "trap"}
  Combinators = {}
  Entries = {TRUE}
  UseFinally = FALSE
  AllowInterrupt = FALSE
  AllowReentry = FALSE
INVARIANTS
  Decided
  RejectionsTracked
PROPERTIES
  SettledForever
  JobsInOrder
