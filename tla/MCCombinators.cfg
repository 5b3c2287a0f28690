SPECIFICATION EitherSpec
CONSTANTS
  NumPlain = 2
  MaxPromises = 3
  MaxPairs = 0
  MaxInputs = 0
  MaxCombs = 0
  MaxDepth = 5
  Handlers = {"none", "go"}
  Thenables = {}
  Combinators = {}
  Entries = {TRUE, FALSE}
  UseFinally = TRUE
  AllowInterrupt = TRUE
  AllowReentry = TRUE
INVARIANTS
  CombinatorsExact
  ControlKeeps
