SPECIFICATION Spec
CONSTANTS
  Blocks = 2
  Depth = 2
  MaxErrors = 1
  Asks = 1
  Retries = 1
  Polls = 1
  MaxEvents = 1
INVARIANTS TypeOK ResultIsTrue
PROPERTY ComesToRest
