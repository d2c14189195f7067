\* Events and acts are bounded, and the motor's loop stops at a failed assertion
\* and at a reboot.
SPECIFICATION AnySpec
CONSTANTS
  Blocks = 2
  PageBlocks = 2
  Depth = 2
  MaxErrors = 1
  Tries = 1
  Retries = 1
  MaxEvents = 1
  Messages = 2
  AuxTicks = 2
  DlTicks = 2
  CbTicks = 3
  ResetTicks = 2
  Chunks = 1
  Top = 3
  DriveLimit = 2
  StallLimit = 3
  SaveAfter = 1
  MaxActs = 1
INVARIANTS TypeOK ResultIsTrue 
PROPERTIES  ComesToRest
CHECK_DEADLOCK FALSE
