\* The fatal assertion of scheduler_alloc stops the program; with every
\* message resolved and the wires empty nothing may be left to do.
SPECIFICATION AnySpec
CONSTANTS
  p1 = p1
  k1 = k1
  k2 = k2
  c1 = c1
  NoCb = NoCb
  NSlots = 3
  ByteWidth = 2
  Clients = {p1, k1, k2}
  CbClients = {k1, k2}
  MaxTicks = 1
  BleSlots = 2
  SeqMod = 3
  Fresh = 2
  BleRetry = 1
  PacketTicks = 1
  BleMsgs = 4
  Cmds = {c1}
  BikeStates = {"ride", "oadTransfer", "oadFailed", "shipping"}
  WireCap = 1
  MotorSlots = 2
  HandleMod = 3
  MotorRetry = 2
  BetweenTicks = 1
  BacklogLimit = 1
  MotorMsgs = 3
  IsrSends = TRUE
  MotorCmds = {c1}
INVARIANTS TypesOK  UniqueNames DoneIsTrue RecoveryEarned
PROPERTIES  Implements 
CHECK_DEADLOCK FALSE
