\* Events, units and orders are bounded: a machine may come to its end.
SPECIFICATION AnySpec
CONSTANTS
  ProtBits = {"over1", "mos"}
  MaxEvents = 2
  CellFaults = {"ovp1", "uvp2", "imb"}
  BankEvents = 3
  GaugeFields = 2
  LowRuns = 3
  FullReads = 2
  WarmTemps = 2
  Rests = {2, 4}
  MaxSum = 5
  GaugeCuts = 1
  NBlocks = 2
  TextCommands = {"Upgrade AP", "Upgrade BL", "Reset BMS"}
  PortUnits = 4
  PortFaults = 1
  LoaderSize = 2
  MaxCount = 3
  BusUnits = 3
  BusFaults = 1
INVARIANTS TypeOK FetsFollowState DataIsSound
PROPERTIES FailureHolds 
CHECK_DEADLOCK FALSE
