SPECIFICATION Spec
CONSTANTS
    ProtBits = {"over1", "under2"}
    MaxEvents = 2
INVARIANT FuseIsEarned
CHECK_DEADLOCK FALSE
