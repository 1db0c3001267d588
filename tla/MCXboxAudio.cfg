SPECIFICATION LiveSpec
CONSTANTS
    FrameBytes = 2
    BlockBytes = 4
    Cap = 10
    DsBytes = 8
    MaxTimeouts = 2
    Lag = 1
    MaxFails = 4
    JoinSteps = 10
    Blocks = {1}
INVARIANTS NoOverlap NoLostWakeup NoFeederLeft
PROPERTIES ImplementsQueue NoReplay PushReturns
