SPECIFICATION Spec
CONSTANTS
    Word = 12
    Timeslice = 2
    MainClock = 2
    MaxSlots = 2
    Delays = {1, 2}
    SaveAt = {10}
INVARIANTS TypeOK NoEventLost
PROPERTIES JitterIsLateness RequestIsKept
