SPECIFICATION Spec
CONSTANTS
    Channels = {c0}
    Timeslice = 3
    MainClock = 5
    Shift <- MCShift
    Costs = {1, 2, 3}
    Counts = {0, 1, 3, 6}
    FullCount = 6
    MaxLag = 2
    Period = 24
    None = None
PROPERTIES ImplementsTimer UnderflowIsTimely
