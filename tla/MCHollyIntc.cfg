SPECIFICATION HollySpec
CONSTANTS
    Irls = 2
    Count = 3
    Highest = 2
    IrlLevel <- MCIrlLevel
    Regs <- MCRegs
    Field <- MCField
    Timers = {2}
    Bits = {0}
    Naomi2 = TRUE
    Raisable = {"NRM", "ERR"}
INVARIANTS TypeOK PendIsExact TablesSorted IrlIsCurrent
PROPERTIES ImplementsIntc TakenIsDue
