SPECIFICATION LiveSpec
CONSTANTS
    Ctxs = {c1, c2}
    PoolMax = 1
    MaxList = 1
    MaxPresents = 0
    SliceOps = 2
    EmulateFramebuffer = FALSE
    DelayFrameSwapping = FALSE
    SkipFrame = FALSE
    AutoSkipFrame = 0
    Env = {"stop"}
PROPERTIES LockedUntilRendered
