SPECIFICATION LiveSpec
CONSTANTS
    Ctxs = {c1, c2}
    PoolMax = 0
    MaxList = 1
    MaxPresents = 0
    SliceOps = 1
    EmulateFramebuffer = FALSE
    DelayFrameSwapping = TRUE
    SkipFrame = FALSE
    AutoSkipFrame = 0
    Env = {"stop", "reset", "throw", "unload"}
PROPERTIES StopReturns CallsReturn FramesAreRendered
