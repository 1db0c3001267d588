SPECIFICATION LiveSpec
CONSTANTS
    Ctxs = {c1, c2}
    PoolMax = 1
    MaxList = 1
    MaxPresents = 1
    SliceOps = 2
    EmulateFramebuffer = FALSE
    DelayFrameSwapping = FALSE
    SkipFrame = TRUE
    AutoSkipFrame = 1
    Env = {"rollback"}
INVARIANTS NoRollbackDuringProcess
PROPERTIES CallsReturn
