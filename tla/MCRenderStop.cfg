SPECIFICATION Spec
CONSTANTS
    Ctxs = {c1, c2}
    PoolMax = 1
    MaxList = 1
    MaxPresents = 0
    SliceOps = 2
    EmulateFramebuffer = FALSE
    DelayFrameSwapping = TRUE
    SkipFrame = TRUE
    AutoSkipFrame = 1
    Env = {"spurious", "overlap", "stop", "reset", "throw", "loadstate", "unload", "rollback"}
SYMMETRY Symmetry
INVARIANTS OneOwner SlotIsStable RenderMatchesSlot
