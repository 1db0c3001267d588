SPECIFICATION LiveSpec
CONSTANTS
    t1 = t1
    t2 = t2
    t3 = t3
    None = None
    Pages = {1, 2}
    Values = {0, 1}
    Textures = {t1, t2, t3}
    Span <- MCSpan
    Invalid = {t3}
    Paletted = {t1}
    Age = 0
    MaxDrawn = 2
    CleanupMax = 2
    Threaded = FALSE
    CleanupFirst = FALSE
    MirrorsMapped = FALSE
PROPERTIES StoreCompletes
