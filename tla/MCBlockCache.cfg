SPECIFICATION Spec
CONSTANTS
    Addrs = {1, 2, 3}
    p1 = p1
    p2 = p2
    Pages = {p1, p2}
    Values = {0, 1}
    Decode <- MCDecode
    OpenAddrs = {3}
    ResetPcs = {3}
    Slots = 3
    Blocks = {b1, b2, b3, b4}
    None = None
SYMMETRY Symmetry
INVARIANTS TypeOK LinksAreLive TablesAgree NoLoopInFirstView LinkerFindsBlock
PROPERTIES EntryIsFresh
