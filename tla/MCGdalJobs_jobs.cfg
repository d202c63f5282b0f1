SPECIFICATION FairSpec
CONSTANTS
    l1 = l1
    l2 = l2
    g1 = g1
    g2 = g2
    depth = depth
    bathymetry = bathymetry
    moon = moon
    c1 = c1
    Moon = moon
    Threads = {l1, l2, g1}
    LunarThreads = {l1, l2}
    GebcoThreads = {g1}
    Layers = {depth}
    Chunks = {c1}
    ChunkOf <- OneChunk
    Choices <- MoonOrDepth
    FaultBudget = 2
INVARIANTS IInv ChildIsAccountable UndisturbedTilesSucceed HandedOutWhenComplete
PROPERTIES ShownTilesGetBuilt ShownAssetsArrive
