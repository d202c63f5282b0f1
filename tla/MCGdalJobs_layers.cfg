SPECIFICATION Spec
CONSTANTS
    l1 = l1
    l2 = l2
    g1 = g1
    g2 = g2
    depth = depth
    bathymetry = bathymetry
    moon = moon
    c1 = c1
    Moon = moon
    Threads = {g1, g2}
    LunarThreads = {}
    GebcoThreads = {g1, g2}
    Layers = {depth, bathymetry}
    Chunks = {c1}
    ChunkOf <- OneChunk
    Choices <- BothLayers
    FaultBudget = 0
INVARIANTS HandedOutWhenComplete
