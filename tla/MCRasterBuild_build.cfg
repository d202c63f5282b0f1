SPECIFICATION FairSpec
CONSTANTS
    e1 = e1
    e2 = e2
    e3 = e3
    l1 = l1
    l2 = l2
    m1 = m1
    m2 = m2
    c1 = c1
    c2 = c2
    Workers = {"w1", "w2"}
    EarthTiles = {e1, e2, e3}
    LunarTiles = {l1, l2}
    MarsTiles = {m1, m2}
    Chunks = {c1, c2}
    CentreChunk <- Centre
    SampledChunks <- Points
    CtxTiles = {m1}
    FlatTiles = {m1}
    GpuTiles = {e1, e3}
    Cases <- Scenes
INVARIANTS IInv ReportsAreTrue FailuresAreNotStored
PROPERTIES RegionFills
