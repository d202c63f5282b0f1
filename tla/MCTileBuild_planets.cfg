SPECIFICATION Spec
CONSTANTS
    local = local
    globe = globe
    w1 = w1
    w2 = w2
    w3 = w3
    s1 = s1
    s2 = s2
    r1 = r1
    r2 = r2
    l1 = l1
    l2 = l2
    l3 = l3
    m1 = m1
    m2 = m2
    m3 = m3
    Window <- SplitWindow
    Callers = {local, globe}
    Workers = {w1, w2, w3}
    SrtmTiles = {}
    RemoteTiles = {}
    LunarTiles = {}
    MarsTiles = {m1, m2, m3}
    SourcelessTiles = {}
    AbsentTiles = {}
    FlatTiles = {}
    CtxTiles = {m2, m3}
    MolaTiles = TRUE
    MolaVrt = FALSE
    ProcLimit = 3
    DownLimit = 1
    StagingExtra = 1
    BodyCap = 1
    MaxTracked = 1
    FaultBudget = 0
    AllowPanic = FALSE
    BuildWindow <- SplitWindow
SYMMETRY ThreadSymmetry
INVARIANTS CapNearlyHolds
