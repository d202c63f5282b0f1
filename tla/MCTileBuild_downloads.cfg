SPECIFICATION Spec
CONSTANTS
    local = local
    globe = globe
    w1 = w1
    w2 = w2
    w3 = w3
    s1 = s1
    s2 = s2
    r1 = r1
    r2 = r2
    l1 = l1
    l2 = l2
    l3 = l3
    m1 = m1
    m2 = m2
    m3 = m3
    Window <- OverlapWindow
    Callers = {local, globe}
    Workers = {w1, w2}
    SrtmTiles = {}
    RemoteTiles = {r1, r2}
    LunarTiles = {}
    MarsTiles = {}
    SourcelessTiles = {}
    AbsentTiles = {r2}
    FlatTiles = {}
    CtxTiles = {}
    MolaTiles = FALSE
    MolaVrt = FALSE
    ProcLimit = 1
    DownLimit = 1
    StagingExtra = 1
    BodyCap = 1
    MaxTracked = 1
    FaultBudget = 1
    AllowPanic = TRUE
    BuildWindow <- OverlapWindow
SYMMETRY ThreadSymmetry
INVARIANTS PermitAccounting CommitIsAnnounced IInv
