SPECIFICATION FairSpec
CONSTANTS
    t1 = t1
    t2 = t2
    local = local
    base = base
    Tiles = {t1}
    Caches = {local, base}
    MaxNested = 3
    DamageBudget = 2
    None = None
INVARIANTS IInv
PROPERTIES DiscardSparesReadable StoreHeals
