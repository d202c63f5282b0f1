SPECIFICATION FairSpec
CONSTANTS
    w1 = w1
    w2 = w2
    w3 = w3
    r1 = r1
    r2 = r2
    c1 = c1
    c2 = c2
    Ways = {w1, w2, w3}
    Relations = {r1, r2}
    Cells = {c1, c2}
    Levels = {2, 4}
    RefsOf <- Refs
    CellsOf <- Files
    MembersOf <- Members
    LevelOf <- Admin
    Bounds = {2, 3}
    Cases <- Scenes
INVARIANTS IInv NodesHold DoneIsWhole
PROPERTIES WholeRegionsStay BuildsFinish
