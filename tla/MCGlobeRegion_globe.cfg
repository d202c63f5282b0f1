SPECIFICATION FairSpec
CONSTANTS
    Ground <- MCGround
    Tiles <- MCTiles
    Blank <- MCBlank
    Core <- MCCore
    Halo <- MCHalo
    Views <- MCViews
    Scene <- MCScene
    Centre <- MCCentre
    Cells <- MCCells
    Footprint <- MCFootprint
    Shape <- MCShape
    Radius = 1
    Capacity = 1
    MaxTiles = 2
    Late <- MCLate
    Budget = 1
    None = None
INVARIANTS IInv SceneIsolation
PROPERTIES VisibleTerrainStays GlobeFills
