SPECIFICATION FairSpec
CONSTANTS
    Tiles <- MCTiles
    Blank <- MCBlank
    Late <- MCLate
    Views <- MCViews
    Hosted <- MCHosted
    Scene <- MCScene
    Centre <- MCCentre
    Footprint <- MCFootprint
    Shape <- MCShape
    Radius = 1
    BatchSize = 2
    Budget = 1
    None = None
INVARIANTS IInv SceneIsolation SnapshotIsCurrent
PROPERTIES DecodedOnce ViewFills
