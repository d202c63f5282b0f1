SPECIFICATION FairSpec
CONSTANTS
    c1 = c1
    c2 = c2
    r1 = r1
    r2 = r2
    w1 = w1
    planet = planet
    Cells = {c1, c2}
    Choices <- Scenes
    Jobs = {r1, r2, w1, planet}
    WaterJobs = {w1}
    Planet = planet
    CellsOf <- FocusCells
    Askers = {"roads", "water", "ui"}
    MaxRows = 2
INVARIANTS IInv CompletedLeavesFiles RoadsOnCurrentGround
CHECK_DEADLOCK FALSE
PROPERTIES QueuedFocusRuns CompletedRoadsAreDrawn
