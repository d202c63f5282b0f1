----------------------------- MODULE MCRasterBuild -----------------------------
(* Instances of RasterBuild for TLC. *)
EXTENDS RasterBuild, TLC

CONSTANTS e1, e2, e3, l1, l2, m1, m2, c1, c2

\* l1 lies at the edge of its chunk: some of its points are nearer to the next one.
Centre == (l1 :> c1) @@ (l2 :> c2)
Points == (l1 :> {c1, c2}) @@ (l2 :> {c2})

Job(engine_, region) == [engine |-> engine_, region |-> region]
Scene(requests, old, labels, budget) ==
    [requests |-> requests, old |-> old, labels |-> labels, budget |-> budget]
Scenes == {
    Scene({Job("native", EarthTiles)}, FALSE, FALSE, 2),
    Scene({Job("gdal", EarthTiles)}, FALSE, FALSE, 2),
    Scene({Job("gdal", {e1, e2}), Job("gpu", {e2, e3})}, FALSE, FALSE, 1),
    Scene({Job("gpu", EarthTiles)}, FALSE, FALSE, 1),
    Scene({Job("native", {e1}), Job("gpu", {e1})}, TRUE, FALSE, 1),
    Scene({Job("lunar", LunarTiles)}, FALSE, FALSE, 2),
    Scene({Job("lunar", {l1}), Job("mars", MarsTiles)}, FALSE, FALSE, 1),
    Scene({Job("mars", MarsTiles)}, FALSE, TRUE, 2)}
=============================================================================
