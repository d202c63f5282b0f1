------------------------------ MODULE MCGdalJobs -----------------------------
(* Instances of GdalJobs for TLC. *)
EXTENDS GdalJobs, TLC

CONSTANTS l1, l2, g1, g2, depth, bathymetry, moon, c1

OneChunk == [t \in LunarThreads |-> c1]
MoonOrDepth == {{moon}, {depth}}
BothLayers == {{depth, bathymetry}}
=============================================================================
