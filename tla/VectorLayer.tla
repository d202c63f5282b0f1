----------------------------- MODULE VectorLayer -----------------------------
(***************************************************************************)
(* The road and water layers of the local map.  A layer keeps one cache,   *)
(* stamped with the data generation it was read at and the bounds it       *)
(* covers; a frame that finds the stamp stale launches one background      *)
(* build, which reads the stored cells, takes each vertex's height from    *)
(* the terrain of that moment and publishes the result.                    *)
(*                                                                         *)
(* Generations and bounds are only ever compared with the present ones, so *)
(* current[k] keeps just who still bears a good stamp: "cache", "build" or *)
(* both.                                                                   *)
(***************************************************************************)
EXTENDS Integers, FiniteSets

CONSTANTS
    Cells,          \* one-degree cells inside the view
    Choices         \* BOUND: the scenes a behaviour may be about

MapLayers == {"roads", "water"}

ASSUME LayerAssumption ==
    \A s \in Choices : s.shown \subseteq MapLayers /\ s.local \in BOOLEAN /\ s.budget \in Nat

VARIABLES
    cache,      \* per layer: is there one, its cells, is its terrain still the one in use
    build,      \* per layer: the build in flight
    current,    \* per layer: whose generation, bounds and root are today's
    scene,      \* the layers switched on, whether the local map is up, what is asked
                \* for; BOUND budget: user moves and resets, failures and crashes together
    trouble     \* how much of that budget is used

layerVars == <<cache, build, current>>

\* Layers that are drawn; the globe shows none of them.
drawn == IF scene.local THEN scene.shown ELSE {}

NoCache == [held |-> FALSE, cells |-> {}, ground |-> FALSE]
NoBuild == [pc |-> "none", cells |-> {}, ground |-> FALSE, epoch |-> TRUE]

LayerInit ==
    /\ cache = [k \in MapLayers |-> NoCache]
    /\ build = [k \in MapLayers |-> NoBuild]
    /\ current = [k \in MapLayers |-> {}]
    /\ scene \in Choices
    /\ trouble = 0

Disturb == trouble < scene.budget /\ trouble' = trouble + 1

Stale(k) == ~cache[k].held \/ "cache" \notin current[k]

\* A frame: the stamp is taken now, before anything is read.
DrawRoads ==
    /\ "roads" \in drawn
    /\ Stale("roads") /\ build["roads"].pc = "none"
    /\ build' = [build EXCEPT !["roads"] = [NoBuild EXCEPT !.pc = "read"]]
    /\ current' = [current EXCEPT !["roads"] = @ \cup {"build"}]
    /\ UNCHANGED cache

DrawWater ==
    /\ "water" \in drawn
    /\ Stale("water") /\ build["water"].pc = "none"
    /\ build' = [build EXCEPT !["water"] = [NoBuild EXCEPT !.pc = "read"]]
    /\ current' = [current EXCEPT !["water"] = @ \cup {"build"}]
    /\ UNCHANGED cache

\* The worker reads the stored cells and samples the terrain under them.
ReadCells(k, stored) ==
    /\ build[k].pc = "read"
    /\ build' = [build EXCEPT ![k].pc = "publish", ![k].cells = stored, ![k].ground = TRUE]
    /\ UNCHANGED <<cache, current>>

Adopt(k) ==
    /\ cache' = [cache EXCEPT ![k] =
                    [held |-> TRUE, cells |-> build[k].cells, ground |-> build[k].ground]]
    /\ current' = [current EXCEPT ![k] = IF "build" \in @ THEN {"cache"} ELSE {}]

\* mutant: a build launched before the reset is adopted
EpochIgnored ==
    /\ "roads" \in drawn
    /\ build["roads"].pc = "publish"
    /\ Adopt("roads")
    /\ build' = [build EXCEPT !["roads"] = NoBuild]

\* Roads built before a reset are dropped, and the next frame builds again.
PublishRoads ==
    /\ "roads" \in drawn
    /\ build["roads"].pc = "publish"
    /\ IF build["roads"].epoch
       THEN Adopt("roads")
       ELSE current' = [current EXCEPT !["roads"] = @ \ {"build"}] /\ UNCHANGED cache
    /\ build' = [build EXCEPT !["roads"] = NoBuild]

\* Water knows no epoch.
PublishWater ==
    /\ "water" \in drawn
    /\ build["water"].pc = "publish"
    /\ Adopt("water")
    /\ build' = [build EXCEPT !["water"] = NoBuild]

\* A panic of the road worker is caught and reported; one of the water worker
\* leaves its mark set, and no other build starts.
BuildPanics(k) ==
    /\ build[k].pc = "read"
    /\ build' = [build EXCEPT ![k] = IF k = "roads" THEN NoBuild
                                     ELSE [NoBuild EXCEPT !.pc = "stuck"]]
    /\ current' = [current EXCEPT ![k] = @ \ {"build"}]
    /\ UNCHANGED cache

\* The view leaves the cached bounds, the bounds being built, or both.
ViewMoves(k) ==
    /\ Disturb
    /\ \E kept \in SUBSET current[k] : kept # current[k] /\ current' = [current EXCEPT ![k] = kept]
    /\ UNCHANGED <<cache, build>>

\* Water switched off.
HideWater ==
    /\ "water" \in drawn /\ cache["water"].held
    /\ Disturb
    /\ cache' = [cache EXCEPT !["water"] = NoCache]
    /\ current' = [current EXCEPT !["water"] = @ \ {"cache"}]
    /\ UNCHANGED build

\* The terrain changed: everything read from the old one is stale.
ResetTerrain ==
    /\ Disturb
    /\ cache' = [k \in MapLayers |-> NoCache]
    /\ current' = [k \in MapLayers |-> current[k] \ {"cache"}]
    /\ build' = [k \in MapLayers |->
                   IF build[k].pc = "none" THEN NoBuild
                   ELSE [build[k] EXCEPT !.ground = FALSE, !.epoch = (k # "roads")]]

\* A data generation counter moves on: no stamp is today's any more.
Bump(k) == current' = [x \in DOMAIN current |-> IF x = k THEN {} ELSE current[x]]

LayerTypeOK ==
    /\ cache \in [MapLayers -> [held : BOOLEAN, cells : SUBSET Cells, ground : BOOLEAN]]
    /\ build \in [MapLayers -> [pc : {"none", "read", "publish", "stuck"},
                                cells : SUBSET Cells, ground : BOOLEAN, epoch : BOOLEAN]]
    /\ current \in [MapLayers -> SUBSET {"cache", "build"}]
    /\ scene \in Choices /\ trouble \in 0..scene.budget

\* Roads drawn on the map stand on the terrain in use: a build that sampled the
\* old terrain is never published after the reset that replaced it.
RoadsOnCurrentGround ==
    "roads" \in drawn /\ cache["roads"].held => cache["roads"].ground

\* Its inductive form, for the build that waits to be published too.
RoadGround ==
    /\ cache["roads"].held => cache["roads"].ground
    /\ build["roads"].pc = "publish" /\ build["roads"].epoch => build["roads"].ground

\* The same of water, once nothing is in flight: "Dropping contours without
\* dropping these leaves the two disagreeing about where the ground is."
WaterOnCurrentGround ==
    "water" \in drawn /\ cache["water"].held /\ ~Stale("water") /\ build["water"].pc = "none"
        => cache["water"].ground

=============================================================================
