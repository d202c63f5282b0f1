----------------------------- MODULE MCTileBuild -----------------------------
(* Instances of TileBuild for TLC. *)
EXTENDS TileBuild, TLC

CONSTANTS local, globe, w1, w2, w3, s1, s2, r1, r2, l1, l2, l3, m1, m2, m3

WholeWindow == [c \in Callers |-> Tiles]
\* The scenes overlap in one tile.
OverlapWindow == [c \in Callers |-> IF c = local THEN {r1} ELSE Tiles]
\* The globe and the local scene look at different tiles of one body.
SplitWindow == [c \in Callers |-> IF c = local THEN {m3} ELSE Tiles \ {m3}]

ThreadSymmetry == Permutations(Workers)
=============================================================================
