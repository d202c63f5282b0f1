---------------------------- MODULE MCTileRecovery ----------------------------
(* Instances of TileRecovery for TLC. *)
EXTENDS TileRecovery, TLC

CONSTANTS t1, t2, local, base

CacheSymmetry == Permutations(Caches)
TileSymmetry == Permutations(Tiles)
=============================================================================
