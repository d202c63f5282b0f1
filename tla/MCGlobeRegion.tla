---------------------------- MODULE MCGlobeRegion -----------------------------
(* An instance of GlobeRegion for TLC: two overlapping windows of a fine     *)
(* tier, the coarse tier of the same ground, and the same fine window under  *)
(* another data root.  A tile more than Capacity is on screen in the west.   *)
(* DriftViews has a second view of the coarse tier instead of the others.    *)
EXTENDS GlobeRegion

Tile(r, n, p) == [scene |-> [root |-> r, tier |-> n], place |-> p]
Fine(p) == Tile("old", 1, p)
MCGround == 0 .. 2
MCTiles == {Fine(0), Fine(1), Fine(2), Tile("old", 0, 0), Tile("new", 1, 0)}
MCBlank == {Fine(2)}
MCLate == {Fine(1)}
MCCore == [t \in MCTiles |-> IF t.scene.tier = 0 THEN MCGround ELSE {t.place}]
MCHalo == [t \in MCTiles |-> IF t = Fine(0) THEN {0, 1} ELSE MCCore[t]]
MCViews == {"west", "east", "wide", "new"}
\* Both coarse views have the same cells, and not the same fine tiles, on screen.
DriftViews == {"west", "aside", "wide"}
AllViews == MCViews \cup DriftViews
MCScene == [v \in AllViews |-> [root |-> IF v = "new" THEN "new" ELSE "old",
                               tier |-> IF v \in {"wide", "aside"} THEN 0 ELSE 1]]
MCCentre == [v \in AllViews |-> IF v = "east" THEN 2 ELSE 0]
Seen == [v \in AllViews |-> IF v \in {"east", "aside"} THEN {1, 2} ELSE {0, 1}]
OfScene(v) == {t \in MCTiles : t.scene = MCScene[v]}
MCCells == [v \in AllViews |-> {t \in OfScene(v) : MCCore[t] \cap Seen[v] # {}}]
MCShape == [v \in AllViews |-> {t \in MCTiles : MCCore[t] \cap Seen[v] # {}}]
MCFootprint == [v \in AllViews |-> MCShape[v] \cup {Fine(0), Fine(2)}]
=============================================================================
