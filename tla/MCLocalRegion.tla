---------------------------- MODULE MCLocalRegion -----------------------------
(* An instance of LocalRegion for TLC: two overlapping windows of one scene, *)
(* a deeper zoom of the same ground, and a view drawn from another cache.    *)
EXTENDS LocalRegion

Tile(s, p) == [scene |-> s, place |-> p]
MCTiles == {Tile("wide", 0), Tile("wide", 1), Tile("wide", 2), Tile("deep", 1)}
MCBlank == {Tile("wide", 2)}
MCLate == {Tile("wide", 1)}
MCViews == {"west", "east", "deep", "other"}
MCHosted == MCViews \ {"other"}
MCScene == [v \in MCHosted |-> IF v = "deep" THEN "deep" ELSE "wide"]
MCCentre == [v \in MCHosted |-> CASE v = "west" -> 0 [] v = "east" -> 2 [] v = "deep" -> 1]
MCFootprint == [v \in MCViews |->
    CASE v = "west" -> {t \in MCTiles : t.place <= 1}
      [] v = "east" -> {t \in MCTiles : t.place >= 1}
      [] v = "deep" -> {t \in MCTiles : t.place = 1}
      [] v = "other" -> {t \in MCTiles : t.place = 0}]
MCShape == [v \in MCViews |->
    IF v = "east" THEN {Tile("wide", 2), Tile("deep", 1)} ELSE MCFootprint[v]]
=============================================================================
