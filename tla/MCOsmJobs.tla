------------------------------ MODULE MCOsmJobs ------------------------------
(* Instances of OsmJobs for TLC. *)
EXTENDS OsmJobs, TLC

CONSTANTS c1, c2, r1, r2, w1, planet

FocusCells == (r1 :> {c1}) @@ (r2 :> {c1, c2}) @@ (w1 :> {c1, c2}) @@ (planet :> Cells)

Scene(layers, local, jobs, budget) ==
    [shown |-> layers, local |-> local, jobs |-> jobs, budget |-> budget]
Scenes == {Scene({"roads"}, TRUE, {r2}, 1), Scene({"water"}, TRUE, {r2, w1}, 1),
           Scene({"water"}, FALSE, {r1, r2}, 2), Scene({"roads"}, FALSE, {r2, planet}, 1)}
=============================================================================
