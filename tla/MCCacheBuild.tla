----------------------------- MODULE MCCacheBuild -----------------------------
(* Instances of CacheBuild for TLC. *)
EXTENDS CacheBuild, TLC

CONSTANTS w1, w2, w3, r1, r2, c1, c2

Refs == (w1 :> {1, 2}) @@ (w2 :> {2, 3}) @@ (w3 :> {1, 3})
Files == (w1 :> {c1, c2}) @@ (w2 :> {c1}) @@ (w3 :> {c2})
Members == (r1 :> {w1}) @@ (r2 :> {w2, w3})
Admin == (r1 :> 2) @@ (r2 :> 4)

Blob(nodes, ways, relations) == [nodes |-> nodes, ways |-> ways, relations |-> relations]
Ordered == <<Blob(<<1, 2>>, {}, {}), Blob(<<3>>, {w1, w2}, {}), Blob(<<>>, {w3}, {r1, r2})>>
Shuffled == <<Blob(<<3>>, {}, {}), Blob(<<1, 2>>, {w1, w2}, {}), Blob(<<>>, {w3}, {r1})>>

Ask(mode, layers, admin) == [mode |-> mode, layers |-> layers, admin |-> admin]
Scene(blobs, requests, newer, budget) ==
    [blobs |-> blobs, requests |-> requests, newer |-> newer, budget |-> budget]
Scenes == {
    Scene(Shuffled, {Ask("flat", Ways, TRUE)}, FALSE, 2),
    Scene(Shuffled, {Ask("flat", {w1, w3}, FALSE), Ask("flat", {w2, w3}, FALSE)}, FALSE, 1),
    Scene(Ordered, {Ask("compact", Ways, TRUE)}, TRUE, 2),
    Scene(Ordered, {Ask("compact", {w1}, FALSE), Ask("compact", {w2}, FALSE)}, FALSE, 1),
    Scene(Shuffled, {Ask("compact", {w1}, FALSE)}, FALSE, 0),
    Scene(Ordered, {Ask("compact", {w1}, TRUE), Ask("flat", {w2, w3}, FALSE)}, FALSE, 1),
    Scene(Ordered, {Ask("compact", {w1}, TRUE), Ask("import", {}, TRUE)}, TRUE, 1),
    Scene(Ordered, {Ask("import", {}, TRUE)}, TRUE, 1),
    Scene(Ordered, {Ask("import", {}, TRUE), Ask("bbox", {w2}, TRUE)}, FALSE, 1)}
Focused == {Scene(Ordered, {Ask("bbox", Ways, FALSE)}, FALSE, 1)}
=============================================================================
