----------------------------- MODULE GlobeRegion ------------------------------
(***************************************************************************)
(* A GlobeRegionCache of contour_asset.rs: the contour tiles of the globe  *)
(* of one body.  Each repaint sets the viewport, asks for a selection of   *)
(* the tile manifest, claims what is missing for a reader, evicts what no  *)
(* longer fits, and has the picture composed anew when the tiles changed.  *)
(* Manifest, reader and composing workers outlive scenes and resets; each  *)
(* action below is one critical section under the cache's lock.            *)
(*                                                                         *)
(* Earth's globe streams its tiles, keeps off-screen ones in a byte budget *)
(* and composes a partition of the ground; the Moon's and Mars' read whole *)
(* batches, keep the nearest tiles and flatten all of them.  Both have the *)
(* same record and the same order of steps, so `body` picks the variant.   *)
(*                                                                         *)
(* The ground is a set of points.  A tile owns the points of its core, and *)
(* reaches over the points of its halo; a tile costs one unit of memory.   *)
(***************************************************************************)
EXTENDS Integers, FiniteSets

CONSTANTS
    Ground,         \* points of the globe
    Tiles,          \* records [scene, place]; a scene is a record [root, tier]
    Blank,          \* tiles without a contour
    Core, Halo,     \* the points a tile owns, and those its geometry reaches
    Views,          \* camera positions
    Scene, Centre,  \* data root and tier of a view, and the centre of its window
    Cells,          \* tiles of the view's tier whose cores are on screen
    Footprint,      \* tiles whose nominal footprint is
    Shape,          \* tiles whose decoded bounds are
    Radius,         \* the manifest radius
    Capacity,       \* cpu_budget and gpu_budget, in tiles
    MaxTiles,       \* MAX_TILES of the Moon and Mars
    Late,           \* BOUND: tiles a build may commit during a behaviour
    Budget,         \* BOUND: moves, departures, resets and faults in a behaviour
    None

ASSUME GlobeAssumption ==
    /\ Blank \cup Late \subseteq Tiles
    /\ \A t \in Tiles : Core[t] \subseteq Halo[t] /\ Halo[t] \subseteq Ground
    /\ \A t, u \in Tiles : t # u /\ t.scene = u.scene => Core[t] \cap Core[u] = {}
    /\ \A v \in Views : Shape[v] \subseteq Footprint[v] /\ Cells[v] \subseteq Shape[v]
    /\ {Radius, Capacity, MaxTiles, Budget} \subseteq Nat

\* None is no value of what is optional.
ASSUME NoneAssumption ==
    /\ None \notin Views /\ None \notin Nat
    /\ \A t \in Tiles : t.scene # None
    /\ \A v \in Views : Scene[v] # None

VARIABLES
    body,               \* "Earth", or "Moon" for the Moon and Mars
    camera,             \* the view on screen, None in local mode or on another body
    step,               \* the next critical section of the repaint
    offered,            \* the frame's selection
    viewport, aim, bounds, costs, fallbackCost,     \* Residency; `aim` is the view that
                        \* configure last saw, for its window and cells
    scene, loadEpoch,
    tiles, inFlight, loadInFlight, retryAt,
    picture, fallback,  \* what each point is drawn from: a set of tiles
    composed,           \* merged_revision = Some(tiles_revision)
    mergeInFlight,
    snapshot, requestedKey, busy, manifestEpoch,    \* globe_manifest::State
    selectors, readers, mergers,                    \* worker threads
    ready, revision,    \* committed tiles, and the global manifest revision
    spent               \* how much of Budget is used

painting == <<body, camera, step, offered>>
residency == <<viewport, aim, bounds, costs, fallbackCost>>
place == <<scene, loadEpoch>>
reading == <<inFlight, loadInFlight, retryAt>>
drawing == <<picture, fallback, composed, mergeInFlight>>
manifest == <<snapshot, requestedKey, busy, manifestEpoch>>
store == <<ready, revision>>
vars == <<painting, residency, place, tiles, reading, drawing, manifest,
          selectors, readers, mergers, store, spent>>

Nothing == [g \in Ground |-> {}]
Drawn(p) == {g \in Ground : p[g] \ Blank # {}}
TilesOf(p) == (UNION {p[g] : g \in Ground}) \ Blank
KeyOf(v) == [scene |-> Scene[v], centre |-> Centre[v]]
Distance(t, centre) == IF t.place >= centre THEN t.place - centre ELSE centre - t.place
Selection(key) == {t \in ready : t.scene = key.scene /\ Distance(t, key.centre) <= Radius}

\* Residency::wanted.  The Moon's residency is never configured, so it wants every tile.
Wanted(t, view, known) ==
    \/ body # "Earth" \/ view = None
    \/ t \in (IF t \in known THEN Shape[view] ELSE Footprint[view])

Spend == spent < Budget /\ spent' = spent + 1

Init ==
    /\ body \in {"Earth", "Moon"}
    /\ camera = None /\ step = "viewport" /\ offered = {}
    /\ viewport = None /\ aim = None /\ bounds = {} /\ costs = {} /\ fallbackCost = 0
    /\ scene = None /\ loadEpoch = 0
    /\ tiles = {} /\ inFlight = {} /\ loadInFlight = None /\ retryAt = FALSE
    /\ picture = Nothing /\ fallback = Nothing /\ composed = FALSE /\ mergeInFlight = None
    /\ snapshot = None /\ requestedKey = None /\ busy = FALSE /\ manifestEpoch = 0
    /\ selectors = {} /\ readers = {} /\ mergers = {}
    /\ ready = Tiles \ Late /\ revision = 0 /\ spent = 0

\* mark_tiles_changed.  Of tiles_revision a worker only asks whether it has moved.
SetTiles(kept) ==
    /\ tiles' = kept
    /\ IF kept = tiles
       THEN UNCHANGED <<composed, mergers>>
       ELSE composed' = FALSE /\ mergers' = {[m EXCEPT !.fresh = FALSE] : m \in mergers}

\* GlobeRegionCache::reset_all, leaving `loading` as the reader's marker.
ResetTo(loading) ==
    /\ tiles' = {} /\ inFlight' = {} /\ retryAt' = FALSE /\ loadEpoch' = loadEpoch + 1
    /\ mergers' = {[m EXCEPT !.fresh = FALSE] : m \in mergers}
    /\ aim' = None /\ bounds' = {} /\ costs' = {} /\ fallbackCost' = 0 /\ composed' = FALSE
    /\ scene' = None /\ picture' = Nothing /\ fallback' = Nothing
    /\ snapshot' = None /\ requestedKey' = None /\ manifestEpoch' = manifestEpoch + 1
    /\ loadInFlight' = loading
    /\ UNCHANGED <<mergeInFlight, busy, selectors, readers, store>>

ResetAll_ForgetsReader == ResetTo(None)   \* mutant: the reader is forgotten
\* All single-flight markers stay with their workers.
ResetAll == ResetTo(loadInFlight)

-----------------------------------------------------------------------------
(* The repaint.                                                            *)

\* set_viewport for the body of this cache.
SetViewport(v) ==
    /\ step = "viewport" /\ step' = "manifest"
    /\ camera' = v /\ viewport' = v
    /\ UNCHANGED <<body, offered, aim, bounds, costs, fallbackCost, place, tiles, reading,
                   drawing, manifest, selectors, readers, mergers, store>>

Repaint == camera # None /\ SetViewport(camera) /\ UNCHANGED spent
Move(v) == v # camera /\ SetViewport(v) /\ IF camera = None THEN UNCHANGED spent ELSE Spend

\* set_viewport in local mode, for another body, or with the contours switched off.
Leave ==
    /\ step = "viewport" /\ camera # None /\ Spend
    /\ camera' = None /\ viewport' = None
    /\ IF scene # None THEN ResetAll
       ELSE UNCHANGED <<aim, bounds, costs, fallbackCost, place, tiles, reading, drawing,
                        manifest, selectors, readers, mergers, store>>
    /\ UNCHANGED <<body, step, offered>>

\* blast_tile_caches, from the map rail.
BlastTileCaches ==
    /\ step = "viewport" /\ Spend /\ ResetAll /\ UNCHANGED <<painting, viewport>>

\* globe_manifest::assets_for.  A snapshot of the current revision is reused until it
\* is 350 ms old, which it may always be.
Assets ==
    LET key == KeyOf(camera)
        known == snapshot # None /\ snapshot.key = key
    IN
    /\ step = "manifest" /\ step' = "load"
    /\ requestedKey' = key
    /\ offered' = IF known THEN snapshot.assets ELSE {}
    /\ \/ /\ busy \/ (known /\ snapshot.rev = revision)
          /\ UNCHANGED <<busy, selectors>>
       \/ /\ ~busy /\ busy' = TRUE
          /\ selectors' = selectors \cup
                {[epoch |-> manifestEpoch, key |-> key, rev |-> revision, seen |-> None]}
    /\ UNCHANGED <<body, camera, residency, place, tiles, reading, drawing, snapshot,
                   manifestEpoch, readers, mergers, store, spent>>

Kept_AnyRoot(sameRoot) ==   \* mutant: the root is not asked
    IF picture = Nothing THEN fallback ELSE picture
Kept_OlderOnly(sameRoot) ==   \* mutant: the published picture is not taken over
    IF sameRoot THEN fallback ELSE Nothing
\* What is kept of the picture when tier or root change: globe_merge::State::transition
\* for Earth, the rule for zoom_fallback for the Moon and Mars.
Kept(sameRoot) ==
    IF ~sameRoot THEN Nothing ELSE IF picture = Nothing THEN fallback ELSE picture

\* The scene, its fallback and its epoch when the camera is at `v`.
Arrive(v) ==
    IF scene = Scene[v]
    THEN UNCHANGED <<scene, picture, fallback, fallbackCost, loadEpoch, retryAt>>
    ELSE /\ scene' = Scene[v]
         /\ fallback' = Kept(scene # None /\ scene.root = Scene[v].root)
         /\ picture' = Nothing /\ fallbackCost' = 0
         /\ loadEpoch' = loadEpoch + 1 /\ retryAt' = FALSE

\* prune, for a view and the known bounds: off-screen tiles go, the least recently
\* seen first, until what is left fits.
Prune(before, charged, view, known, reserve) ==
    LET hidden == {t \in charged \cap before : ~Wanted(t, view, known)}
        excess == Cardinality(charged \cap before) + reserve - Capacity
        Gone == {S \in SUBSET hidden :
                    Cardinality(S) = IF excess <= 0 THEN 0
                                     ELSE IF excess < Cardinality(hidden)
                                     THEN excess ELSE Cardinality(hidden)}
    IN \E S \in Gone :
        /\ tiles' = before \ S
        /\ costs' = (charged \cap before) \ S
        /\ bounds' = known \ S

\* begin_globe_read.
BeginGlobeRead(kept, known, claimed, retry, epoch) ==
    LET todo == {t \in offered : Wanted(t, viewport, known) /\ t \notin kept \cup claimed}
    IN IF loadInFlight # None \/ retry \/ todo = {}
       THEN inFlight' = claimed /\ UNCHANGED <<loadInFlight, readers>>
       ELSE /\ inFlight' = claimed \cup todo
            /\ loadInFlight' = epoch
            /\ readers' = readers \cup
                 {[epoch |-> epoch, todo |-> todo, done |-> {}, batch |-> todo, failed |-> FALSE]}

\* Residency::configure for Earth, then prune; the Moon has neither.
Configure(v, here) ==
    IF body # "Earth"
    THEN tiles' = here /\ UNCHANGED <<aim, bounds, costs>>
    ELSE /\ aim' = v
         /\ Prune(here, IF here = {} THEN {} ELSE costs, v,
                  IF scene = Scene[v] THEN bounds ELSE {}, fallbackCost')

\* A changed tile set outdates the picture; a changed set of cells the worker at it.
Outdate(v) ==
    LET turned == body = "Earth" /\ (aim = None \/ Cells[aim] # Cells[v])
        same == tiles' = tiles /\ scene = Scene[v]
    IN
    /\ composed' = (composed /\ same)
    /\ mergers' = {[m EXCEPT !.fresh = @ /\ same, !.steady = @ /\ ~turned] : m \in mergers}

\* load_srtm_for_globe, load_lunar_for_globe and load_mars_for_globe up to the read.
Load ==
    /\ step = "load" /\ step' = IF offered = {} THEN "render" ELSE "evict"
    /\ LET here == IF scene = Scene[camera] THEN tiles ELSE {}
           claimed == IF scene = Scene[camera] THEN inFlight ELSE {}
       IN
       /\ Arrive(camera)
       /\ Configure(camera, here)
       /\ Outdate(camera)
       /\ BeginGlobeRead(tiles', bounds', claimed, retryAt', loadEpoch')
    /\ UNCHANGED <<body, camera, offered, viewport, mergeInFlight, manifest, selectors, store,
                   spent>>

\* The Moon's and Mars' eviction keeps the tiles nearest to the camera.  It drops every
\* claim too, which are of tiles that are not there yet.
KeepNearest ==
    \E S \in SUBSET tiles :
        /\ Cardinality(S) = MaxTiles
        /\ \A t \in S, u \in tiles \ S : Distance(t, Centre[camera]) <= Distance(u, Centre[camera])
        /\ inFlight' = inFlight \cap S
        /\ SetTiles(S)

\* The eviction after the read was started.
Evict ==
    /\ step = "evict" /\ step' = "render"
    /\ IF body = "Earth"
       THEN /\ Prune(tiles, costs, viewport, bounds, fallbackCost)
            /\ SetTiles(tiles') /\ UNCHANGED inFlight
       ELSE /\ IF Cardinality(tiles) > MaxTiles THEN KeepNearest
               ELSE UNCHANGED <<tiles, inFlight, composed, mergers>>
            /\ UNCHANGED <<bounds, costs>>
    /\ UNCHANGED <<body, camera, offered, viewport, aim, fallbackCost, place, loadInFlight,
                   retryAt, picture, fallback, mergeInFlight, manifest, selectors, readers,
                   store, spent>>

\* globe_merge::render and render_globe_tiles_async: one worker composes a snapshot of
\* the tiles; the scene draws `picture`, and the fallback while there is none.
Render ==
    /\ step = "render" /\ step' = "viewport"
    /\ offered' = {}
    /\ IF mergeInFlight # None \/ composed \/ (body = "Moon" /\ tiles = {})
       THEN UNCHANGED <<mergeInFlight, mergers>>
       ELSE /\ mergeInFlight' = loadEpoch
            /\ mergers' = mergers \cup
                 {[epoch |-> loadEpoch, tiles |-> tiles, under |-> fallback, view |-> viewport,
                   fresh |-> TRUE, steady |-> TRUE]}
    /\ UNCHANGED <<body, camera, residency, place, tiles, reading, picture, fallback, composed,
                   manifest, selectors, readers, store, spent>>

-----------------------------------------------------------------------------
(* The workers.                                                            *)

\* The worker selects its window, ensure_*_contour_region, without the lock.
SelectTiles(s) ==
    /\ s.seen = None
    /\ selectors' = (selectors \ {s}) \cup {[s EXCEPT !.seen = Selection(s.key)]}
    /\ UNCHANGED <<painting, residency, place, tiles, reading, drawing, manifest, readers,
                   mergers, store>>

\* globe_manifest::State::finish with the test for a current result, leaving `gate`.
FinishManifestWith(gate, fits, s, assets) ==
    /\ selectors' = selectors \ {s}
    /\ busy' = gate
    /\ snapshot' = IF fits /\ assets # None
                   THEN [key |-> s.key, rev |-> s.rev, assets |-> assets] ELSE snapshot
    /\ UNCHANGED <<painting, residency, place, tiles, reading, drawing, requestedKey,
                   manifestEpoch, readers, mergers, store>>

Fits(s) == s.epoch = manifestEpoch /\ requestedKey = s.key
FinishManifest_StaleKeepsGate(s, assets) ==   \* mutant: a stale result leaves the gate shut
    FinishManifestWith(~Fits(s), Fits(s), s, assets)
\* Without assets the worker panicked.
FinishManifest(s, assets) == FinishManifestWith(FALSE, Fits(s), s, assets)

Selector(s) == SelectTiles(s) \/ (s.seen # None /\ FinishManifest(s, s.seen))

IsCurrent(r) == r.epoch = loadEpoch /\ loadInFlight = r.epoch
Goes(r, next) == readers' = (readers \ {r}) \cup {next}

\* globe_reader::publish: a tile of a streaming reader; FALSE from it ends the batch.
Publish(r, t) ==
    /\ t \in r.todo /\ body = "Earth"
    /\ IF IsCurrent(r)
       THEN LET known == bounds \cup {t}
                adopted == IF Wanted(t, viewport, known) THEN {t} ELSE {}
            IN
            /\ Goes(r, [r EXCEPT !.todo = @ \ {t}, !.done = @ \cup {t}])
            /\ inFlight' = inFlight \ {t}
            /\ bounds' = known /\ costs' = costs \cup adopted
            /\ SetTiles(tiles \cup adopted)
       ELSE /\ Goes(r, [r EXCEPT !.todo = {}])
            /\ UNCHANGED <<inFlight, bounds, costs, tiles, composed, mergers>>
    /\ UNCHANGED <<painting, viewport, aim, fallbackCost, place, loadInFlight, retryAt, picture,
                   fallback, mergeInFlight, manifest, selectors, store>>

ReaderOnly == UNCHANGED <<painting, residency, place, tiles, reading, drawing, manifest,
                          selectors, mergers, store>>

\* query_local_contours_batch: a tile of a batch that is handed over as a whole.
Decode(r, t) ==
    /\ t \in r.todo /\ body = "Moon"
    /\ Goes(r, [r EXCEPT !.todo = @ \ {t}, !.done = @ \cup {t}])
    /\ ReaderOnly

\* A damaged tile, which stream_local_contours reports and skips.
TileFails(r, t) ==
    /\ t \in r.todo
    /\ Goes(r, [r EXCEPT !.todo = @ \ {t}, !.failed = TRUE])
    /\ ReaderOnly

\* The reader panics, or cannot be spawned.
ReaderFails(r) ==
    /\ Goes(r, [r EXCEPT !.todo = {}, !.done = {}, !.failed = TRUE])
    /\ ReaderOnly

\* finish_globe_read: a batch fails if none of its tiles could be read.
FinishGlobeRead(r) ==
    LET failed == r.failed /\ r.done = {}
        brought == IF body = "Moon" /\ ~failed THEN r.done ELSE {}
    IN
    /\ r.todo = {}
    /\ readers' = readers \ {r}
    /\ loadInFlight' = IF loadInFlight = r.epoch THEN None ELSE loadInFlight
    /\ IF IsCurrent(r)
       THEN /\ inFlight' = inFlight \ r.batch /\ retryAt' = failed
            /\ SetTiles(tiles \cup brought)
       ELSE UNCHANGED <<inFlight, retryAt, tiles, composed, mergers>>
    /\ UNCHANGED <<painting, residency, place, picture, fallback, mergeInFlight, manifest,
                   selectors, store>>

Reader(r) == FinishGlobeRead(r) \/ \E t \in r.todo : Publish(r, t) \/ Decode(r, t)

\* CONTOUR_READ_RETRY_DELAY passes.
RetryDue ==
    /\ retryAt /\ retryAt' = FALSE
    /\ UNCHANGED <<painting, residency, place, tiles, inFlight, loadInFlight, drawing, manifest,
                   selectors, readers, mergers, store, spent>>

\* ownership: a core wins, also an empty one; where the core is missing, one halo does.
Owner(sources, g) ==
    LET cores == {t \in sources : g \in Core[t]}
        halos == {t \in sources \ Blank : g \in Halo[t]}
    IN IF cores # {} THEN cores ELSE IF halos # {} THEN {CHOOSE t \in halos : TRUE} ELSE {}

\* What remains of the picture underneath.
Uncovered(sources, under) ==
    [g \in Ground |-> IF Owner(sources, g) = {} THEN under[g] \ Blank ELSE {}]
Without(p, gone) == [g \in Ground |-> p[g] \ gone]

\* compose_resident, and finish of globe_contour_merge: a partition of the ground, and
\* the fallback where it has no source, less off-screen fallback over the GPU budget.
Compose(m) ==
    LET rest == Uncovered(m.tiles, m.under)
        hidden == {t \in TilesOf(rest) : t \notin Shape[m.view]}
        excess == Cardinality(m.tiles) + Cardinality(TilesOf(rest)) - Capacity
    IN \E S \in SUBSET hidden :
        /\ Cardinality(S) = IF excess <= 0 THEN 0
                            ELSE IF excess < Cardinality(hidden) THEN excess
                            ELSE Cardinality(hidden)
        /\ fallback' = Without(rest, S)
        /\ picture' = [g \in Ground |-> Owner(m.tiles, g) \cup fallback'[g]]
        /\ fallbackCost' = Cardinality(TilesOf(fallback'))
        /\ composed' = m.fresh

\* render_globe_tiles: all tiles together.
Flatten(m) ==
    /\ picture' = [g \in Ground |-> {t \in m.tiles : g \in Halo[t]}]
    /\ composed' = TRUE
    /\ UNCHANGED <<fallback, fallbackCost>>

\* Whether a result may be published: of this epoch, and for Earth composed for the cells
\* on screen, for the Moon and Mars from the tiles there are now.
IsAccepted(m) == m.epoch = loadEpoch /\ (IF body = "Earth" THEN m.steady ELSE m.fresh)

FinishMerge(m, done) ==
    /\ mergers' = mergers \ {m}
    /\ mergeInFlight' = None
    /\ IF done /\ IsAccepted(m)
       THEN IF body = "Earth" THEN Compose(m) ELSE Flatten(m)
       ELSE UNCHANGED <<picture, fallback, fallbackCost, composed>>
    /\ UNCHANGED <<painting, viewport, aim, bounds, costs, place, tiles, reading, manifest,
                   selectors, readers, store>>

\* A build commits a tile and bumps the revision, see TileBuild.
CommitTile(t) ==
    /\ t \in Late \ ready
    /\ ready' = ready \cup {t} /\ revision' = revision + 1
    /\ UNCHANGED <<painting, residency, place, tiles, reading, drawing, manifest, selectors,
                   readers, mergers, spent>>

-----------------------------------------------------------------------------

Frame == Repaint \/ Assets \/ Load \/ Evict \/ Render
User == Leave \/ BlastTileCaches \/ \E v \in Views : Move(v)
Work ==
    \/ \E s \in selectors : Selector(s)
    \/ \E r \in readers : Reader(r)
    \/ \E m \in mergers : FinishMerge(m, TRUE)
Faults ==
    \/ \E s \in selectors : FinishManifest(s, None)
    \/ \E r \in readers : ReaderFails(r) \/ \E t \in r.todo : TileFails(r, t)
    \/ \E m \in mergers : FinishMerge(m, FALSE)

Next ==
    \/ Frame \/ User \/ RetryDue
    \/ (Work /\ UNCHANGED spent)
    \/ (Faults /\ Spend)
    \/ \E t \in Tiles : CommitTile(t)

\* The application repaints every second (app.rs), each worker thread runs, and time
\* passes.
Fairness ==
    /\ WF_vars(Frame) /\ WF_vars(RetryDue)
    /\ WF_vars(\E s \in selectors : Selector(s) /\ UNCHANGED spent)
    /\ WF_vars(\E r \in readers : Reader(r) /\ UNCHANGED spent)
    /\ WF_vars(\E m \in mergers : FinishMerge(m, TRUE) /\ UNCHANGED spent)

Spec == Init /\ [][Next]_vars
FairSpec == Spec /\ Fairness

-----------------------------------------------------------------------------
(* Properties.                                                             *)

Pictures == [Ground -> SUBSET Tiles]
Keys == {KeyOf(v) : v \in Views}
Selections == [epoch : Nat, key : Keys, rev : Nat, seen : {None} \cup SUBSET Tiles]
Snapshots == [key : Keys, rev : Nat, assets : SUBSET Tiles]
Batches == [epoch : Nat, batch : SUBSET Tiles, todo : SUBSET Tiles, done : SUBSET Tiles,
            failed : BOOLEAN]
Merges == [epoch : Nat, tiles : SUBSET Tiles, under : Pictures, view : {None} \cup Views,
           fresh : BOOLEAN, steady : BOOLEAN]

\* Every variable has its type.
TypeOK ==
    /\ body \in {"Earth", "Moon"} /\ step \in {"viewport", "manifest", "load", "evict", "render"}
    /\ camera \in {None} \cup Views /\ viewport \in {None} \cup Views /\ aim \in {None} \cup Views
    /\ scene \in {None} \cup {Scene[v] : v \in Views}
    /\ offered \subseteq Tiles /\ tiles \subseteq Tiles /\ inFlight \subseteq Tiles
    /\ bounds \subseteq Tiles /\ costs \subseteq Tiles /\ ready \subseteq Tiles
    /\ picture \in Pictures /\ fallback \in Pictures
    /\ composed \in BOOLEAN /\ retryAt \in BOOLEAN /\ busy \in BOOLEAN
    /\ loadEpoch \in Nat /\ manifestEpoch \in Nat /\ revision \in Nat /\ spent \in 0 .. Budget
    /\ loadInFlight \in {None} \cup Nat /\ mergeInFlight \in {None} \cup Nat
    /\ snapshot \in {None} \cup Snapshots /\ requestedKey \in {None} \cup Keys
    /\ selectors \subseteq Selections /\ readers \subseteq Batches /\ mergers \subseteq Merges

\* The single-flight gates tell of their workers whatever scene or reset a worker outlives
\* ("preventing overlapping stale and current read workers", GlobeRegionCache): one
\* thread at a time, and no gate left shut behind it.
OneOfEach ==
    /\ Cardinality(selectors) = (IF busy THEN 1 ELSE 0)
    /\ Cardinality(readers) = (IF loadInFlight = None THEN 0 ELSE 1)
    /\ Cardinality(mergers) = (IF mergeInFlight = None THEN 0 ELSE 1)
    /\ \A t \in inFlight : \E r \in readers : t \in r.batch /\ IsCurrent(r)

\* Every tile Earth's cache holds is charged to the budget: prune only counts and only
\* evicts charged tiles, while readers, scene changes and resets come in between.
EveryTileIsCharged == body = "Earth" => costs = tiles /\ tiles \subseteq bounds

\* Tiles and claims are of the cache's scene, and the picture of its data root, also the
\* fallback kept "across zoom changes, never across data roots" (load_srtm_for_globe);
\* workers of an earlier scene may still be at it.
SceneIsolation ==
    /\ \A t \in tiles \cup inFlight : t.scene = scene
    /\ \A t \in TilesOf(picture) \cup TilesOf(fallback) : scene # None /\ t.scene.root = scene.root

\* The rest of the inductive invariant.  A repaint that is under way has a view, and loads
\* tiles of its scene.
RepaintShape ==
    /\ step # "viewport" => camera # None
    /\ step = "load" => \A t \in offered : t.scene = Scene[camera]
SelectionShape ==
    /\ snapshot # None => \A t \in snapshot.assets : t.scene = snapshot.key.scene
    /\ \A s \in selectors : s.seen # None => \A t \in s.seen : t.scene = s.key.scene

\* Behind a gate is its worker.  A reader holds its gate with its epoch, and reads tiles
\* of the scene if that epoch is current.
GatesAreHeld ==
    /\ (busy <=> selectors # {}) /\ \A s, other \in selectors : s = other
    /\ (loadInFlight # None <=> readers # {}) /\ \A r, other \in readers : r = other
    /\ (mergeInFlight # None <=> mergers # {}) /\ \A m, other \in mergers : m = other
ReaderShape ==
    \A r \in readers :
        /\ loadInFlight = r.epoch /\ r.epoch <= loadEpoch /\ r.todo \cup r.done \subseteq r.batch
        /\ r.epoch = loadEpoch => \A t \in r.batch : t.scene = scene

\* A composition of the current epoch draws tiles of the scene over terrain of its root.
IsOfRoot(p) == \A t \in TilesOf(p) : scene # None /\ t.scene.root = scene.root
MergeShape ==
    \A m \in mergers :
        /\ m.epoch <= loadEpoch
        /\ m.epoch = loadEpoch => IsOfRoot(m.under) /\ \A t \in m.tiles : t.scene = scene

\* What is drawn reaches its point, and is of the scene or carried over from the picture
\* before; a composition of the current epoch replaces the fallback it began with.
CarriedOver ==
    /\ \A g \in Ground : \A t \in picture[g] \cup fallback[g] : g \in Halo[t]
    /\ body = "Earth" => \A g \in Ground : \A t \in picture[g] : t.scene = scene \/ t \in fallback[g]
    /\ \A m \in mergers : m.epoch = loadEpoch => m.under = fallback

\* The bookkeeping of the cache: the parts above, each stated at the code it is about.
IInv ==
    /\ TypeOK /\ OneOfEach /\ EveryTileIsCharged /\ SceneIsolation
    /\ RepaintShape /\ SelectionShape /\ GatesAreHeld /\ ReaderShape /\ MergeShape /\ CarriedOver

\* What the globe draws.
Shown == IF (body = "Earth" /\ picture # Nothing) \/ Drawn(picture) # {} THEN picture ELSE fallback

\* The points of which all that could be drawn there is on screen.
OnScreen(v) == {g \in Ground : \A t \in Tiles \ Blank : g \in Halo[t] => t \in Shape[v]}
RootStays == body = "Earth" /\ scene # None /\ scene' # None /\ scene'.root = scene.root

\* A composition knows some of the terrain of a point: a tile it draws, or one of the tier
\* before, or any other that was carried over, at a point on screen when it began.
Knows(m, g) ==
    \E t \in Shown[g] \ Blank :
        \/ t \in m.tiles
        \/ (t.scene # scene \/ t \in fallback[g]) /\ g \in OnScreen(m.view)

\* "Visible terrain and the published picture survive while a replacement is composed"
\* (GlobeRegionCache): while the root stays, no point loses its terrain, through moves,
\* tier changes, evictions and results of workers, unless a composition under way does
\* not know it; a blank tile of the new tier may replace it.
VisibleTerrainStays ==
    [][RootStays =>
        \A g \in Drawn(Shown) : (\A m \in mergers : Knows(m, g)) => Shown'[g] # {}]_vars

\* What the sentence says of the terrain that is on screen by now, and of which nothing
\* but what the tier before left is drawn.  It does not hold: off-screen terrain is
\* dropped by the view the composition began with, and a camera that moves on within the
\* same cells does not reject the result.
TerrainNowVisibleStays ==
    [][RootStays /\ aim' = camera' =>
        \A g \in OnScreen(camera') \cap Drawn(Shown) :
            (\A t \in Shown[g] : t.scene # scene) => Shown'[g] # {}]_vars

\* Once the camera rests on a view, the globe draws every committed tile that is in the
\* window and on screen, its ground from no other tile of its tier, and reads nothing more.
Due(v) == {t \in Selection(KeyOf(v)) : body = "Earth" => t \in Shape[v]}
Settled(v) ==
    /\ Due(v) \subseteq tiles /\ inFlight = {}
    /\ \A t \in Due(v) : \A g \in Core[t] : t \in picture[g] /\ (body = "Earth" => picture[g] = {t})
    /\ body = "Earth" /\ Cardinality(tiles) + fallbackCost > Capacity => tiles \subseteq Shape[v]
GlobeFills == \A v \in Views : <>[](camera = v) => <>[]Settled(v)
=============================================================================
