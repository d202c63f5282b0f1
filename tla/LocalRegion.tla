----------------------------- MODULE LocalRegion ------------------------------
(***************************************************************************)
(* A LocalRegionCache of contour_asset.rs: the decoded contour tiles of    *)
(* the local terrain scene, kept for one camera window.  Each repaint sets *)
(* the viewport, asks for a selection of the tile manifest, claims a batch *)
(* of selected tiles for a reader and asks for a merge of the decoded      *)
(* ones.  Manifest, reader and merge workers run on threads of their own,  *)
(* outlive scenes and resets, and meet the repaint only under the cache's  *)
(* lock: each action below is one critical section.                        *)
(*                                                                         *)
(* A tile is a place in a scene (database and zoom bucket); places lie on  *)
(* a line where the code has a grid.  A manifest key is a scene and the    *)
(* centre of a window of Radius places to each side.                       *)
(***************************************************************************)
EXTENDS Integers, FiniteSets

CONSTANTS
    Tiles,          \* records [scene, place]
    Blank,          \* tiles without a contour
    Views,          \* camera positions
    Hosted,         \* views this cache is the source of; the others use another one
    Scene, Centre,  \* the manifest key of a view
    Footprint,      \* tiles whose nominal footprint meets a view's viewport
    Shape,          \* tiles whose decoded bounds do
    Radius,         \* the prefetch radius
    BatchSize,      \* LOCAL_CONTOUR_READ_BATCH_SIZE
    Late,           \* BOUND: tiles a build may commit during a behaviour
    Budget,         \* BOUND: moves, departures, resets and faults in a behaviour
    None

ASSUME ViewAssumption ==
    /\ Hosted \subseteq Views /\ Blank \cup Late \subseteq Tiles
    /\ \A v \in Views : Shape[v] \subseteq Footprint[v] /\ Footprint[v] \subseteq Tiles
    /\ Radius \in Nat /\ BatchSize \in Nat \ {0} /\ Budget \in Nat

VARIABLES
    camera,             \* the view on screen, None while another scene is
    frame,              \* the next critical section of the repaint
    offered,            \* the frame's selection, reader_assets
    viewport, window, bounds,                       \* Residency
    sceneKey, loadEpoch,
    entries, publishedTiles,
    inFlight, loadInFlight, retryAt,
    merged,             \* the tiles of the published merge, {} for None
    mergedKey, mergeRequestedKey, mergeInFlight,
    snapshot, requestedKey, manifestInFlight,
    selectors, readers, mergers,                    \* worker threads
    ready, revision,    \* committed tiles, and the global manifest revision
    decoded,            \* history: tiles decoded since the viewport or window changed
    resets,             \* history: calls of reset_all
    spent               \* how much of Budget is used

painting == <<camera, frame, offered>>
residency == <<viewport, window, bounds>>
geometry == <<entries, publishedTiles>>
reading == <<inFlight, loadInFlight, retryAt>>
merging == <<merged, mergedKey, mergeRequestedKey, mergeInFlight>>
manifest == <<snapshot, requestedKey, manifestInFlight>>
store == <<ready, revision>>
cacheAndPainting == <<painting, residency, sceneKey, loadEpoch>>
vars == <<cacheAndPainting, geometry, reading, merging, manifest,
          selectors, readers, mergers, store, decoded, resets, spent>>

Scenes == {Scene[v] : v \in Hosted}
KeyOf(v) == [scene |-> Scene[v], centre |-> Centre[v]]
Keys == {KeyOf(v) : v \in Hosted}
Centres == {Centre[v] : v \in Hosted}
Epochs == 0 .. 2 * Budget + 1
Slots == 1 .. Budget + 1

\* None is no value of what is optional.
ASSUME NoneAssumption ==
    None \notin Views /\ None \notin Centres /\ None \notin Keys /\ None \notin Epochs

\* local_tile_distance: it compares places, not scenes.
Distance(t, centre) == IF t.place >= centre THEN t.place - centre ELSE centre - t.place
Near(t, centre) == Distance(t, centre) <= Radius
Selection(key) == {t \in ready : t.scene = key.scene /\ Near(t, key.centre)}

\* Viewport::intersects, of a tile's decoded bounds or else of its nominal footprint.
OnScreen(t, view, known) == t \in (IF t \in known THEN Shape[view] ELSE Footprint[view])

\* Residency::wanted, for a window, a viewport and the tiles whose bounds are known.
Wanted(t, win, view, known) ==
    /\ win # None => Near(t, win)
    /\ view # None => OnScreen(t, view, known)
IsWanted(t) == Wanted(t, window, viewport, bounds)

Spend == spent < Budget /\ spent' = spent + 1

Init ==
    /\ camera = None /\ frame = "viewport" /\ offered = {}
    /\ viewport = None /\ window = None /\ bounds = {}
    /\ sceneKey = None /\ loadEpoch = 0
    /\ entries = {} /\ publishedTiles = {}
    /\ inFlight = {} /\ loadInFlight = None /\ retryAt = FALSE
    /\ merged = {} /\ mergedKey = None /\ mergeRequestedKey = None /\ mergeInFlight = None
    /\ snapshot = None /\ requestedKey = None /\ manifestInFlight = None
    /\ selectors = [s \in Slots |-> None] /\ readers = {} /\ mergers = {}
    /\ ready = Tiles \ Late /\ revision = 0
    /\ decoded = {} /\ resets = 0 /\ spent = 0

\* mark_entries_changed bumps entries_revision.  Of that counter a merge worker only
\* asks whether it has moved since the worker began: `fresh` until it does.  A change
\* clears mergedKey, so a mergedKey that is left needs no revision either.
SetEntries(kept) ==
    /\ entries' = kept
    /\ IF kept = entries
       THEN UNCHANGED <<mergedKey, mergers>>
       ELSE /\ mergedKey' = None
            /\ mergers' = {[m EXCEPT !.fresh = FALSE] : m \in mergers}

\* prune: what stays for a window, a viewport and known bounds.
PruneFor(win, view, known) ==
    LET Kept(S) == {t \in S : Wanted(t, win, view, known)} IN
    /\ SetEntries(Kept(entries))
    /\ publishedTiles' = Kept(publishedTiles)
    /\ merged' = IF Kept(entries) = {} /\ entries # {} THEN {} ELSE merged

Prune_WindowOnly(win, view, known) ==   \* mutant: the viewport is not asked
    PruneFor(win, None, known)
Prune(win, view, known) == PruneFor(win, view, known)

\* clear_entries_for_new_scene, but for in_flight and the window.  It stops no worker.
ClearEntries ==
    /\ bounds' = {} /\ decoded' = {}
    /\ entries' = {} /\ publishedTiles' = {}
    /\ merged' = {} /\ mergedKey' = None
    /\ mergeRequestedKey' = None /\ mergeInFlight' = None
    /\ mergers' = {[m EXCEPT !.fresh = FALSE] : m \in mergers}
    /\ loadEpoch' = loadEpoch + 1
    /\ retryAt' = FALSE

\* LocalRegionCache::reset_all.  The manifest worker is forgotten, the reader is not.
ResetAll ==
    /\ ClearEntries
    /\ inFlight' = {} /\ UNCHANGED loadInFlight
    /\ viewport' = None /\ window' = None /\ sceneKey' = None
    /\ snapshot' = None /\ requestedKey' = None /\ manifestInFlight' = None
    /\ resets' = resets + 1
    /\ UNCHANGED <<selectors, readers, store>>

-----------------------------------------------------------------------------
(* The repaint.                                                            *)

\* set_local_viewport: every repaint of the body's local scene, also when another
\* cache is the source of the view.
SetLocalViewport(v) ==
    /\ frame = "viewport"
    /\ camera' = v
    /\ frame' = IF v \in Hosted THEN "manifest" ELSE "viewport"
    /\ viewport' = v
    /\ decoded' = IF viewport = v THEN decoded ELSE {}
    /\ Prune(window, v, bounds)
    /\ UNCHANGED <<offered, window, bounds, sceneKey, loadEpoch, reading, mergeRequestedKey,
                   mergeInFlight, manifest, selectors, readers, store, resets>>

Repaint == camera # None /\ SetLocalViewport(camera) /\ UNCHANGED spent
Move(v) == v # camera /\ SetLocalViewport(v) /\ IF camera = None THEN UNCHANGED spent ELSE Spend

\* leave_local_view, and set_local_viewport for another body.
LeaveLocalView ==
    /\ frame = "viewport" /\ viewport # None /\ Spend
    /\ camera' = None /\ ResetAll
    /\ UNCHANGED <<frame, offered>>

\* blast_tile_caches, from the map rail.
BlastTileCaches ==
    /\ frame = "viewport" /\ Spend /\ ResetAll
    /\ UNCHANGED painting

\* local_manifest_asset_views: only a snapshot of the same key may drive reads.
ReaderAssets(key) == IF snapshot # None /\ snapshot.key = key THEN snapshot.assets ELSE {}

\* A snapshot of the current revision is reused until it is 350 ms old, which it may
\* always be.
IsCurrent(key) == snapshot # None /\ snapshot.key = key /\ snapshot.rev = revision

\* Its worker keeps the revision of this moment.
StartSelector(key) ==
    LET s == CHOOSE s \in Slots : selectors[s] = None IN
    /\ manifestInFlight' = key
    /\ selectors' = [selectors EXCEPT ![s] = [key |-> key, rev |-> revision, seen |-> None]]

LocalManifestAssets ==
    /\ frame = "manifest"
    /\ frame' = "load"
    /\ LET key == KeyOf(camera) IN
       /\ offered' = ReaderAssets(key)
       /\ requestedKey' = key
       /\ \/ (IsCurrent(key) \/ manifestInFlight # None) /\ UNCHANGED <<manifestInFlight, selectors>>
          \/ manifestInFlight = None /\ StartSelector(key)
    /\ UNCHANGED <<camera, residency, sceneKey, loadEpoch, geometry, reading, merging, snapshot,
                   readers, mergers, store, decoded, resets, spent>>

\* begin_local_read: the nearest tiles of the selection that are wanted, not decoded
\* and not claimed.
BeginLocalRead(key, known, kept, claimed, retry, epoch) ==
    LET todo == {t \in offered : Wanted(t, key.centre, viewport, known) /\ t \notin kept \cup claimed}
        Nearest == {S \in SUBSET todo :
                        /\ Cardinality(S) = IF Cardinality(todo) < BatchSize
                                            THEN Cardinality(todo) ELSE BatchSize
                        /\ \A t \in S, u \in todo \ S :
                               Distance(t, key.centre) <= Distance(u, key.centre)}
    IN IF loadInFlight # None \/ retry \/ todo = {}
       THEN inFlight' = claimed /\ UNCHANGED <<loadInFlight, readers>>
       ELSE \E S \in Nearest :
                /\ inFlight' = claimed \cup S
                /\ loadInFlight' = epoch
                /\ readers' = readers \cup {[epoch |-> epoch, batch |-> S, todo |-> S, failed |-> {}]}

\* Phase 1 of load_earth_source_region, load_lunar_region_for_view and
\* load_mars_region_for_view: a new scene starts empty, a new window prunes.
LoadScene(key) ==
    /\ sceneKey # key.scene
    /\ sceneKey' = key.scene /\ window' = key.centre
    /\ ClearEntries
    /\ BeginLocalRead(key, {}, {}, {}, FALSE, loadEpoch + 1)

\* set_window keeps bounds a little further out than geometry.
BoundsFor(centre) ==
    IF window = centre THEN bounds ELSE {t \in bounds : Distance(t, centre) <= Radius + 3}

\* retain_local_entries.
LoadWindow(key) ==
    LET known == BoundsFor(key.centre) IN
    /\ sceneKey = key.scene
    /\ window' = key.centre /\ bounds' = known
    /\ decoded' = IF window = key.centre THEN decoded ELSE {}
    /\ IF window = key.centre THEN UNCHANGED <<geometry, merged, mergedKey, mergers>>
                              ELSE Prune(key.centre, viewport, known)
    /\ BeginLocalRead(key, known, entries', inFlight, retryAt, loadEpoch)
    /\ UNCHANGED <<sceneKey, loadEpoch, retryAt, mergeRequestedKey, mergeInFlight>>

Load ==
    /\ frame = "load"
    /\ frame' = "merge"
    /\ offered' = {}
    /\ LoadScene(KeyOf(camera)) \/ LoadWindow(KeyOf(camera))
    /\ UNCHANGED <<camera, viewport, manifest, selectors, store, resets, spent>>

\* begin_local_merge.  The scene draws the merge published so far.
BeginLocalMerge ==
    /\ frame = "merge"
    /\ frame' = "viewport"
    /\ LET centre == Centre[camera]
            tiles == {t \in entries : Near(t, centre)}
       IN
       /\ mergeRequestedKey' = centre
       /\ IF mergedKey = centre \/ mergeInFlight # None
          THEN UNCHANGED <<merged, mergedKey, mergeInFlight, mergers>>
          ELSE IF tiles = {}
          THEN merged' = {} /\ mergedKey' = centre /\ UNCHANGED <<mergeInFlight, mergers>>
          ELSE /\ mergeInFlight' = loadEpoch
               /\ mergers' = mergers \cup
                    {[epoch |-> loadEpoch, centre |-> centre, tiles |-> tiles, fresh |-> TRUE]}
               /\ UNCHANGED <<merged, mergedKey>>
    /\ UNCHANGED <<camera, offered, residency, sceneKey, loadEpoch, geometry, reading, manifest,
                   selectors, readers, store, decoded, resets, spent>>

-----------------------------------------------------------------------------
(* The workers.                                                            *)

\* The worker selects its window, ensure_*_contour_region, without the lock.
SelectTiles(s) ==
    /\ selectors[s] # None /\ selectors[s].seen = None
    /\ selectors' = [selectors EXCEPT ![s].seen = Selection(selectors[s].key)]
    /\ UNCHANGED <<cacheAndPainting, geometry, reading, merging, manifest, readers, mergers,
                   store, decoded, resets, spent>>

\* finish_local_manifest: the snapshot takes the revision `rev`.  Without assets the
\* worker panicked, or was never spawned.
FinishManifestAt(rev, s, assets) ==
    LET key == selectors[s].key IN
    /\ manifestInFlight' = IF manifestInFlight = key THEN None ELSE manifestInFlight
    /\ snapshot' = IF requestedKey = key /\ assets # None
                   THEN [key |-> key, rev |-> rev, assets |-> assets] ELSE snapshot
    /\ selectors' = [selectors EXCEPT ![s] = None]
    /\ UNCHANGED <<cacheAndPainting, geometry, reading, merging, requestedKey, readers, mergers,
                   store, decoded, resets>>

FinishLocalManifest_Now(s, assets) ==   \* mutant: the revision at the end of the selection
    FinishManifestAt(revision, s, assets)
\* It is the revision the worker started from.
FinishLocalManifest(s, assets) == FinishManifestAt(selectors[s].rev, s, assets)

PublishSelection(s) ==
    /\ selectors[s] # None /\ selectors[s].seen # None
    /\ FinishLocalManifest(s, selectors[s].seen) /\ UNCHANGED spent
SelectionPanics(s) == selectors[s] # None /\ Spend /\ FinishLocalManifest(s, None)

\* publish_tile with the test that the reader is current, and the tiles whose bounds
\* are known afterwards.
PublishTileIf(current, known, r, t) ==
    LET Left(S) == readers' = (readers \ {r}) \cup {[r EXCEPT !.todo = S]} IN
    /\ t \in r.todo
    /\ IF ~current
       THEN Left({}) /\ UNCHANGED <<inFlight, bounds, decoded, entries, mergedKey, mergers>>
       ELSE /\ Left(r.todo \ {t})
            /\ inFlight' = inFlight \ {t}
            /\ bounds' = known
            /\ decoded' = decoded \cup {t}
            /\ SetEntries(IF Wanted(t, window, viewport, bounds \cup {t})
                          THEN entries \cup {t} ELSE entries)
    /\ UNCHANGED <<painting, viewport, window, sceneKey, loadEpoch, publishedTiles, loadInFlight,
                   retryAt, merged, mergeRequestedKey, mergeInFlight, manifest, selectors, store,
                   resets, spent>>

PublishTile_AnyEpoch(r, t) ==   \* mutant: the epoch of the cache is not compared
    PublishTileIf(loadInFlight = r.epoch, bounds \cup {t}, r, t)

PublishTile_ForgetsBounds(r, t) ==   \* mutant: bounds are recorded with geometry only
    PublishTileIf(r.epoch = loadEpoch /\ loadInFlight = r.epoch,
                  IF Wanted(t, window, viewport, bounds \cup {t}) THEN bounds \cup {t} ELSE bounds, r, t)

\* publish_tile, called by the streaming readers of a batch; FALSE from it ends them.
PublishTile(r, t) ==
    PublishTileIf(r.epoch = loadEpoch /\ loadInFlight = r.epoch, bounds \cup {t}, r, t)

\* Tiles of the batch whose query fails or whose reader panics; all of them when the
\* coordinator cannot be spawned.
TilesFail(r, S) ==
    /\ S # {} /\ Spend
    /\ readers' = (readers \ {r}) \cup {[r EXCEPT !.todo = @ \ S, !.failed = @ \cup S]}
    /\ UNCHANGED <<cacheAndPainting, geometry, reading, merging, manifest, selectors, mergers,
                   store, decoded, resets>>

\* finish_local_read.  A batch fails when no streaming reader of it succeeded, which
\* is open when one of its tiles failed and another did not.
FinishLocalRead(r) ==
    LET Outcomes == IF r.failed = r.batch THEN {TRUE} ELSE {r.failed # {}, FALSE} IN
    /\ r.todo = {}
    /\ readers' = readers \ {r}
    /\ IF loadInFlight = r.epoch THEN loadInFlight' = None ELSE UNCHANGED loadInFlight
    /\ IF loadInFlight = r.epoch /\ loadEpoch = r.epoch
       THEN inFlight' = inFlight \ r.batch /\ retryAt' \in Outcomes
       ELSE UNCHANGED <<inFlight, retryAt>>
    /\ UNCHANGED <<cacheAndPainting, geometry, merging, manifest, selectors, mergers, store,
                   decoded, resets, spent>>

\* CONTOUR_READ_RETRY_DELAY passes.
RetryDue ==
    /\ retryAt /\ retryAt' = FALSE
    /\ UNCHANGED <<cacheAndPainting, geometry, inFlight, loadInFlight, merging, manifest,
                   selectors, readers, mergers, store, decoded, resets, spent>>

\* finish_local_merge.  Within an epoch one worker merges at a time, so the epoch
\* stands for the key in mergeInFlight.
IsAccepted(m, done) ==
    done /\ m.epoch = loadEpoch /\ m.fresh /\ mergeRequestedKey = m.centre

FinishMergeWith(marker, m, done) ==
    /\ mergers' = mergers \ {m}
    /\ mergeInFlight' = marker
    /\ IF IsAccepted(m, done)
       THEN merged' = m.tiles /\ publishedTiles' = m.tiles /\ mergedKey' = m.centre
       ELSE UNCHANGED <<merged, publishedTiles, mergedKey>>
    /\ UNCHANGED <<cacheAndPainting, entries, reading, mergeRequestedKey, manifest, selectors,
                   readers, store, decoded, resets>>

FinishLocalMerge_KeepsMarker(m, done) ==   \* mutant: a rejected result keeps the marker
    FinishMergeWith(IF IsAccepted(m, done) THEN None ELSE mergeInFlight, m, done)
FinishLocalMerge(m, done) ==
    FinishMergeWith(IF mergeInFlight = m.epoch THEN None ELSE mergeInFlight, m, done)

Merge(m) == FinishLocalMerge(m, TRUE) /\ UNCHANGED spent
MergePanics(m) == Spend /\ FinishLocalMerge(m, FALSE)

\* A build commits a tile and bumps the revision, see TileBuild.
CommitTile(t) ==
    /\ t \in Late \ ready
    /\ ready' = ready \cup {t} /\ revision' = revision + 1
    /\ UNCHANGED <<cacheAndPainting, geometry, reading, merging, manifest, selectors, readers,
                   mergers, decoded, resets, spent>>

-----------------------------------------------------------------------------

Frame == Repaint \/ LocalManifestAssets \/ Load \/ BeginLocalMerge
User == LeaveLocalView \/ BlastTileCaches \/ \E v \in Views : Move(v)
Selector(s) == SelectTiles(s) \/ PublishSelection(s)
Reader(r) == FinishLocalRead(r) \/ \E t \in r.todo : PublishTile(r, t)
Faults ==
    \/ \E s \in Slots : SelectionPanics(s)
    \/ \E r \in readers : \E S \in SUBSET r.todo : TilesFail(r, S)
    \/ \E m \in mergers : MergePanics(m)

Next ==
    \/ Frame \/ User \/ RetryDue \/ Faults
    \/ \E s \in Slots : Selector(s)
    \/ \E r \in readers : Reader(r)
    \/ \E m \in mergers : Merge(m)
    \/ \E t \in Tiles : CommitTile(t)

\* The application repaints every second (app.rs), each worker thread runs, and time
\* passes.
Fairness ==
    /\ WF_vars(Frame) /\ WF_vars(RetryDue)
    /\ \A s \in Slots : WF_vars(Selector(s))
    /\ \A e \in Epochs :
           /\ WF_vars(\E r \in readers : r.epoch = e /\ Reader(r))
           /\ WF_vars(\E m \in mergers : m.epoch = e /\ Merge(m))

Spec == Init /\ [][Next]_vars
FairSpec == Spec /\ Fairness

-----------------------------------------------------------------------------
(* Properties.                                                             *)

Selections == [key : Keys, rev : Nat, seen : {None} \cup SUBSET Tiles]
Snapshots == [key : Keys, rev : Nat, assets : SUBSET Tiles]
Batches == [epoch : Epochs, batch : SUBSET Tiles, todo : SUBSET Tiles, failed : SUBSET Tiles]
Merges == [epoch : Epochs, centre : Centres, tiles : SUBSET Tiles, fresh : BOOLEAN]
\* Every variable has its type.
TypeOK ==
    /\ camera \in {None} \cup Views /\ viewport \in {None} \cup Views
    /\ frame \in {"viewport", "manifest", "load", "merge"}
    /\ window \in {None} \cup Centres /\ sceneKey \in {None} \cup Scenes
    /\ ready \subseteq Tiles /\ revision \in Nat
    /\ offered \subseteq Tiles /\ bounds \subseteq Tiles /\ decoded \subseteq Tiles
    /\ entries \subseteq Tiles /\ publishedTiles \subseteq Tiles
    /\ inFlight \subseteq Tiles /\ merged \subseteq Tiles
    /\ loadEpoch \in Epochs /\ loadInFlight \in {None} \cup Epochs /\ retryAt \in BOOLEAN
    /\ mergedKey \in {None} \cup Centres /\ mergeRequestedKey \in {None} \cup Centres
    /\ mergeInFlight \in {None} \cup Epochs
    /\ requestedKey \in {None} \cup Keys /\ manifestInFlight \in {None} \cup Keys
    /\ snapshot \in {None} \cup Snapshots /\ selectors \in [Slots -> {None} \cup Selections]
    /\ readers \subseteq Batches /\ mergers \subseteq Merges
    /\ resets \in Nat /\ spent \in 0 .. Budget

\* What the cache shows, holds or is reading belongs to its scene, whatever workers of
\* earlier scenes are still at it: finish_local_read, publish_tile and
\* finish_local_merge compare the load epoch.
SceneIsolation ==
    \A t \in entries \cup publishedTiles \cup merged \cup inFlight : t.scene = sceneKey

\* Geometry is resident only while the viewport and the window want it, although
\* tiles are published between the repaint's updates of the two (contour_residency.rs).
ResidentIsWanted == \A t \in entries \cup publishedTiles : IsWanted(t)

\* local_tiles hands out decoded tiles beside the merged picture: "Snapshot only the
\* tiles represented by this CPU merge".  A tile that left the picture, and came back
\* decoded, waits for the next merge; a blank one has nothing to merge.
LocalTiles == {t \in entries : t \in publishedTiles \/ t \in Blank}
HandedOutIsMerged == LocalTiles \ Blank \subseteq merged

\* A claimed tile has a reader that will release it: only begin_local_read skips it,
\* and for good if nobody does.
ClaimsHaveReader ==
    /\ inFlight \cap entries = {}
    /\ \A t \in inFlight : \E r \in readers :
           t \in r.batch /\ r.epoch = loadEpoch /\ loadInFlight = r.epoch

\* "One coordinator per local cache" (contour_reader.rs): a reader that outlives its
\* scene or a reset keeps loadInFlight, so that no second one starts beside it.
OneCoordinator == Cardinality(readers) <= 1

\* A snapshot of the current revision lists every committed tile of its window, so a
\* commit during a selection is not lost (finish_local_manifest).
SnapshotIsCurrent ==
    snapshot # None /\ snapshot.rev = revision => Selection(snapshot.key) \subseteq snapshot.assets

\* The field's comment says "At most one manifest/build-selection worker per terrain
\* body", but reset_all forgets the worker in flight: there is never more than one
\* for each reset, and one.
Selecting == {s \in Slots : selectors[s] # None}
SelectorsAreBounded == Cardinality(Selecting) <= resets + 1

\* The rest of the inductive invariant.  A repaint that is under way is of a view of
\* this cache, has offered tiles of its key, and merges the window it has loaded.
RepaintShape ==
    /\ frame # "viewport" => camera \in Hosted /\ viewport = camera
    /\ frame = "load" => offered \subseteq Selection(KeyOf(camera))
    /\ frame = "merge" => window = Centre[camera]

\* A reader holds loadInFlight.  One of the current epoch reads tiles of the scene, and
\* what it has still to read is claimed.
ReaderShape ==
    \A r \in readers :
        /\ loadInFlight = r.epoch /\ r.epoch <= loadEpoch
        /\ r.epoch = loadEpoch => r.todo \subseteq inFlight /\ \A t \in r.batch : t.scene = sceneKey
        /\ \A other \in readers : other = r

\* A merge that is still fresh, and the picture it becomes, is of decoded tiles.
MergeShape ==
    /\ \A m \in mergers : m.fresh => m.tiles \subseteq entries
    /\ publishedTiles \subseteq entries \cap merged

\* What a selection lists is committed, and is all there is if nothing was committed
\* since it began.
Lists(assets, key, rev) ==
    /\ assets \subseteq Selection(key) /\ rev <= revision
    /\ rev = revision => Selection(key) \subseteq assets
SelectionShape ==
    /\ snapshot # None => Lists(snapshot.assets, snapshot.key, snapshot.rev)
    /\ \A s \in Slots : selectors[s] # None =>
           /\ selectors[s].rev <= revision
           /\ selectors[s].seen # None =>
                  Lists(selectors[s].seen, selectors[s].key, selectors[s].rev)

\* A tile decoded for this viewport and window is resident if they want it.
DecodedIsResident == \A t \in decoded : IsWanted(t) => t \in entries

\* The bounds: a reset and a move of the camera are paid for, a reset takes an epoch,
\* and so does a load of a scene other than sceneKey.
EpochIsPaid ==
    LET open == IF camera = None THEN 0 ELSE 1
        due == IF camera \in Hosted /\ sceneKey # Scene[camera] THEN 1 ELSE 0
    IN loadEpoch <= 2 * spent + open - due
SlotsArePaid ==
    /\ resets <= spent
    /\ Cardinality(Selecting) <= resets + (IF manifestInFlight = None THEN 0 ELSE 1)
CountersArePaid == EpochIsPaid /\ SlotsArePaid

\* The cache, its claims and its workers agree after every critical section: the
\* parts above, each stated at the code it is about.
IInv ==
    /\ TypeOK /\ RepaintShape /\ SceneIsolation /\ ResidentIsWanted /\ HandedOutIsMerged
    /\ ClaimsHaveReader /\ OneCoordinator /\ SelectorsAreBounded
    /\ ReaderShape /\ MergeShape /\ SelectionShape /\ DecodedIsResident /\ CountersArePaid

\* A stationary view does not decode a tile twice: bounds outlive the geometry of a
\* tile that turned out to be off screen, and are part of what is wanted.
DecodedOnce == [][\A t \in inFlight' \ inFlight : t \notin decoded']_vars

\* Once the camera rests on a view of this cache, it holds and shows exactly the
\* committed tiles in the window and on screen, for good.
Due(v) == {t \in Selection(KeyOf(v)) : t \in Shape[v]}
ViewFills ==
    \A v \in Hosted : <>[](camera = v) => <>[](entries = Due(v) /\ merged = Due(v))
=============================================================================
