# A TLA+ verification of 1kEE

1kEE ("one thousand electric eyes") is a desktop globe written in Rust, with a
companion program that builds its caches. Its hardest code keeps derived data up
to date behind the user's back: contour tiles of Earth, Moon and Mars are selected
by background workers, built on demand by threads that share small permit pools,
imported into SQLite caches, read back by streaming readers, and discarded and
rebuilt when the caches turn out to be damaged; roads and water are imported by a
persisted job queue; and whole-planet OSM caches are built in passes of hours that
must survive being killed. This directory holds TLA+ models of these systems,
the TLC instances that check them, and proofs, checked by TLAPS, of their safety for
every size.

Paths below are relative to `crates/desktop/src/panels/world_map`, and `sfc/`
stands for its directory `srtm_focus_cache/`, `osm/` for
`crates/desktop/src/osm_ingest/` and `cb/` for `crates/cache_builder/src/`.

## Inventory of the system

| Component | State it keeps | Operations | What is hard | What makes it correct |
|---|---|---|---|---|
| Terrain build scheduler: `sfc/builders.rs`, `work_slots.rs`, `gdal.rs`, `mod.rs` | pending tiles per body, failed-build backoffs and gates, memo of uncovered tiles, manifest revision, three permit counters, shutdown flag | select a window, admit, insert and spawn; download, wait, process, commit; fail, panic, exit | several manifest workers and up to a dozen build threads interleave between atomics and short critical sections; permits move between threads; panics; exit | one builder per tile; permits neither lost nor doubled; commits are announced; windows fill; exit drains |
| Tile store and recovery: `sfc/db.rs`, `recovery.rs` | contour rows and manifest rows in SQLite files, replacement directories, the REPAIR lock | import, discard, shadow, mark, resolve | damaged pages, late reports, rebuilds racing discards, directories as the only durable state | discards never cost readable tiles; damage ends in a readable tile; one failure makes one replacement |
| Local contour region: `contour_asset.rs`, `contour_reader.rs`, `contour_residency.rs`, `contour_loading.rs` | selection snapshot and revision, decoded tiles, in-flight marks, `load_epoch`, merge | manifest, read and merge workers, reset, prune | single-flight workers that outlive scenes, stale results | stale results are not published; one worker of each kind; every wanted tile is decoded |
| Globe contour region: `globe_manifest.rs`, `globe_reader.rs`, `globe_contour_merge.rs`, `globe_residency.rs` | the same, with an owner for each piece of ground, a byte budget and a coarse picture kept under the fine one | the same; budgeted eviction; composition of a partition | reset during a worker; budget against visibility; pictures composed for another moment | the same, an exact budget, and no terrain lost from the screen while it is replaced |
| Lunar chunks and GDAL processes: `sfc/gdal.rs`, `gdal_process.rs` | chunks in download, registry of process ids | download once, wait, kill on exit | waiters time out before owners; ids outlive processes | one owner per chunk; nobody else's process is killed |
| Global overviews: `sfc/mod.rs` | AtomicBool per overview | build once | check, then set | one builder |
| OSM job queue: `osm/job_dispatch.rs`, `db.rs` | jobs table, known notes, activity hint, one worker | ask, insert, take, record, announce, recover | crash between any two writes, a job queued during an empty poll, failed writes | no queued job overlooked, no running row without a worker |
| OSM importers: `osm/roads*.rs`, `water.rs` | cell files and tile tables | extract, build, download, merge, mark | falling back half way, crash between features and mark | what is marked or completed has its data |
| Map layers: `road_layer.rs`, `water_layer.rs`, `admin_layer.rs`, `pipeline_layer.rs` | one cache per layer with its stamp, a background build | draw, ask, build, adopt | a generation or terrain that changes during a build | what is drawn is of the data and ground of today |
| Cache builder, OSM: `cb/planet_all.rs`, `pbf_nodes`, `flat_node_store.rs`, `node_store.rs`, `roads.rs`, `admin*.rs`, `geojson.rs` | node stores, checkpoints, cell files, regions by level | node pass, way pass, boundary scans, assembly, publication | killed and resumed anywhere, other settings or a newer file at the next start | a resumed build equals a full one |
| Cache builder, terrain: `cb/contours.rs`, `lunar.rs`, `mars.rs`, `gpu_terrain`, `job.rs`, `app.rs` | tile databases, source chunks, a mosaic, one job with a pool, a writer and its channels | plan, cut, compute, import or write, report; poll | threads that end in an order that must lose no tile, panics, killed anywhere, the desktop writing the same files | every planned tile reported, what is reported is stored, a failure is never stored as an empty tile, a region fills |
| Camera directory: `camera_directory_pipeline*` | directory files, settings, a refresh worker | refresh, cancel, merge | settings change during a refresh | results belong to current settings |
| Follow Events and recap: `model/event_follow.rs`, `follow_recap.rs`, `event_tour.rs`, `replay.rs` | stage and deadlines | frame tick, user override | many small timed transitions | tours end, user input wins |
| Live sources, event store, radio, camera player, gruve server | a channel or shared snapshot each | poll, publish | late results | no stale publication |
| Archives and cell formats | none | encode, decode | data, not control | round trip |
| Rendering, UI, catalogs, settings, themes | frame state | draw | - | not modelled |

How they interact: a scene's repaint asks its region cache for tiles; the cache
starts a manifest worker when its selection is older than 350 ms or the global
manifest revision has moved; the worker reads the tile manifest once and calls
`ensure_*_bucket_asset` for each tile of the window, which serves it, or
schedules a build; the build thread commits the tile, bumps the revision and
leaves the pending set; the reader of the region decodes selected tiles and
reports unreadable ones to `recovery.rs`, which deletes or shadows them, resets
backoffs and bumps the revision, so that the next selection rebuilds them. The
road and water layers look at the cells around the camera on check threads, ask the
job queue for those without data, and read cells and planet tiles again when the
queue's generation counters move; their vertices take their height from the
terrain, so a reset of the tile caches starts a new epoch of both layers. The cache
builder is a program of its own; what it shares with the desktop is files.

## Modules

`WorkSlots` specifies what a permit pool promises: `active` counts the holders,
never passes the limit, and permits are acquired, dropped, or moved to another
owner (`Permit` is moved into the build thread). `TileBuildProofs` proves
the count and the bound of each of the three pools.

`TileBuild` is the scheduler. A *caller* is a manifest worker, one per map scene;
a *worker* is a build thread. Their program counters stand between the atomic
operations and critical sections of the code, one action for each:

| Code | Actions |
|---|---|
| `local_manifest_assets`, `globe_manifest::assets_for` | `Begin` (keeps the revision), `EndScan` |
| `contour_manifest_window` | `Query`, `QueryFails` |
| `ensure_bucket_asset`, `ensure_lunar_bucket_asset`, `ensure_mars_bucket_asset` | `SkipTile`, `PassGate`, `CheckPending`, `AdmitLocal`, `AdmitStaging`, `AdmitDownload`, `InsertLost`, `InsertAndSpawn`, `SpawnPanics` |
| `build_focus_contours`, `build_threedep_contours`, `build_lunar_contour_tile`, `build_mars_contour_tile` | `StartBuild`, `SourceReady`, `MarkEmpty`, `DownloadDone`, `NoCoverage`, `AnnounceDownload`, `AcquireProcessing`, `DropStaged`, `AnnounceDequeue`, `Commit`, `ReturnBuilt`, `ReturnFailed` |
| the thread closures of `builders.rs` | `AnnounceBuilt`, `ClearFailure`, `RecordFailure`, `LeavePending`, `ReleasePermit`, `WorkerPanics` |
| time, a manual cache reset, exit | `CoolTile`, `CoolGate`, `ResetBackoffs`, `Shutdown` |

Three abstractions carry the model. The 64-bit manifest revision is compared only
for equality with the current one, so `fresh` (the callers whose revision is
still current) replaces it exactly, short of 2^64 bumps. Who owns a permit is not
stored: `HoldsProc`, `HoldsDown` and `HoldsStaging` derive it from the program
counters by Rust's move and drop rules, and the counters are checked against it.
Sources are constant sets of tiles: without source (`SourcelessTiles`, which also
stands for a 3DEP probe answered Coarse), without coverage at the provider
(`AbsentTiles`), flat, covered by a CTX DTM.

`TileRecovery` models damaged tiles. Level 0 of a tile is the shared database,
level k + 1 its own database in the replacement directory of level k; `dirs[t]`
says how many exist, which is all that survives a restart. `shared` says whether
the shared database takes writes ("writable"), answers them with SQLITE_CORRUPT
("failing"), or is never written because a terrain repair root is set ("spared").
Contents: "good"; "bad" rows that do not decode or do not match the manifest's
count; "torn" pages; "gone", a lost manifest row.

| Code | Actions |
|---|---|
| `contour_manifest_window`, `mark_database` | `Select` |
| `build_path`, `count`, `ensure_bucket_asset` | `Ensure` (serve, or create the directory and start a build; the last tile publishes) |
| `import_tile_into_cache_clipped` | `Import`, `BuildFails` |
| `begin_local_read`, `stream_local_contours`, `spawn_local_read` | `BeginRead`, `ReadTile`, `EndBatch` |
| `discard`, `delete_tile` | `BeginDiscard`, `DeleteTile`, `Shadow`; on any other error `DiscardFails`, which leaves the tile to the next report |
| storage, the camera | `Damage`, `Freeze`, `Prune` |

It covers caches that key their tiles by path (`LocalRegionCache`; the local and
the base cache of Earth). A batch has one reader, as on machines with fewer than
four threads; elsewhere two readers share it, and either has the same defect as
soon as it is given two tiles. Admission limits are those of `TileBuild` and are
not repeated. A database whose header cannot be opened is not modelled.

`LocalRegion` is one `LocalRegionCache`: the decoded tiles of the local terrain
scene. The repaint passes through four critical sections of the cache's lock,
which `frame` names; the worker threads meet it in sections of their own.

| Code | Actions |
|---|---|
| `set_local_viewport` with `prune` | `Repaint`, `Move` |
| `local_manifest_assets`, `local_manifest_asset_views` | `LocalManifestAssets` (may start a selector) |
| phase 1 of `load_earth_source_region` and its Moon and Mars forms: `clear_entries_for_new_scene` or `retain_local_entries`, then `begin_local_read` | `Load` |
| `begin_local_merge` | `BeginLocalMerge` |
| `leave_local_view`, `blast_tile_caches`: `reset_all` | `LeaveLocalView`, `BlastTileCaches` |
| manifest workers: `ensure_*_contour_region`, `finish_local_manifest` | `SelectTiles`, `PublishSelection`, `SelectionPanics` |
| `spawn_local_read`, `publish_tile`, `finish_local_read` | `PublishTile`, `TilesFail`, `FinishLocalRead`, `RetryDue` |
| `spawn_local_merge`, `finish_local_merge` | `Merge`, `MergePanics` |

Places are on a line, because the code only ever takes a ring distance. What is on
screen is a constant of a view, once by the nominal footprint of a tile and once by
its decoded bounds, which are known only after it has been read. `load_epoch` is
kept as a number. `entries_revision` is not: a merge worker only asks whether it
moved, which is its `fresh`, and a change clears `merged_key` anyway. In the same
way the epoch stands for the merge key in `merge_in_flight`. The manifest workers
are slots, because several of them can have the same key and revision. `Hosted`
views use this cache; during the others (another tier of Earth) it only follows the
viewport.

`GlobeRegion` is one `GlobeRegionCache`. `body` picks the variant: Earth streams its
tiles, keeps off-screen ones in a budget and composes a partition of the ground,
each piece of it drawn from the tile that owns it; the Moon and Mars read whole
batches, keep the nearest tiles and flatten all of them. The ground is a set of
points, a tile owns the points of its core and reaches over those of its halo; a
tile costs one unit. `step` names the next critical section of the repaint.

| Code | Actions |
|---|---|
| `set_globe_viewport` | `Repaint`, `Move` |
| `globe_manifest::assets_for` | `Assets` (may start a selector) |
| `load_srtm_for_globe`, `load_lunar_for_globe`, `load_mars_for_globe`: scene check, `configure`, `fallback`, `prune`, claims | `Arrive`, `Configure`, `Outdate`, `Prune`, `BeginGlobeRead`, together `Load` |
| eviction and nearest-first retention | `Evict`, `KeepNearest` |
| `globe_merge::render`, `render_globe_tiles_async` | `Render` |
| `reset_all`, leaving the globe | `BlastTileCaches`, `Leave` |
| manifest workers | `SelectTiles`, `FinishManifest` |
| globe readers: `publish_tile`, `finish_globe_read` | `Decode`, `TileFails`, `ReaderFails`, `FinishGlobeRead`, `RetryDue` |
| composition: `ownership`, `compose_resident`, `finish` | `Owner`, `Uncovered`, `Compose`, `Flatten`, `IsAccepted`, `FinishMerge` |

A composition belongs to the moment it was begun: `mergers` keep the tiles, view and
epoch they read, and `IsAccepted` compares them as `finish` does. What is drawn
is `picture`, or `fallback` where there is none yet. Polyline clipping, the reuse of
unchanged pieces, byte sizes and the GPU's own buffers are data and left out.

`GdalProcess` is one GDAL command run by a thread, and exit. Its clients set
`cmd[t]` to "start" and find the result there. A process is named by its thread,
which runs one at a time. `LunarChunk` and `GebcoDerived` are such clients, and
`GdalJobs` composes them: they share the registry and the shutdown flag.

| Code | Actions |
|---|---|
| `gdal_process::run` | `CheckShutdown`, `Spawn`, `Register`, `Watch`, `Unregister`; the process: `ChildEnds`, `ChildRejects` (its input is not complete), `ChildBreaks` |
| `terminate_active_gdal_jobs` | `RequestExit`, `CollectChildren`, `SignalTerm`, `SignalKill`; then `ProgramEnds`, and with it every thread, wherever it is |
| `build_lunar_contour_tile` | `BuildLunarContourTile`, `CropTile`, `TileBuilt` |
| `ensure_lunar_source_chunk`, `persist_temp_file` | `EnsureLunarSourceChunk`, `ClaimChunk`, `Extracted`, `PersistTempFile`, `CopyEnds`, `ReleaseChunk`, `LunarUnwinds` |
| `wait_for_lunar_source_chunk` | `WaitForFile`, `WaitForOwner`, `WaitTimesOut`, `LastLook` |
| `ensure_gebco_derived` | `EnsureGebcoDerived`, `StartBuild`, `ClearFlag` |
| `build_gebco_derived` | `BuildGebcoDerived`, `KeepAsset`, `BeginAsset`, `MosaicMade`, `AssetWritten`, `PlaceAsset`, `AssetCopied`, `GebcoUnwinds` |

A file is absent, part or whole. Its path exists as soon as it is a part, and that is
all the code asks; a command whose input is only a part fails (`CropFails`,
`DerivationFails`), so that a file torn by a failed copy is kept and of no use. A waiter
times out freely when nobody extracts its chunk, and by a fault when somebody does, so
that `UndisturbedTilesSucceed` can say that nothing fails unless something has gone wrong.

`VectorLayer` is the road and the water layer of the map, and `OsmJobs`, which extends
it, the job queue and the importers that feed them.

| Code | Actions |
|---|---|
| `road_layer.rs`, `water_layer.rs`: a frame, its background build | `DrawRoads`, `DrawWater`, `ReadCells`, `PublishRoads`, `PublishWater`, `BuildPanics` |
| the camera, the toggle, `blast_tile_caches` | `ViewMoves`, `HideWater`, `ResetTerrain` |
| the check threads and buttons, `queue_focus_roads_import`, `queue_focus_water_import`, `queue_planet_roads_import` | `StartCheck`, `CountSame`, `InsertRow`, `PublishJob` |
| `tick`, `fetch_next_job` and what surrounds it | `SpawnWorker`, `EnsureStore`, `LowerFlag`, `FetchNextJob`, `RaiseFlag` |
| focus roads: extracts, vector files, Overpass, merge | `PlanRoads`, `ExtractCell`, `BuildVector`, `DownloadRoads`, `MergeCell` |
| the planet's roads | `ImportPlanet` |
| focus water | `PlanWater`, `ScanWater`, `MarkCell`, `DownloadWater` |
| the end of a job | `RecordOutcome`, `AnnounceImport` |
| the process ends and starts again | `Crash` |

A generation or a bound is only compared with today's, so `current` keeps who still
bears a good stamp: the cache, the build, or both. A row's note is both the key that
tells duplicates and the progress text that replaces it; `noted` says whether it still
is the key. A file is "none", "whole" or "torn" (cut short by a crash or a failed
write), a transaction is all or nothing.

`PlanetFile`, `NodePass`, `WayPass` and `AdminPass` are a cache build by its passes, each
extending the one before, and `CacheBuild` the whole: one build at a time, started,
failing, killed and asked for again.

| Code | Actions |
|---|---|
| the file at the path, its fingerprint | `ReplacePlanet`, `SameSource` |
| `planet_all.rs` pass 1, `flat_node_store.rs`: flat nodes | `OpenNodeFile`, `ReadNodes`, `WriteNodes`, `SaveNodeOffset`, `SortNodes`, `MarkSorted` |
| `pbf_nodes/`: blocks of the original file as index | `OpenIndex`, `CommitBlocks`, `MarkIndexed`, `BindBuild` |
| `node_store.rs`, `roads.rs`: candidates of a focused build | `OpenCandidates`, `CommitCandidates`, `CompleteCandidates` |
| the way pass: `planet_all.rs`, `roads.rs`, `geojson.rs` | `OpenWays`, `ReadWays`, `ReadBlob`, `TakeWay`, `WriteCell`, `SaveWayOffset` |
| the boundaries: relation and member scans, assembly, publication | `PrepareSource`, `OpenScan`, `ReadScan`, `SaveScan`, `SaveScanOffset`, `MarkScan`, `OpenAssembly`, `SaveRegion`, `PublishMore`, `LevelDone`, `WriteLevels` |
| the program is killed | `Crash` |

A byte offset is the number of blobs in front of it. Where a scan saves its place
(every five million nodes, 100,000 features or 256 MiB) is left open, so that a build
may be killed between any two blobs with any part of them saved. An index is not marked
complete before its last batch is committed, even if that batch has no nodes. Its
database is made by several statements that each commit; `OpenIndex` may be cut short
between them, and what it leaves is refused by every later build. A cell file
is merged as it was read, and one that cannot be read counts as empty (`WrittenOver`).
`lost` remembers that a cell file lost what it held, in this way or by a write cut short,
and `promised` which ways every run of a pass was asked for; both are there for the
properties only.

`RasterBuild` is a terrain job of the cache builder, for whichever of the five engines:
Earth by marching squares, GDAL or the GPU, the Moon, Mars. `run` is the job with its
threads, `events` the channel to the app; a channel is the set of what is in it.

| Code | Actions |
|---|---|
| `start_contour_build`, `start_lunar_build`, `start_mars_build`, `spawn_job`; the command line, for the GPU | `StartContourBuild`, `StartLunarBuild`, `StartMarsBuild`; `RunContoursBbox` |
| `poll_job`; the window is closed | `PollJob`; `Kill` |
| `native_contours::initialize`, looking for sources and programs, `ensure_mola_vrt` | `PrepareEarth`, `PrepareLunar`, `PrepareMars` |
| planning: `tile_exists`, `tile_contour_count`, `mark_tile_empty` | `PlanTile`, `PlanMars`, `EndPlan` |
| `ensure_source_chunk`, `persist_temp_file` | `EnsureSourceChunk`, `CopyChunk`, `EndCut` |
| `gpu_terrain::build_bbox` | `BuildBbox`, `EndBbox` |
| the pool: marching squares; `LunarChunkSampler`; `gdalwarp` and `gdal_contour`; the imports | `TakeTile`, `BuildTileContours`, `SampleChunks`, `WarpAndContour`, `ImportTile`, `ImportCoastline`, `PoolPanics` |
| the writer thread: `write_tile_native`, `write_tile_native_lunar` | `WriterOpens`, `WriteTile`, `WriterEnds` |
| the job thread's loop over the outcomes, and its end | `Drain`, `EndBuild` |
| the desktop on the same files | `DesktopBuilds`, `DesktopCuts` |

A tile is stored "whole", as a "part" (some points had no data) or "empty". Contours,
clipping and coastline geometry are data. The Mars mosaic is absent, torn (its writer was
stopped at the time-out or killed) or whole; one that is torn is accepted by every later
job, and each tile that needs it fails. A Mars tile is covered by CTX when the centre of
a DEM lies within a buffer around it. A Mars tile with a row but no lines is planned
again by a job with a mosaic, one in which there is no line to find (`FlatTiles`) each
time. The GPU engine visits every tile of its box, in an order that is left open, and gives
up the whole job at one it cannot build (no SRTM file, too many segments, an unsupported
grid: outside `GpuTiles`).

The `MC` modules define windows, views, files, scenes and symmetry.

## Runs

| Run | Instance | Shows |
|---|---|---|
| `build_downloads` | 2 callers, 2 threads, 2 remote tiles, one without coverage, one download, two staging and one processing slot, 1 fault | exact permits, one builder per tile, no unannounced commit, the invariant the proofs use, through failure, panic, reset and exit |
| `build_planets` | 2 callers, 3 threads, 3 Mars tiles, one of them with MOLA labels but no mosaic, cap 1 | the cap is passed by at most one build per further caller, a tile built again and again included |
| `build_live` | 1 caller, 2 threads, 1 SRTM and 1 remote tile, 1 fault, fairness | tiles leave pending, windows fill, exit drains; the three counters implement `WorkSlots` |
| `recovery_shared` | 2 caches, 1 tile, 2 damages, writable, failing or spared database, fairness | late discards spare readable tiles; one failure, one replacement; every damage ends in a readable tile, also when discards fail on the way |
| `local_region` | 4 tiles in 2 scenes, 3 hosted views and another, 1 tile committed late, batches of 2, 1 move, reset, departure or fault, fairness | results of earlier scenes and windows stay out; claims are released; one reader; no commit is lost; nothing is decoded twice for a stationary view; the view ends with exactly its tiles |
| `globe_region` | Earth or Moon; 2 overlapping windows of a fine tier, the coarse tier of the same ground, the fine tier of another root; 1 tile committed late, a budget below what is on screen, 1 move, reset, departure or fault, fairness | gates and budget exact, nothing of another root drawn, terrain on screen stays while it is replaced, a view at rest fills |
| `gdal_jobs` | 2 lunar tiles of one chunk, or one GEBCO layer, 2 faults, exit, fairness | one extractor for each chunk; nothing fails and nothing incomplete is used when nothing goes wrong; no process without somebody to stop it, except one not yet registered when exit looked; what is shown is built, unless made from a torn file |
| `osm_jobs` | 2 cells, 4 scenes of asked-for jobs (one or two cells, roads, water, the planet), local map or globe, 2 rows, 1 or 2 disturbances (crash, failed write, reset, move), fairness | no queued job overlooked, no mark before its features, no running row without the worker, completed roads have files, roads stand on the ground of today; the queue drains, imports are drawn |
| `cache_build` | 3 blobs, 3 ways, 2 relations, 2 cell files, 2 levels; 9 scenes of builds (flat, compact, boundaries only, focused; two requests in turn, of one kind or two; a newer file), 0 to 2 disturbances (a kill, a failed step, an unreadable cell file, a half-made index), fairness | saved places never ahead of the output, everything that leads a build to its end (`IInv`, and `NodesHold` for flat and focused nodes, both proved), a finished build whole and of one file, focused builds do not thin out published regions, builds asked for again finish unless their index is half made |
| `raster_build` | 2 pool threads, 3 Earth tiles, 2 lunar tiles on 2 chunks, 2 Mars tiles, 8 scenes of jobs (each engine alone, GDAL with the GPU, an old database, the Moon with Mars), a tile the GPU cannot build, a Mars tile without lines, 1 or 2 disturbances (failed step, panic, kill, torn mosaic or chunk, the desktop coming first), fairness | every planned tile is in one place until it is reported, a job that ended well accounts for all of them, what is reported or shown is stored, no failure is stored as an empty tile, regions asked for again fill |

Two callers are what overlap in the program (local scene and globe, or the local
and base caches); two threads are enough for two of them to meet at each permit,
and the slot limits are chosen so that one of each kind is contended. Limits in
the code (`processing`, `DownloadQueue`) are larger, but only their being reached
matters, and the proofs cover every value. One fault is enough for each kind of
fault to occur in every state, and two damages let a rebuilt or a replaced tile
be damaged again. `MaxNested` is 2 or 3 where the code has 8: `StoreHeals` is
checked with fewer directories needed than the limit, because a tile damaged nine
times is out of reach of `resolve`.
In `local_region` `west` and `east` overlap in one place, a tile of `east` turns out
to be off screen when decoded, and `deep` shares a place with the other scene, so
that windows alone do not keep scenes apart. The budget of one counts what disturbs
a running load; the first view, and coming back after a departure, are free. With a
budget of two the safety properties were checked once, on 6.9 million states; the
run keeps to one so that liveness can be checked with them. `globe_region` counts in
the same way. Its west view shows two tiles and the budget holds one, so that what is
on screen must exceed the budget; `Fine(0)` reaches over its neighbour, and the coarse
tile owns all ground, so that tiers overlap. The same properties were checked once with
`DriftViews` and a budget of two (one million states).

`gdal_jobs` shows either the Moon or one layer, because what the two share, the
registry and the shutdown flag, they touch one process at a time; its safety
properties were checked once with both (2.2 million states, one fault), once with
three lunar tiles, and `ShownAssetsArrive` once with both layers. Two faults let an
extraction fail and its retry fail otherwise.

In `osm_jobs` two rows are enough for one to be taken while another is inserted, and
the two road jobs share a cell, so that one finds what the other left half done.
Two disturbances let a recovery be interrupted. `MaxRows` bounds the table, and it is
the one run that does not check for deadlock: on the globe, with the table full and
every job done, nobody in the model has anything left to do.

In `raster_build` three tiles are one more than the pool has threads, so that the
channels fill while tiles still wait; one lunar tile lies at the edge of its chunk, and
only one of the Mars tiles is covered by CTX, so that the other waits for the mosaic.
Two disturbances let a job be killed over what an earlier one left.

In `cache_build` the blobs come in the order of their node ids or not (the flat file
is sorted, the index of blocks needs them in order), one way has nodes in two blobs,
one lies in two cells, a relation has members in two blobs, and the bounds of the
focused build leave out a node.

### Where the code and its documentation disagree

Two disagreements have a run that ends in a counterexample:

| Run | Shows |
|---|---|
| `gdal_layers` | The depth fill and the bathymetry layer read the GEBCO flag and set it in two steps, from two threads; two builds with the same temporary names run at once, one puts a file in place that the other is writing, and it is handed out although "`None` is returned until complete". |
| `cache_focused` | The way scan of a focused build saves the offset of the next blob while it is in the middle of the current one; killed there, it resumes behind ways it never looked at, against "resuming from it is safe even if the process was killed mid-blob". |

Others were met while modelling, and are stated by definitions that no run checks,
because the code does not satisfy them (`CapIsAccurate`, `FailedTileIsNotEmpty`,
`DecodedFromItsDatabase`, `ReadableTilesAreRetained`, `FlagWhileActive`,
`WaterOnCurrentGround`, `TerrainNowVisibleStays`, `ChildIsNeverDetached`):

- `sfc/builders.rs:520`: `ensure_lunar_bucket_asset` (and the Mars one) checks the cap
  and inserts under two locks; two manifest workers exceed a cap that lines 512-513
  call "always accurate". `CapNearlyHolds` bounds the excess.
- `contour_asset.rs:2222`: after a discard the next frame claims the deleted tile from
  the old selection, finds neither rows nor manifest row, and publishes an empty tile,
  against `sfc/recovery.md:4-5`, "A failed tile is never published as successfully
  empty." It hides the rebuilt one until the view moves or the scene is reset.
- `contour_reader.rs:62`: all tiles of a batch are read from the first one's database;
  those of another database are published empty (`sfc/recovery.md:21-22`).
- `sfc/recovery.rs:97`: a selection that started before a commit creates a replacement
  directory that shadows the tile just committed to a marked database, against line 175.
- `osm/job_dispatch.rs:52`, "True while at least one job is in 'queued' or 'running'
  state.": the row of a planet import is queued without raising the flag, and waits
  until a focus job or a restart raises it.
- `contour_asset.rs:131-133`, "Dropping contours without dropping these leaves the two
  disagreeing about where the ground is.": a water build in flight during the reset
  knows no epoch and is adopted with heights of the old terrain. Roads do have one.
- `contour_asset.rs:472`: `reset_all` clears `manifest_in_flight` while its worker runs,
  and the next repaint starts another, against "At most one manifest/build-selection
  worker per terrain body". `IInv` of `local_region` shows that each reset
  adds at most one. Its results are harmless: the requested key and the revision are
  compared. `merge_in_flight` is cleared in the same way; `load_in_flight` is not.
- `sfc/builders.rs:622`: with MOLA labels installed but no usable mosaic, a Mars tile is
  marked empty, which counts as success, seen as improvable, and built again on every
  selection, against `sfc/gdal.rs:1277`, "mark empty so we don't retry every frame."
  The state space of `build_planets` contains this loop.
- `cb/lunar.rs:368-402`: the sampler takes for each point the chunk nearest to it, but
  lines 624-672 make only the chunks nearest to tile centres; the points of another,
  missing chunk count as without data, and the truncated tile is stored and skipped
  ever after, against `cb/lunar.md`, "Chunk extents intentionally overlap the snapped
  center grid so every lunar tile fits inside one cached source chunk."
  `FailuresAreNotStored` states it as its one exception without a failure.
- `globe_contour_merge.rs:101-128`, against "Visible terrain and the published picture
  survive while a replacement is composed": a tile evicted off screen and read again
  after the camera came back vanishes while a composition made without it is shown.
  `VisibleTerrainStays` states the promise with this exception and the next.
- `globe_contour_merge.rs:326`, against the same sentence: a composition over the GPU
  budget drops the fallback tiles that the view it began with (line 58) does not show, and
  `finish` accepts it as long as the set of the current tier's cells on screen is the same
  (`globe_residency.rs:154`). After zooming out, a camera that moves on within the same
  coarse cells brings finer fallback tiles into view that the accepted picture has just
  lost, until the coarse tile is there. With `Views <- DriftViews` and `Budget = 2` in
  `MCGlobeRegion_globe.cfg` TLC finds the counterexample to `TerrainNowVisibleStays` in
  24 steps.

- `sfc/mod.rs:715-718`: exit copies the registry once. A process whose thread stood
  between its check of the flag (`sfc/gdal_process.rs:30`) and its registration (line 43) is
  signalled by nobody, and when that thread panics (line 49) or the program ends before it
  watches the process, it lives on, against `sfc/gdal_process.md:20`, which lists under
  "Shutdown" that the "Child is killed/reaped" and a "Detached child" as the failure.
  `ChildIsAccountable` states the promise with this exception.

Defects the models contain as behaviours, without a document that says otherwise: a
panic of the water worker leaves its mark set, and water is never built again
(`water_layer.rs:143`); a vector file torn by a crash counts as ready for ever
(`osm/roads_osmium.rs:46`); the cache builder writes cell files in place and reads a
torn one as empty, so that the next merge loses what it held (`cb/geojson.rs:72`, 124),
and takes an intact one that cannot be read at the merge for empty as well, and writes it
over (`cb/geojson.rs:239`, 256; 71, 122; both are `lost` in the properties of `CacheBuild`);
`nodes.sqlite` left half made by a kill is refused by every later compact build
("Unsupported compact PBF index", or a table is missing; `cb/pbf_nodes/index.rs:111-128`;
`index.broken` in `BuildsFinish`); in the desktop, a lunar chunk (`sfc/gdal.rs:731`, 743) or
a GEBCO preview (`sfc/gdal.rs:330`, 368-371) torn by a failed copy is kept for ever, and all
that is made from it fails (`TornChunk`, `TornAsset` in `ShownTilesGetBuilt` and
`ShownAssetsArrive`); a torn `mola_megdr.vrt` is accepted for ever (`cb/mars.rs:156-158`), and
the GPU engine aborts a region at the same tile on each ask (`cb/gpu_terrain/mod.rs:374-376`,
416-420, 435-450, 609), both exceptions of `RegionFills`; the flat node store is resumed whatever
file and layers it was begun with (`cb/planet_all.rs:128`, which is why `OneSource` and
`DoneIsWhole` speak of compact builds only); the candidates of
a focused build are keyed by bounds alone (`cb/roads.rs:1043`); a failed planet import
has already deleted the tiles that its first transaction replaced; a writer of the
native engine that cannot open its database ends without a word, and the job says
"complete" with no errors (`cb/contours.rs:1084`), as does one whose pool panicked;
killed between the import of a tile and that of its coastlines, the GDAL engine leaves
it without coastlines for ever (`cb/contours.rs:713`); a lunar chunk torn by a failed
copy counts as whole (`cb/lunar.rs:183`).

## Fairness

`TileBuild!Fairness` is weak fairness of each caller, of each thread, and of each
cooldown. Scenes repaint at least every snapshot time-out while visible; every
external command and download runs under a time-out, so a stage ends or fails;
cooldowns are capped at 60 s; threads are scheduled preemptively. Threads waiting
for a processing slot poll, so weak fairness of one thread does not promise it the
slot: `build_live` shows that one waiter gets it when a local build competes for
it. Faults, resets and exit are never fair: they may or may not happen.

`TileRecovery!Fairness` is weak fairness of each cache's manifest worker and
reader and of each build. REPAIR is an unfair mutex, so nothing is assumed of
which reader gets it; the run has two, and whoever holds it lets it go after its discard.

`LocalRegion!Fairness` is weak fairness of the repaint (the application asks for one
every second, `app.rs`), of each worker and of the retry delay. The user and the
faults are not fair. That a snapshot grows older than 350 ms is never needed: the
revision alone makes the view fill. `GlobeRegion!Fairness` is the same.

`GdalJobs!Fairness` is weak fairness of each thread, of each layer, which asks once a
second while it is shown, and of each process that is not hung: `run` kills those
when their time is up. A failed tile is scheduled again after its cooldown. Exit
goes on once it is requested.

`OsmJobs!Fairness` is weak fairness of the asking threads once they run, of the worker,
of the frame that spawns it and draws the layers while any are switched on, and of the
layers' builds. Nobody has to ask, and nothing has to fail or be restarted.

`CacheBuild!Fairness` is weak fairness of a running build and of the user, who asks for a
build again after it failed or was killed. `BuildsFinish` is about that user only, and
excepts an index that was left half made, which somebody has to delete.

`RasterBuild!Fairness` asks less of the program, that some thread that can run does, for
a job is a finite number of steps; and strong fairness of asking for each engine, since
the jobs of another may come in between. `RegionFills` is about that user only; a region
asked of the GPU engine alone need not fill when that engine cannot build a tile of it, and
tiles that need the mosaic need not when it is torn.

## Proofs

`TileBuildProofs` proves for every finite set of callers and threads, every set of
tiles and every limit:

- `Inductive`: `Spec => []IInv`, where `IInv` is the conjunction of the protocol's
  types, the shape of callers and threads, `OneBuilderPerTile` and
  `CommitIsAnnounced`. None of the last two is inductive alone. That a tile has
  one builder follows at the insert because every thread's tile is pending, which
  `WorkerShape` says; that no commit is missed needs that whoever commits is still
  the only builder, and that a thread's tile stays pending until its bump.
  Each conjunct has its step lemma (`TypeStep`, `CallerShapeStep`,
  `WorkerShapeStep`, `OneBuilderStep`, `AnnouncedStep`), one step per action.
- `OneBuilder`, `Announced`: the two safety properties.
- `PermitsImplemented`: `Spec => SlotsImplemented`, the refinement of `WorkSlots`
  by each of the three counters: every action acquires, moves, drops or leaves
  alone, with the holders read off the program counters. The steps that keep all
  holders of one pool are separated in the `Quiet*Step` lemmas.
- `PermitsAccounted`, `TypeCorrect`: from `SlotsCounted` (what a pool promises, for
  each of the three) through the refinement, each counter is its holders' cardinality and within its
  limit; hence no atomic counter underflows.

- `CapHoldsNearly`: a body's pending tiles never pass its cap by more than the further
  callers. Inductive is `CapBudget`: pending tiles plus the callers that have passed
  the check and not yet inserted (`Admitted`) are at most the cap plus the callers
  less one, because whoever passes the check saw fewer than the cap (`CapChecked`)
  and whoever inserts gives up his place among the admitted (`CapUsed`). It counts
  by cardinality, so it needs that all these sets are finite (`CapCounts`).

They rest on `SetsAssumption` (finite disjoint sets of threads; remote tiles are
no one else's) and `LimitsAssumption` (limits are natural numbers, zero included).
`DisjointAssumption` (a tile counts against one body's cap) and `ProgressAssumption`
(the cap is not zero) are used by `CapHoldsNearly` only.

`OsmJobsProofs` proves for every set of cells, jobs and scenes, any number of rows and
any number of crashes and failures:

- `QueueInvariant`: `Spec => []IInv`. `IInv` joins the types, `Shape` (which row the
  worker has at each place), `ImportShape` (what the running import still owes),
  `FlagCoversQueue`, `MarkedCellsHaveWater`, `RunningIsWorkedOn`,
  `CompletedLeavesFiles` and `RoadGround`. That a queued row is never overlooked needs
  `Shape`, because it is the worker's place that covers for a hint already lowered;
  that a completed job left its files needs `ImportShape`, because a job that falls
  back from extracts to a download, or skips cells that are ready, knows by what it
  still has to do that nothing is missing; that drawn roads are on today's ground
  needs `RoadGround`, which speaks of the build before it is published. Each conjunct
  has its step lemma; rows are only appended and changed in place (`TableStep`), and
  an import step either keeps its row (`SameRow`) or lets the worker go
  (`WorkerLeaves`).
- `QueueIsCovered`, `MarksAreTrue`, `NoOrphans`, `CompletedHasFiles`,
  `RoadsStandOnGround`: what follows from it.

They rest on `OsmAssumption` and `LayerAssumption`, the types of the constants.

`TileRecoveryProofs` proves for every set of tiles and caches, every bound on nesting
and every number of damages:

- `NestingStaysPaidFor`: `Spec => []IInv`. That no more replacement directories nest
  than there were damages is not inductive, because creating one is free where it
  happens. What is needed is that the creation has been paid before: innermost rows
  that are broken leave one damage no directory stands for yet. That in turn needs to
  know what a late report may find: a reader that is about to shadow a tile has rows
  that are `Stuck`, unreadable in the shared database and not to be replaced there. So
  `Safe` has four parts, of the disk (`DiskInv`), of selections (`SelectionInv`), of
  readers (`ReadingInv`) and of what readers found stuck (`StuckInv`).
- `DiscardsSpareReadable`: `Spec => DiscardSparesReadable`, the action property. What
  is deleted is bad at that moment, because `delete_tile` looks again. A shadow hides a
  tile without looking again, and is harmless because `Stuck` holds of what it hides:
  that level does not serve the tile any more, or still cannot be read.

They rest on `NestingAssumption` and `NoneAssumption`.

`LocalRegionProofs` proves for every set of views, windows and tiles and any number
of moves, resets and faults:

- `CacheStaysConsistent`: `Spec => []IInv`. A reader that finishes clears the mark
  of whoever reads now, which is right only if there is one reader and the mark is
  its own (`ReaderShape`); and no claim outlives its reader, because a reader of today's
  epoch has claimed what it still has to read, and a reset takes a new epoch.
- `ScenesDoNotMix`: a reader or a merge of today's epoch has tiles of today's scene
  only, so what it publishes is of the scene on screen.
- `SnapshotsLoseNoCommit`: a selection of today's revision began after the last
  commit and has seen it, while it runs and when it is published.
- `TilesAreDecodedOnce`: a tile decoded for this viewport and window is resident if
  they want it (`DecodedIsResident`), and only wanted tiles that are not are claimed.

They rest on `ViewAssumption` and `NoneAssumption`.

`GlobeRegionProofs` proves the same of the globe for every ground, tiling and budget
and both variants: `GlobeStaysConsistent`, whose `IInv` has one manifest worker, reader
and composition, no gate shut behind its worker and every tile charged to the budget,
and `RootsDoNotMix`. A composition keeps the tiles and the picture it started from, so
the strengthening (`MergeShape`) is that one of today's epoch draws tiles of the scene
over terrain of its root; older ones are not accepted. `TerrainStays` proves the action
property `VisibleTerrainStays`: no point of Earth's globe loses its terrain while the data
root stays, unless a composition under way was begun without that terrain or with the
point off screen. It needs, besides `Safe`, `CarriedOver`: what is drawn reaches its
point, what is drawn and not of the scene is in the fallback, and a composition of today's
epoch has today's fallback underneath, because only a turn to another scene or a reset
replaces it, and both start an epoch. For what is drawn a step is of one of three kinds
(`StepDrives`): it leaves the picture alone, turns to another scene or to none, or publishes.
A point counts as on screen when every tile that reaches it is, so nothing is assumed of
the footprints. They rest on `GlobeAssumption` and `NoneAssumption`.

`GdalJobsProofs` proves for every set of threads, chunks and layers:

- `ChunksInvariant`: `Spec => []IInv`. A chunk's claim, its temporary file and the
  place of the thread that extracts it must agree, and so must a command's place and
  its process; neither is inductive without the other, since a thread leaves its
  command where the command ends.
- `NoDetachedChild`: a child that is alive is watched by a thread of the running program,
  or by one about to register it, or is in the registry while exit has still to read it, or
  among those exit is signalling; also when its thread has panicked. The one exception is
  a child whose thread was between check and registration when exit copied the registry
  (`missed`). `ProcessShape` says what it needs: ids are copied only while exit signals
  them, and a process belongs to a command that runs it or to one that panicked over it.
- `UndisturbedBuilds`: a lunar tile fails only after a fault, a cancellation or exit.
- `OneLayerGetsWholeFiles`: with at most one layer, whatever is handed out is whole.
  Its hypothesis `OneLayer` is the condition under which the code keeps that promise;
  with more, `gdal_layers` has the counterexample.

They rest on `ThreadsAssumption`, `LunarAssumption`, `GebcoAssumption` and
`BudgetAssumption`.

`RasterBuildProofs` proves for every number of pool threads, tiles and chunks, every
order of jobs and all five engines:

- `TilesKeepTheirPlace`: `Spec => []IInv`. While a job runs, its planned tiles are
  parted among seven places (still waiting, in a thread's hands, in either channel, and
  the three ways to be reported), and `MoveKeepsPlaces` shows once that moving a tile
  from one to another keeps them a partition. That none is left behind at the end
  needs to know when each channel closes: the first when no thread of the pool is
  left, the second when the writer is gone too (`ChannelShape`), and what each stage of
  a job has already emptied (`StageShape`).
- `ReportsStayTrue`: whatever is on its way to a report as built is stored already
  (`ReportShape`), and stored tiles are not taken back.
- `NoFailureIsStored`: while nothing has failed, the chunk of each planned tile's
  centre is asked for before the pool starts and whole once it has (`SourceShape`);
  only the chunks of neighbours may be missing, which is the exception it states.

They rest on `TilesAssumption` and `CasesAssumption`.

`CacheBuildProofs` proves for every file of any number of blobs, every set of ways,
relations, cells and layers, and any order of failures, kills, restarts and newer files:

- `BuildsResume`: `Spec => []IInv`, where `IInv` is `Resumes`, what every build relies on
  when it goes on, and `Completes`, what leads a compact build to its end. `Resumes` is
  proved in three steps, each on the one before. First
  `Shape`, that records have their fields and stages belong to the kind of build that
  runs, with `Scanning`, that a boundary scan has saved, or holds, what it found in front
  of its place: the two need each other, because which scan comes next is read off the
  saved marks. Then `Gathered` with `OffsetCoversOutput`: of the ways a pass has gone by,
  those all its runs asked for are in their files (unless a file lost what it held, `lost`)
  or among what it holds and has still to write, so that none is missing once nothing is
  left to write and the place is saved. Last `Bound` with `OneSource`: what is held, stored or drawn under an index is
  of the file the index is bound to, because each read compares the file before and
  after. `ScansAreWhole` follows from `Scanning` (`WholeScans`). `Completes` goes on from
  there, a conjunct at a time: `Indexing`, that the index has the nodes in front of its
  place and the batch those behind it, so that a complete index has all of them;
  `Bargain`, that all passes of an index were asked for the same layers, so that what one
  promised the next one owes (the binding of settings, `BindBuild`); `Drawing`, that after
  the pass these layers are in their files; `Exact`, that they were drawn from all nodes of
  a way, because no pass starts on an index that is not complete; and for boundaries
  `Dated` (the store of a planet build is never older than its index), `Assembling` (the
  levels below the one being worked on are put together and published) and `Presented`.
- `DoneBuildsAreWhole`: `Spec => []DoneIsWhole`, what "done" promises for every such
  file. The ways it has drawn are in their files as long as no write of a cell file was cut
  short and none was written over because it could not be read (`lost`). That a way has
  all its points and comes from the file of the index is promised
  where only compact builds and imports were asked for: a flat build writes the same cell
  files, from whatever file it has open.
- `NodesStayHeld`: `Spec => []NodesHold`, the node pass's counterpart of
  `OffsetCoversOutput`, for files with any nodes in any order and any number of them.
  What a saved place says of the node file (`NodeFileHolds`), of the candidates of a
  focused build (`CandidatesHold`) and of the index is not inductive: the place is saved
  a step after the nodes are written, and the file sorted two steps before it is marked.
  `Filing` adds what a running build knows: between two saves, that the file is exactly
  what lies in front of its place and the batch what lies behind it up to where it has
  read; between write and save, that the file reaches as far as it has read; before the
  sort, that the file is complete and the place at its end. `Choosing` is the same for
  candidates, `Dates` that nothing is read of a file that was never there. Each is proved
  a stage at a time on top of `IInv` (`FilingStep`, `ChoosingStep`, `DatesStep`). What a
  restart relies on is that the file is cut to the checkpoint, or refused
  (`FilingOpens`): the tail a crash left is not counted twice.
- `PlacesAreBehindOutput`, `GlobalTopologyStays`: `OffsetCoversOutput`, with the same
  exception, and the action
  property `WholeRegionsStay`.

The facts about a file they use (what lies in front of a place is what lies in front of
an earlier one and what lies between, `PlacesInFile`, `NodesLie`) go by sets of blobs.
Levels are gone through in order and none is left out (`LevelOrder`) because a set of
naturals has a least element, which is well-foundedness of `<` (`LeastExists`), and because
there is a highest level, as `PlanetAssumption` says of the fixed list of administrative
levels.

The facts about the node file are facts about sequences of any length, which one would
prove by induction. The library's induction theorems take an operator and cannot be used
here; in their place stands the least counterexample of `LeastExists`. `FlattenIs`
shows that the recursive function behind `FlattenSeq` exists, so that it is what its
equation says, `NodesAhead` what one blob more adds, and `NodesSplit` that the nodes
between two places are those up to a place in the middle followed by those behind it.
`Sorted` is what a sort promises, a reordering of the same nodes (`Reorders`, by
a bijection of positions, so that none is lost or counted twice) in rising order; how
`sort_in_place` gets there (runs, merges, a scratch file) is left out. `SortExists` proves
that every sequence has one, `SortedIs` that `Sorted` is one, and `ReorderingsCompose` and
`ReorderingsExtend` that reordering goes along with what is appended.

Besides `PlanetAssumption` these theorems rest on `CasesAssumption`.
TLC evaluates all assumptions on every run.

Only model-checked:

- The liveness properties (`PendingDrains`, `WindowsFill`, `ShutdownDrains`,
  `StoreHeals`, `RegionFills` and the others with a fairness condition), which like
  ENABLED are out of this prover's reach.

## Not modelled

In `TileBuild`: cooldown lengths and their doubling (a cooldown may end at any
time); the 3DEP availability probe and its memo; the GPU contour path, which has
the same stages; progress entries; coastline import, whose result is ignored. In
`TileRecovery`: coastline tables, schema creation, unreadable headers, archives in
front of the database, batches above the limit of eight. In `LocalRegion`: read
progress and the status derived from it (`contour_loading.rs`), the choice between
the fine and the base cache (`contour_fallback.rs`), contours themselves and their
partition between tiles, a selection that fails and answers with an empty window
until the 350 ms pass, writes of the companion cache builder, which bump no
revision. In `GlobeRegion`: the same, byte sizes and GPU buffers. In `GdalJobs`: the
reuse of process ids by the system, the header file next to the depth grid, and the
three other overviews, which have one caller each. In `OsmJobs`: the building kind,
which always fails, status snapshots for the user interface, a second process on the
same store, and what the files hold. In `CacheBuild`: what a feature looks like, the
clipping of ways to cells, the layers' tags, the packing of published archives. In
`RasterBuild`: Earth tiles without any source file in the GDAL and native engines (they
are not planned and not marked; the GPU engine's are outside `GpuTiles`), the
zoom levels and their order, temporary files, the lists of the inspector, a panic of the
job thread (reported as "worker disconnected"), and `mark_tile_empty` overwriting a tile
that the desktop builds in the same moment.
Elsewhere: every component the inventory lists that has no
module; `PROJECT.json` gives the reason for each.

## What is left

In order of importance:

1. `FollowRecap`, `CameraDirectory`: timed state machines of the UI thread, and a
   refresh worker against changing settings.
2. Bounded operators for pure algorithms: tile ordering, tile ownership, backoff
   arithmetic.
