------------------------------ MODULE RasterBuild ------------------------------
(***************************************************************************)
(* The terrain jobs of the cache builder: contour tiles of Earth by one of *)
(* three engines, of the Moon and of Mars, written to the databases the    *)
(* desktop reads.                                                          *)
(*                                                                         *)
(* A job thread plans the tiles that are missing and hands them to a pool. *)
(* The GDAL engines import each tile from the pool; the native ones send   *)
(* it to a single writer thread.  The job thread reports what was built    *)
(* and ends when the channel of outcomes closes; the app polls the reports.*)
(* The order within a channel tells nothing apart and is left out: a       *)
(* channel is the set of what is in it.                                    *)
(***************************************************************************)
EXTENDS Naturals, FiniteSets

CONSTANTS
    Workers,        \* threads of the pool
    EarthTiles, LunarTiles, MarsTiles,
    Chunks,         \* lunar_source_chunks/: rasters cut out of the SLDEM file
    CentreChunk,    \* the chunk nearest to the centre of a lunar tile
    SampledChunks,  \* the chunks nearest to its points
    CtxTiles,       \* Mars tiles with a CTX DEM near enough to be their source
    FlatTiles,      \* Mars tiles in which there is no line to find
    GpuTiles,       \* Earth tiles the GPU engine can build: they have an SRTM file, a grid
                    \* it supports, and no more segments than fit
    Cases           \* BOUND: the scenes a behaviour may be about

Tiles == EarthTiles \cup LunarTiles \cup MarsTiles
Engines == {"native", "gdal", "gpu", "lunar", "mars"}
NoTile == "no tile"
NoJob == [engine |-> "none", region |-> {}]
Tabs == {"earth", "lunar", "mars"}
TabOf(e) == IF e \in {"native", "gdal", "gpu"} THEN "earth" ELSE e
TilesOf(tab) == CASE tab = "earth" -> EarthTiles [] tab = "lunar" -> LunarTiles
                  [] OTHER -> MarsTiles

ASSUME TilesAssumption ==
    /\ EarthTiles \cap LunarTiles = {} /\ MarsTiles \cap (EarthTiles \cup LunarTiles) = {}
    /\ Tiles \cap {NoTile, "database"} = {} /\ CtxTiles \cup FlatTiles \subseteq MarsTiles
    /\ GpuTiles \subseteq EarthTiles
    /\ CentreChunk \in [LunarTiles -> Chunks]
    /\ SampledChunks \in [LunarTiles -> SUBSET Chunks]
    /\ \A t \in LunarTiles : CentreChunk[t] \in SampledChunks[t]
ASSUME CasesAssumption ==
    \A s \in Cases :
        /\ s.budget \in Nat /\ s.labels \in BOOLEAN
        /\ \A j \in s.requests :
             /\ j \in [engine : Engines, region : SUBSET Tiles]
             /\ j.region \subseteq TilesOf(TabOf(j.engine))

VARIABLES
    stored,     \* rows and lines of a tile, and the engine they are from
    coast,      \* Earth tiles with a row in coastline_tile_manifest
    tagged,     \* the Earth database has the native quality tag
    chunk,      \* the chunk files
    mosaic,     \* mola_megdr.vrt
    run,        \* the job thread, its pool, its writer and their channels
    events,     \* the channel to the app: tiles reported, and how the job ended
    app,        \* active_job, active_job_tab and the outcome shown
    live,       \* the completed tiles the maps of the three tabs show
    scene,      \* the jobs that may be asked for, whether the Earth database is an old one,
                \* MOLA labels are installed; BOUND budget: failures, panics, kills
                \* and what the desktop gets to first
    trouble     \* how much of that budget is used

data == <<stored, coast, tagged, chunk, mosaic>>
shown == <<app, live>>
vars == <<data, run, events, shown, scene, trouble>>

Missing == [what |-> "none", by |-> "none"]
NoRun == [job |-> NoJob, pc |-> "off",
          mola |-> FALSE,                   \* this job has a mosaic to fall back on
          scan |-> {},                      \* tiles or chunks the job thread has still to visit
          copying |-> {},                   \* the chunk being copied into its place
          planned |-> {}, waiting |-> {},   \* work, and what no thread has taken of it
          hand |-> [w \in Workers |-> NoTile], at |-> [w \in Workers |-> "idle"],
          blind |-> {},                     \* chunks that were not whole when the pool started
          writer |-> "off", queue |-> {},   \* tiles on their way to the writer
          outcomes |-> {},                  \* reports on their way to the job thread
          built |-> {}, failed |-> {},      \* those it has passed on
          lost |-> {}]                      \* tiles a panic or a dead writer swallowed
NoResult == [kind |-> "none", planned |-> {}, built |-> {}, failed |-> {}, lost |-> {}]
NoApp == [active |-> FALSE, tab |-> "none", result |-> NoResult]
NoEvents == [built |-> {}, result |-> NoResult]

engine == run.job.engine
Single == engine \in {"native", "lunar"}
at(pc) == run.pc = pc
Works == UNCHANGED <<scene, trouble>>
Fails == trouble < scene.budget /\ trouble' = trouble + 1 /\ UNCHANGED scene
Quiet == UNCHANGED <<events, shown>>

Init ==
    /\ scene \in Cases /\ trouble = 0
    /\ stored = [t \in Tiles |-> IF scene.old /\ t \in EarthTiles
                                 THEN [what |-> "part", by |-> "old"] ELSE Missing]
    /\ coast = {} /\ tagged = FALSE /\ chunk = [c \in Chunks |-> "absent"] /\ mosaic = "absent"
    /\ run = NoRun /\ events = NoEvents
    /\ app = NoApp
    /\ live = [tab \in {"earth", "lunar", "mars"} |-> {}]

Absent(t) == stored[t].what = "none"
Store(t, what) == stored' = [stored EXCEPT ![t] = [what |-> what, by |-> engine]]

--------------------------------------------------------------------------------
(* The app.                                                                *)

Spawn(j, tab) ==
    /\ ~app.active /\ j \in scene.requests /\ Works
    /\ app' = [NoApp EXCEPT !.active = TRUE, !.tab = tab]
    /\ live' = [live EXCEPT ![tab] = {}]
    /\ run' = [NoRun EXCEPT !.job = j, !.pc = "start"]
    /\ events' = NoEvents
    /\ UNCHANGED data
StartContourBuild(j) == j.engine \in {"native", "gdal"} /\ Spawn(j, "earth")
StartLunarBuild(j) == j.engine = "lunar" /\ Spawn(j, "lunar")
StartMarsBuild(j) == j.engine = "mars" /\ Spawn(j, "mars")
\* The GPU engine is asked for on the command line, of a program for this one job.
RunContoursBbox(j) == j.engine = "gpu" /\ Spawn(j, "earth")

\* Everything in the channel, up to the end of the job.
PollJob ==
    /\ app.active /\ events # NoEvents /\ Works
    /\ live' = [live EXCEPT ![app.tab] = @ \cup events.built]
    /\ app' = IF events.result = NoResult THEN app
              ELSE [NoApp EXCEPT !.result = events.result]
    /\ events' = NoEvents
    /\ UNCHANGED <<data, run>>

\* gdalbuildvrt writes mola_megdr.vrt in its place; it is not run where there is one.
MosaicMissing == scene.labels /\ mosaic = "absent"
Mosaics == IF MosaicMissing THEN {"absent", "torn", "whole"} ELSE {mosaic}

\* The window is closed or the program killed: its threads end where they are.
Kill ==
    /\ app.active /\ Fails
    /\ mosaic' \in IF run.pc = "start" /\ engine = "mars" THEN Mosaics ELSE {mosaic}
    /\ run' = NoRun /\ events' = NoEvents
    /\ app' = NoApp
    /\ live' = [tab \in DOMAIN live |-> {}]
    /\ UNCHANGED <<stored, coast, tagged, chunk>>

--------------------------------------------------------------------------------
(* The job thread.                                                         *)

\* Finished, as the last event of a job.
EndLosing(kind, left) ==
    /\ events' = [events EXCEPT !.result =
                    [kind |-> kind, planned |-> run.planned, built |-> run.built,
                     failed |-> run.failed, lost |-> run.lost \cup left]]
    /\ run' = NoRun
    /\ UNCHANGED shown
EndWith(kind) == EndLosing(kind, {})
Abort == at("start") /\ Fails /\ EndWith("failed")

\* An Earth database is tagged while it is empty; an untagged one with tiles in it
\* holds older geometry and is refused.
Initialize ==
    /\ tagged' = (tagged \/ \A t \in EarthTiles : Absent(t))
    /\ UNCHANGED <<stored, coast, chunk, mosaic>>
    /\ Works
    /\ IF tagged'
       THEN run' = [run EXCEPT !.pc = IF engine = "gpu" THEN "gpu" ELSE "plan",
                               !.scan = run.job.region] /\ Quiet
       ELSE EndWith("failed")

\* Sources and programs are looked for, then the database is opened.
PrepareEarth ==
    /\ at("start") /\ engine \in {"native", "gdal", "gpu"}
    /\ Initialize \/ (Abort /\ UNCHANGED data)

PrepareLunar ==
    /\ at("start") /\ engine = "lunar" /\ UNCHANGED data
    /\ \/ Works /\ run' = [run EXCEPT !.pc = "plan", !.scan = run.job.region] /\ Quiet
       \/ Abort

\* ensure_mola_vrt: a mosaic that is there is taken, however it was left; where it
\* cannot be made in time, this job has only CTX.
PlanWith(mola) ==
    IF CtxTiles = {} /\ ~mola THEN EndWith("failed")
    ELSE run' = [run EXCEPT !.pc = "plan", !.scan = run.job.region, !.mola = mola] /\ Quiet
PrepareMars ==
    /\ at("start") /\ engine = "mars" /\ UNCHANGED <<stored, coast, tagged, chunk>>
    /\ \/ /\ mosaic' = IF MosaicMissing THEN "whole" ELSE mosaic
          /\ Works /\ PlanWith(mosaic' # "absent")
       \/ MosaicMissing /\ Fails /\ mosaic' \in {"absent", "torn"} /\ PlanWith(FALSE)
       \/ Abort /\ mosaic' \in Mosaics

Visit(t, planned) ==
    run' = [run EXCEPT !.scan = @ \ {t}, !.planned = @ \cup planned, !.waiting = @ \cup planned]

\* A row in the manifest, whatever it counts, ends the tile.
PlanTile(t) ==
    /\ at("plan") /\ engine \in {"native", "gdal", "lunar"} /\ t \in run.scan /\ Works
    /\ Visit(t, IF Absent(t) THEN {t} ELSE {})
    /\ UNCHANGED data /\ Quiet

PlanMars_Once(t) ==   \* mutant: a tile marked empty is never planned again
    /\ at("plan") /\ engine = "mars" /\ t \in run.scan /\ Works
    /\ LET sourced == t \in CtxTiles \/ run.mola
       IN  /\ Visit(t, IF Absent(t) /\ sourced THEN {t} ELSE {})
           /\ IF Absent(t) /\ ~sourced THEN Store(t, "empty") ELSE UNCHANGED stored
    /\ UNCHANGED <<coast, tagged, chunk, mosaic>> /\ Quiet
\* A row without lines is planned again by a job with a mosaic; a tile that has no
\* source at all is marked empty, as far as the database lets it.
PlanMars(t) ==
    /\ at("plan") /\ engine = "mars" /\ t \in run.scan
    /\ LET known == ~Absent(t) /\ (run.mola => stored[t].what # "empty" /\ t \notin FlatTiles)
           sourced == t \in CtxTiles \/ run.mola
       IN  /\ Visit(t, IF ~known /\ sourced THEN {t} ELSE {})
           /\ IF ~known /\ ~sourced THEN (Works /\ Store(t, "empty")) \/ (Fails /\ UNCHANGED stored)
              ELSE Works /\ UNCHANGED stored
    /\ UNCHANGED <<coast, tagged, chunk, mosaic>> /\ Quiet

\* The chunk of a tile's centre has to be there, as a file.
Needed == {c \in {CentreChunk[t] : t \in run.planned} : chunk[c] = "absent"}

\* The end of the plan: nothing to do, chunks to cut, or the pool starts.
StartPool ==
    /\ run' = [run EXCEPT !.pc = "build", !.scan = {},
                          !.blind = {c \in Chunks : chunk[c] # "whole"},
                          !.writer = IF Single THEN "opening" ELSE "off"]
EndPlan ==
    /\ at("plan") /\ run.scan = {} /\ Works /\ UNCHANGED data
    /\ IF run.planned = {} THEN EndWith("ok")
       ELSE /\ IF engine = "lunar" /\ Needed # {}
               THEN run' = [run EXCEPT !.pc = "cut", !.scan = Needed] ELSE StartPool
            /\ Quiet

\* gdal_translate writes aside; the result is renamed, or else copied into place.
\* A chunk that cannot be had ends the job.
EnsureSourceChunk(c) ==
    /\ at("cut") /\ run.copying = {} /\ c \in run.scan
    /\ UNCHANGED <<stored, coast, tagged, mosaic>>
    /\ \/ /\ chunk' = [chunk EXCEPT ![c] = "whole"]
          /\ run' = [run EXCEPT !.scan = @ \ {c}] /\ Works /\ Quiet
       \/ /\ chunk[c] = "absent" /\ Fails /\ Quiet
          /\ chunk' = [chunk EXCEPT ![c] = "torn"]
          /\ run' = [run EXCEPT !.scan = @ \ {c}, !.copying = {c}]
       \/ chunk[c] = "absent" /\ Fails /\ UNCHANGED chunk /\ EndWith("failed")
CopyChunk(c) ==
    /\ at("cut") /\ c \in run.copying
    /\ UNCHANGED <<stored, coast, tagged, mosaic>>
    /\ \/ /\ chunk' = [chunk EXCEPT ![c] = "whole"]
          /\ run' = [run EXCEPT !.copying = {}] /\ Works /\ Quiet
       \/ Fails /\ UNCHANGED chunk /\ EndWith("failed")
EndCut ==
    /\ at("cut") /\ run.scan \cup run.copying = {} /\ Works
    /\ StartPool /\ UNCHANGED data /\ Quiet

Report(tiles, how, x) ==   \* an outcome sent by a thread that then gives up its tile
    [tiles EXCEPT !.outcomes = @ \cup {[tile |-> x, how |-> how]}]

\* The GPU engine builds and writes on the job thread, which reports no single tile
\* and gives up at the first error: a failed allocation, which disables the worker, or
\* a tile it cannot build, for it looks for no sources beforehand.
BuildBbox(t) ==
    /\ at("gpu") /\ t \in run.scan /\ UNCHANGED <<tagged, chunk, mosaic>>
    /\ \/ /\ Absent(t) /\ t \in GpuTiles /\ Works /\ Store(t, "whole") /\ coast' = coast \cup {t}
          /\ run' = [run EXCEPT !.scan = @ \ {t}, !.planned = @ \cup {t}, !.built = @ \cup {t}]
          /\ Quiet
       \/ /\ ~Absent(t) /\ Works /\ UNCHANGED <<stored, coast>>
          /\ run' = [run EXCEPT !.scan = @ \ {t}] /\ Quiet
       \/ /\ Absent(t) /\ (Fails \/ (t \notin GpuTiles /\ Works))
          /\ UNCHANGED <<stored, coast>> /\ EndWith("failed")
EndBbox == at("gpu") /\ run.scan = {} /\ Works /\ UNCHANGED data /\ EndWith("ok")

InHand == {run.hand[w] : w \in {v \in Workers : run.at[v] # "idle"}}
PoolIdle == run.waiting = {} /\ \A w \in Workers : run.at[w] = "idle"
Closed_WithPool == PoolIdle   \* mutant: the job thread looks at the pool only
\* The last sender of outcomes is gone.
Closed == IF Single THEN run.writer = "gone" ELSE PoolIdle

\* A report is passed on; a tile that was built appears on the map.
Drain(x) ==
    /\ at("build") /\ x \in run.outcomes /\ Works
    /\ run' = [run EXCEPT !.outcomes = @ \ {x},
                          !.built = IF x.how = "built" THEN @ \cup {x.tile} ELSE @,
                          !.failed = IF x.how = "failed" THEN @ \cup {x.tile} ELSE @]
    /\ events' = IF x.how = "built" THEN [events EXCEPT !.built = @ \cup {x.tile}] ELSE events
    /\ UNCHANGED <<data, shown>>
\* Without a writer the pool computes on for nobody, and dies with its last tile.
EndBuild ==
    /\ at("build") /\ run.outcomes = {} /\ Closed /\ Works
    /\ EndLosing("ok", IF run.writer = "gone" THEN run.waiting \cup InHand ELSE {})
    /\ UNCHANGED data

--------------------------------------------------------------------------------
(* The pool and the writer.                                                *)

TakeTile(w, t) ==
    /\ at("build") /\ run.at[w] = "idle" /\ t \in run.waiting /\ Works
    /\ run' = [run EXCEPT !.waiting = @ \ {t}, !.hand[w] = t, !.at[w] = "compute"]
    /\ UNCHANGED data /\ Quiet

Idle(r, w) == [r EXCEPT !.hand[w] = NoTile, !.at[w] = "idle"]
Holds(w, step) == at("build") /\ run.at[w] = step
Tile(w) == run.hand[w]

\* What a tile comes out as when only these of its chunks could be read.  A point
\* without data has no line around it, and a tile without data no line at all.
Outcome(t, read) ==
    IF SampledChunks[t] \subseteq read THEN "whole"
    ELSE IF SampledChunks[t] \cap read = {} THEN "empty" ELSE "part"

\* The sampler of a thread remembers a chunk it could not load.
Sampled(t) ==
    {Outcome(t, {c \in Chunks : chunk[c] = "whole"} \ memo) : memo \in SUBSET run.blind}

\* Nobody may be left to receive the tile: a failed send is ignored.
Hand(w, what) ==
    run' = IF run.writer = "gone"
           THEN [Idle(run, w) EXCEPT !.lost = @ \cup {Tile(w)}]
           ELSE [Idle(run, w) EXCEPT !.queue = @ \cup {[tile |-> Tile(w), what |-> what]}]

\* An SRTM file that cannot be read gives no data, as one that is not there.
BuildTileContours(w) ==
    /\ Holds(w, "compute") /\ engine = "native" /\ UNCHANGED data /\ Quiet
    /\ \/ Works /\ Hand(w, "whole")
       \/ Fails /\ \E what \in {"part", "empty"} : Hand(w, what)
SampleChunks(w) ==
    /\ Holds(w, "compute") /\ engine = "lunar" /\ UNCHANGED data /\ Quiet /\ Works
    /\ \E what \in Sampled(Tile(w)) : Hand(w, what)

WarpAndContour_Unchecked(w) ==   \* mutant: the status of the program is ignored
    /\ Holds(w, "compute") /\ engine \in {"gdal", "mars"} /\ Quiet
    /\ UNCHANGED <<coast, tagged, chunk, mosaic>>
    /\ \/ Works /\ run' = [run EXCEPT !.at[w] = "import"] /\ UNCHANGED stored
       \/ Fails /\ Store(Tile(w), "empty") /\ run' = Report(Idle(run, w), "built", Tile(w))
\* A torn mosaic cannot be read.
SourceTorn(t) == engine = "mars" /\ t \notin CtxTiles /\ mosaic = "torn"
\* gdalwarp and gdal_contour, each with a timeout.
WarpAndContour(w) ==
    /\ Holds(w, "compute") /\ engine \in {"gdal", "mars"} /\ UNCHANGED data /\ Quiet
    /\ \/ Works /\ ~SourceTorn(Tile(w)) /\ run' = [run EXCEPT !.at[w] = "import"]
       \/ /\ Fails \/ (SourceTorn(Tile(w)) /\ Works)
          /\ run' = Report(Idle(run, w), "failed", Tile(w))

\* The lines and the row of a tile in one transaction.
ImportTile(w) ==
    /\ Holds(w, "import") /\ UNCHANGED <<coast, tagged, chunk, mosaic>> /\ Quiet
    /\ \/ /\ Works /\ Store(Tile(w), "whole")
          /\ run' = IF engine = "gdal" THEN [run EXCEPT !.at[w] = "coast"]
                    ELSE Report(Idle(run, w), "built", Tile(w))
       \/ Fails /\ UNCHANGED stored /\ run' = Report(Idle(run, w), "failed", Tile(w))

\* The coastlines follow in a transaction of their own, whose failure is ignored.
ImportCoastline(w) ==
    /\ Holds(w, "coast") /\ UNCHANGED <<stored, tagged, chunk, mosaic>> /\ Quiet
    /\ \/ Works /\ coast' = coast \cup {Tile(w)}
       \/ Fails /\ UNCHANGED coast
    /\ run' = Report(Idle(run, w), "built", Tile(w))

\* A panic takes the tile with it, and tiles of the thread's share not begun yet.
PoolPanics(w) ==
    /\ Holds(w, "compute") /\ Fails /\ UNCHANGED data /\ Quiet
    /\ \E share \in SUBSET run.waiting :
         run' = [Idle(run, w) EXCEPT !.waiting = @ \ share, !.lost = @ \cup share \cup {Tile(w)}]

\* Without its database the writer ends; only the lunar one says so.
WriterOpens ==
    /\ at("build") /\ run.writer = "opening" /\ UNCHANGED data /\ Quiet
    /\ \/ Works /\ run' = [run EXCEPT !.writer = "open"]
       \/ /\ Fails
          /\ LET gone == [run EXCEPT !.writer = "gone", !.queue = {},
                                     !.lost = @ \cup {x.tile : x \in run.queue}]
             IN  run' = IF engine = "lunar" THEN Report(gone, "failed", "database") ELSE gone

WriteTile_Unreported(x) ==   \* mutant: a failed write leaves the loop early
    /\ at("build") /\ run.writer = "open" /\ x \in run.queue
    /\ UNCHANGED <<tagged, chunk, mosaic>> /\ Quiet
    /\ LET rest == [run EXCEPT !.queue = @ \ {x}]
       IN  \/ /\ Works /\ Store(x.tile, x.what) /\ coast' = coast \cup ({x.tile} \cap EarthTiles)
              /\ run' = Report(rest, "built", x.tile)
           \/ Fails /\ UNCHANGED <<stored, coast>> /\ run' = rest
\* write_tile_native: lines, coastlines and both rows in one transaction.
WriteTile(x) ==
    /\ at("build") /\ run.writer = "open" /\ x \in run.queue
    /\ UNCHANGED <<tagged, chunk, mosaic>> /\ Quiet
    /\ LET rest == [run EXCEPT !.queue = @ \ {x}]
       IN  \/ /\ Works /\ Store(x.tile, x.what) /\ coast' = coast \cup ({x.tile} \cap EarthTiles)
              /\ run' = Report(rest, "built", x.tile)
           \/ /\ Fails /\ UNCHANGED <<stored, coast>>
              /\ run' = Report(rest, "failed", x.tile)
WriterEnds ==
    /\ at("build") /\ run.writer = "open" /\ run.queue = {} /\ PoolIdle /\ Works
    /\ run' = [run EXCEPT !.writer = "gone"]
    /\ UNCHANGED data /\ Quiet

--------------------------------------------------------------------------------
(* The desktop, which builds what its user looks at into the same files.   *)

DesktopBuilds(t) ==
    /\ Absent(t) /\ t \in EarthTiles \cup LunarTiles \cup CtxTiles /\ Fails
    /\ stored' = [stored EXCEPT ![t] = [what |-> "whole", by |-> "desktop"]]
    /\ coast' = coast \cup ({t} \cap EarthTiles)
    /\ tagged' = (tagged \/ t \in EarthTiles)
    /\ UNCHANGED <<chunk, mosaic, run, events, shown>>
DesktopCuts(c) ==
    /\ chunk[c] = "absent" /\ Fails
    /\ chunk' = [chunk EXCEPT ![c] = "whole"]
    /\ UNCHANGED <<stored, coast, tagged, mosaic, run, events, shown>>

Start(j) == StartContourBuild(j) \/ StartLunarBuild(j) \/ StartMarsBuild(j) \/ RunContoursBbox(j)
Ask == \E j \in scene.requests : Start(j)
JobThread ==
    \/ PrepareEarth \/ PrepareLunar \/ PrepareMars
    \/ \E t \in Tiles : PlanTile(t) \/ PlanMars(t) \/ BuildBbox(t)
    \/ EndPlan \/ EndCut \/ EndBbox \/ EndBuild
    \/ \E c \in Chunks : EnsureSourceChunk(c) \/ CopyChunk(c)
    \/ \E x \in run.outcomes : Drain(x)
Pool ==
    \E w \in Workers :
        \/ \E t \in Tiles : TakeTile(w, t)
        \/ BuildTileContours(w) \/ SampleChunks(w)
        \/ WarpAndContour(w) \/ ImportTile(w) \/ ImportCoastline(w) \/ PoolPanics(w)
Writer == WriterOpens \/ (\E x \in run.queue : WriteTile(x)) \/ WriterEnds
Desktop == (\E t \in Tiles : DesktopBuilds(t)) \/ (\E c \in Chunks : DesktopCuts(c))

Next == Ask \/ PollJob \/ JobThread \/ Pool \/ Writer \/ Kill \/ Desktop
Spec == Init /\ [][Next]_vars

\* Some thread of the program that can run does (a job is finite, so no more is
\* needed), and the user asks again for what every engine is to build.
Fairness ==
    /\ WF_vars(JobThread \/ Pool \/ Writer \/ PollJob)
    /\ \A e \in Engines : SF_vars(\E j \in scene.requests : j.engine = e /\ Start(j))
FairSpec == Spec /\ Fairness

--------------------------------------------------------------------------------
(* Properties.                                                             *)

Queued == {x.tile : x \in run.queue}
Reported == {x.tile : x \in run.outcomes}
Places == <<run.waiting, InHand, Queued, Reported, run.built, run.failed, run.lost>>

Contents == {"none", "empty", "part", "whole"}
Rows == [what : Contents, by : Engines \cup {"none", "old", "desktop"}]
Queues == SUBSET [tile : Tiles, what : {"empty", "part", "whole"}]
Reports == SUBSET [tile : Tiles \cup {"database"}, how : {"built", "failed"}]
Runs ==
    [job : [engine : Engines, region : SUBSET Tiles] \cup {NoJob},
     pc : {"off", "start", "plan", "cut", "build", "gpu"},
     mola : BOOLEAN, scan : SUBSET (Tiles \cup Chunks), copying : SUBSET Chunks,
     planned : SUBSET Tiles, waiting : SUBSET Tiles,
     hand : [Workers -> Tiles \cup {NoTile}],
     at : [Workers -> {"idle", "compute", "import", "coast"}],
     blind : SUBSET Chunks,
     writer : {"off", "opening", "open", "gone"}, queue : Queues,
     outcomes : Reports,
     built : SUBSET Tiles, failed : SUBSET (Tiles \cup {"database"}), lost : SUBSET Tiles]
Results ==
    [kind : {"none", "ok", "failed"}, planned : SUBSET Tiles, built : SUBSET Tiles,
     failed : SUBSET (Tiles \cup {"database"}), lost : SUBSET Tiles]

TypeOK ==
    /\ stored \in [Tiles -> Rows]
    /\ coast \subseteq EarthTiles /\ tagged \in BOOLEAN
    /\ mosaic \in {"absent", "torn", "whole"} /\ chunk \in [Chunks -> {"absent", "torn", "whole"}]
    /\ run \in Runs
    /\ events \in [built : SUBSET Tiles, result : Results]
    /\ app \in [active : BOOLEAN, tab : Tabs \cup {"none"}, result : Results]
    /\ live \in [Tabs -> SUBSET Tiles]
    /\ scene \in Cases /\ trouble \in 0..scene.budget
    /\ app.active <=> run.pc # "off" \/ events.result # NoResult

\* What a job has begun at each stage of its thread.
Resting ==
    /\ \A w \in Workers : run.at[w] = "idle"
    /\ run.writer = "off" /\ run.queue = {} /\ run.outcomes = {}
    /\ run.failed = {} /\ run.lost = {}
StageShape ==
    /\ at("off") => run = NoRun
    /\ ~at("off") =>
         /\ run.job \in scene.requests /\ run.planned \subseteq run.job.region
         /\ app.tab = TabOf(engine) /\ events.result = NoResult
    /\ run.pc \in {"start", "plan", "cut"} =>
         Resting /\ run.built = {} /\ run.waiting = run.planned
    /\ at("start") => run.planned = {}
    /\ at("gpu") => Resting /\ engine = "gpu" /\ run.waiting = {} /\ run.built = run.planned
    /\ run.pc \in {"plan", "gpu"} => run.scan \subseteq run.job.region
    /\ at("plan") => engine # "gpu"
    /\ at("cut") => engine = "lunar" /\ run.scan \subseteq Chunks
    /\ at("build") => engine # "gpu" /\ (Single <=> run.writer # "off")
    /\ \A w \in Workers : run.at[w] = "idle" <=> run.hand[w] = NoTile
    /\ app.active => app.tab \in Tabs

\* No channel holds a tile twice, only an open one holds any, and the database is
\* reported once, by the writer that could not open it.
ChannelShape ==
    /\ \A x, y \in run.queue : x.tile = y.tile => x = y
    /\ \A x, y \in run.outcomes : x.tile = y.tile => x = y
    /\ run.queue # {} => Single /\ run.writer \in {"opening", "open"}
    /\ "database" \in Reported \cup run.failed => run.writer = "gone"

\* Every planned tile is in exactly one place on its way from the plan to a report:
\* the pool, the writer and two channels neither drop nor double one, unless a panic
\* or a writer without a database swallowed it.  (A lunar writer that cannot open its
\* database reports that instead of a tile.)
TilesHaveAPlace ==
    run.pc \in {"cut", "build", "gpu"} =>
        /\ run.planned = (UNION {Places[i] : i \in DOMAIN Places}) \ {"database"}
        /\ \A i, j \in DOMAIN Places : i # j => Places[i] \cap Places[j] = {}
        /\ \A v, w \in Workers : v # w /\ Tile(v) = Tile(w) => Tile(v) = NoTile

\* A job that ended well has a report for every tile it planned, for the channels
\* close in an order that loses nothing sent; and what the job and the maps of the
\* tabs call built is in the database of that tab.
ReportsAreTrue ==
    /\ \A r \in {events.result, app.result} :
         /\ r.kind = "ok" => r.planned = (r.built \cup r.failed \cup r.lost) \ {"database"}
         /\ \A t \in r.built : ~Absent(t)
    /\ \A tab \in DOMAIN live : \A t \in live[tab] : t \in TilesOf(tab) /\ ~Absent(t)

\* "An error ... must never be committed as an empty successful tile": what the
\* GDAL and GPU engines store is whole, and of a Mars tile what CTX covers.  The
\* native engines take a source they cannot read for one that is not there; but
\* when nothing fails they lack only the lunar points nearer to another chunk than
\* their tile's centre, whose chunk nobody asked for.
FailuresAreNotStored ==
    \A t \in Tiles : stored[t].what \in {"empty", "part"} =>
        /\ stored[t].by \notin {"gdal", "gpu"}
        /\ stored[t].by = "mars" => t \notin CtxTiles
        /\ stored[t].by \in {"native", "lunar"} /\ trouble = 0 =>
              t \in LunarTiles /\ SampledChunks[t] # {CentreChunk[t]}

\* What the two above rest on: a tile is stored before it is reported, the app hears of
\* tiles of the tab it opened for the job, and while nothing has failed the chunk of
\* each centre is asked for before the pool starts, and there once it has.
ReportShape ==
    /\ \A t \in run.built : ~Absent(t)
    /\ \A w \in Workers : run.at[w] = "coast" => Tile(w) \in EarthTiles /\ ~Absent(Tile(w))
    /\ \A x \in run.outcomes : x.how = "built" => x.tile \in Tiles /\ ~Absent(x.tile)
    /\ \A t \in events.built : app.active /\ t \in TilesOf(app.tab) /\ ~Absent(t)
Centred(t) == SampledChunks[t] = {CentreChunk[t]}
SourceShape ==
    trouble = 0 =>
        /\ run.copying = {} /\ \A c \in Chunks : chunk[c] # "torn"
        /\ at("cut") => \A t \in run.planned :
             chunk[CentreChunk[t]] = "absent" => CentreChunk[t] \in run.scan
        /\ at("build") /\ engine = "lunar" => \A t \in run.planned :
             chunk[CentreChunk[t]] = "whole" /\ CentreChunk[t] \notin run.blind
        /\ \A x \in run.queue : x.what # "whole" => x.tile \in LunarTiles /\ ~Centred(x.tile)

IInv ==
    TypeOK /\ StageShape /\ ChannelShape /\ TilesHaveAPlace /\ ReportShape /\ SourceShape

\* A region somebody keeps asking for fills up for good, whatever fails, panics or
\* is killed on the way; what was marked empty for want of a mosaic is filled when
\* there is one.  But an Earth database of older geometry stays as it was, a region
\* asked of the GPU has to wait for other engines to build what that one cannot, and
\* a mosaic that was torn is never made again: tiles without CTX stay as they are.
Elsewhere == UNION {j.region : j \in {x \in scene.requests : x.engine # "gpu"}}
Fillable(j) == j.engine = "gpu" => j.region \subseteq GpuTiles \cup Elsewhere
Asked == (UNION {j.region : j \in {x \in scene.requests : Fillable(x)}})
            \ (IF scene.old THEN EarthTiles ELSE {})
Filled(t) == ~Absent(t) /\ (scene.labels => stored[t].what # "empty")
RegionFills ==
    <>[](\A t \in Asked : Filled(t) \/ (t \in MarsTiles \ CtxTiles /\ mosaic = "torn"))

=============================================================================
