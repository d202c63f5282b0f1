--------------------------- MODULE RasterBuildProofs ---------------------------
(***************************************************************************)
(* The safety of the terrain jobs of the cache builder, for any threads,   *)
(* tiles, chunks, scenes and failures: no tile is dropped or doubled on    *)
(* its way through pool, writer and channels, reports are true, and no     *)
(* engine stores a failure for a tile.                                     *)
(***************************************************************************)
EXTENDS RasterBuild, TLAPS

Safe == IInv /\ ReportsAreTrue /\ FailuresAreNotStored

\* What no step takes back: rows that are there, chunks that are there or whole,
\* and that something has failed.
Later == scene' = scene /\ trouble' \in 0..scene.budget /\ (trouble' = 0 => trouble = 0)
DataStep ==
    /\ stored' \in [Tiles -> Rows] /\ chunk' \in [Chunks -> {"absent", "torn", "whole"}]
    /\ coast' \subseteq EarthTiles /\ tagged' \in BOOLEAN /\ mosaic' \in {"absent", "torn", "whole"}
    /\ \A t \in Tiles : ~Absent(t) => ~Absent(t)'
    /\ \A c \in Chunks : /\ chunk[c] # "absent" => chunk'[c] # "absent"
                         /\ chunk[c] = "whole" => chunk'[c] = "whole"
    /\ FailuresAreNotStored'
    /\ trouble' = 0 => \A c \in Chunks : chunk'[c] # "torn"

\* Every engine builds for one tab, the tiles of which are tiles.
LEMMA TabsAre ==
    /\ \A e \in Engines : TabOf(e) \in Tabs
    /\ \A tab \in Tabs : TilesOf(tab) \subseteq Tiles
    /\ \A e \in Engines : e # "none"
BY DEF TabOf, Tabs, TilesOf, Tiles, Engines

\* The blank records are of their types.
LEMMA BlankRecords ==
    /\ NoRun \in Runs /\ NoResult \in Results
    /\ NoEvents \in [built : SUBSET Tiles, result : Results]
    /\ NoApp \in [active : BOOLEAN, tab : Tabs \cup {"none"}, result : Results]
<1>1. NoRun \in Runs
    BY DEF NoRun, Runs, NoJob, Queues, Reports
<1>2. NoResult \in Results
    BY DEF NoResult, Results
<1> QED
    BY <1>1, <1>2 DEF NoEvents, NoApp

\* Time passes, whether or not something fails.
LEMMA TimePasses ==
    ASSUME TypeOK, Works \/ Fails
    PROVE  Later /\ scene.budget \in Nat /\ trouble \in Nat /\ (Fails => trouble' > 0)
<1>1. scene.budget \in Nat /\ trouble \in 0..scene.budget
    BY CasesAssumption DEF TypeOK
<1> QED
    BY <1>1 DEF Later, Works, Fails

\* A failure that is stored stays excused when something more fails.
LEMMA DataStays ==
    ASSUME Safe, Later, UNCHANGED data
    PROVE  DataStep
<1>1. FailuresAreNotStored'
    BY DEF Safe, FailuresAreNotStored, Later, data
<1> QED
    BY <1>1 DEF Safe, IInv, TypeOK, DataStep, data, Absent, SourceShape, Later

\* Nothing stored depends on what becomes of the mosaic.
LEMMA MosaicChanges ==
    ASSUME Safe, Later, UNCHANGED <<stored, coast, tagged, chunk>>, mosaic' \in Mosaics
    PROVE  DataStep
<1>1. mosaic' \in {"absent", "torn", "whole"}
    BY DEF Safe, IInv, TypeOK, Mosaics
<1>2. FailuresAreNotStored'
    BY DEF Safe, FailuresAreNotStored, Later
<1> QED
    BY <1>1, <1>2 DEF Safe, IInv, TypeOK, DataStep, Absent, SourceShape, Later

\* The same, when a row is written that is whole, or that is excused.
LEMMA RowStored ==
    ASSUME Safe, Later, NEW t \in Tiles, NEW what \in {"empty", "part", "whole"},
           NEW by \in Engines \cup {"desktop"},
           stored' = [stored EXCEPT ![t] = [what |-> what, by |-> by]],
           UNCHANGED chunk, coast' \subseteq EarthTiles, tagged' \in BOOLEAN,
           mosaic' \in {"absent", "torn", "whole"},
           what # "whole" =>
             /\ by \notin {"gdal", "gpu"} /\ (by = "mars" => t \notin CtxTiles)
             /\ by \in {"native", "lunar"} /\ trouble' = 0 =>
                  t \in LunarTiles /\ SampledChunks[t] # {CentreChunk[t]}
    PROVE  DataStep
<1> DEFINE new == [what |-> what, by |-> by]
<1>1. new \in Rows /\ new.what = what /\ new.by = by
    BY DEF Rows, Contents
<1>2. stored' = [stored EXCEPT ![t] = new] /\ stored \in [Tiles -> Rows]
    BY DEF Safe, IInv, TypeOK
<1> HIDE DEF new
<1>3. /\ stored' \in [Tiles -> Rows] /\ stored'[t] = new
      /\ \A u \in Tiles \ {t} : stored'[u] = stored[u]
    BY <1>1, <1>2
<1>4. \A u \in Tiles : ~Absent(u) => ~Absent(u)'
    BY <1>1, <1>3 DEF Absent
<1>5. FailuresAreNotStored'
    <2>1. ASSUME NEW u \in Tiles \ {t}, stored'[u].what \in {"empty", "part"}
          PROVE  /\ stored'[u].by \notin {"gdal", "gpu"}
                 /\ stored'[u].by = "mars" => u \notin CtxTiles
                 /\ stored'[u].by \in {"native", "lunar"} /\ trouble' = 0 =>
                      u \in LunarTiles /\ SampledChunks[u] # {CentreChunk[u]}
        BY <1>3, <2>1 DEF Safe, FailuresAreNotStored, Later
    <2> QED
        BY <1>1, <1>3, <2>1 DEF FailuresAreNotStored
<1> QED
    BY <1>3, <1>4, <1>5 DEF Safe, IInv, TypeOK, DataStep, SourceShape, Later

\* A chunk is cut; it is torn only if that failed.
LEMMA ChunkCut ==
    ASSUME Safe, Later, NEW c \in Chunks, NEW x \in {"torn", "whole"},
           chunk' = [chunk EXCEPT ![c] = x], UNCHANGED <<stored, coast, tagged, mosaic>>,
           x = "torn" => chunk[c] = "absent" /\ trouble' > 0
    PROVE  DataStep
<1>1. FailuresAreNotStored'
    BY DEF Safe, FailuresAreNotStored, Later
<1>2. /\ chunk \in [Chunks -> {"absent", "torn", "whole"}]
      /\ trouble' = 0 => \A d \in Chunks : chunk[d] # "torn"
    BY DEF Safe, IInv, TypeOK, SourceShape, Later
<1>3. /\ chunk' \in [Chunks -> {"absent", "torn", "whole"}] /\ chunk'[c] = x
      /\ \A d \in Chunks \ {c} : chunk'[d] = chunk[d]
    BY <1>2
<1>4. trouble' = 0 => x # "torn"
    OBVIOUS
<1>5. trouble' = 0 => \A d \in Chunks : chunk'[d] # "torn"
    BY <1>2, <1>3, <1>4
<1> QED
    BY <1>1, <1>3, <1>5 DEF DataStep, Safe, IInv, TypeOK, Absent

\* A job plans tiles of its region, which are tiles of its tab.
LEMMA PlannedTiles ==
    ASSUME Safe, ~at("off")
    PROVE  /\ engine \in Engines /\ run.job.region \subseteq TilesOf(TabOf(engine))
           /\ run.planned \subseteq TilesOf(TabOf(engine)) /\ run.planned \subseteq Tiles
           /\ run.job.region \subseteq Tiles
           /\ engine = "lunar" => \A t \in run.planned : t \in LunarTiles /\ CentreChunk[t] \in Chunks
<1>1. run.job \in scene.requests /\ scene \in Cases /\ run.planned \subseteq run.job.region
    BY DEF Safe, IInv, TypeOK, StageShape
<1>2. engine \in Engines /\ run.job.region \subseteq Tiles /\ run.job.region \subseteq TilesOf(TabOf(engine))
    BY <1>1, CasesAssumption DEF engine
<1>3. engine = "lunar" => TilesOf(TabOf(engine)) = LunarTiles
    BY DEF TabOf, TilesOf
<1> QED
    BY <1>1, <1>2, <1>3, TilesAssumption

-----------------------------------------------------------------------------
(* Reports.                                                                *)

\* Reports stay true while rows are only added, and what a step says it has built
\* is there.
LEMMA ReportsKept ==
    ASSUME Safe, Quiet, DataStep,
           app.active,
           run' \in Runs,
           \A t \in run'.built : ~Absent(t)',
           \A w \in Workers : run'.at[w] = "coast" =>
             run'.hand[w] \in EarthTiles /\ stored'[run'.hand[w]].what # "none",
           \A x \in run'.outcomes : x.how = "built" => x.tile \in Tiles /\ ~Absent(x.tile)'
    PROVE  ReportShape' /\ ReportsAreTrue'
<1>1. UNCHANGED <<events, app, live>>
    BY DEF Quiet, shown
<1>2. /\ events.result \in Results /\ app.result \in Results /\ events.built \subseteq Tiles
      /\ live \in [Tabs -> SUBSET Tiles] /\ DOMAIN live = Tabs
    BY DEF Safe, IInv, TypeOK
<1>3. \A r \in {events.result, app.result} : r.built \subseteq Tiles
    BY <1>2 DEF Results
<1>4. ReportsAreTrue'
    BY <1>1, <1>2, <1>3 DEF Safe, ReportsAreTrue, DataStep
<1>5. ReportShape'
    BY <1>1, <1>2 DEF Safe, IInv, ReportShape, DataStep, Tile, Absent
<1> QED
    BY <1>4, <1>5

\* The end of a job: what it reports is true if every tile is accounted for.
LEMMA EndKeeps ==
    ASSUME Safe, Later, DataStep, ~at("off"),
           NEW kind \in {"ok", "failed"}, NEW left \in SUBSET Tiles, EndLosing(kind, left),
           kind = "ok" => run.planned = (run.built \cup run.failed \cup (run.lost \cup left)) \ {"database"}
    PROVE  Safe'
<1> DEFINE r == [kind |-> kind, planned |-> run.planned, built |-> run.built,
                 failed |-> run.failed, lost |-> run.lost \cup left]
<1> USE DEF Safe
<1>1. run \in Runs /\ events \in [built : SUBSET Tiles, result : Results]
    BY DEF IInv, TypeOK
<1>2. r \in Results /\ r # NoResult
    BY <1>1 DEF Results, Runs, NoResult
<1>3. events' = [events EXCEPT !.result = r] /\ run' = NoRun /\ UNCHANGED <<app, live>>
    BY DEF EndLosing, shown
<1>4. r.kind = "ok" => r.planned = (r.built \cup r.failed \cup r.lost) \ {"database"}
    OBVIOUS
<1>5. \A t \in r.built : t \in Tiles /\ ~Absent(t)'
    BY <1>1 DEF IInv, ReportShape, DataStep, Runs
<1> HIDE DEF r
<1>6. /\ events' \in [built : SUBSET Tiles, result : Results]
      /\ events'.result = r /\ events'.built = events.built
    BY <1>1, <1>2, <1>3
<1>7. app.active
    BY DEF IInv, TypeOK, at
<1>8. run'.pc = "off" /\ run' \in Runs
    BY <1>3, BlankRecords DEF NoRun
<1>9. TypeOK'
    BY <1>2, <1>3, <1>6, <1>7, <1>8 DEF IInv, TypeOK, DataStep, Later
<1>10. StageShape' /\ ChannelShape' /\ TilesHaveAPlace'
    <2>1. run'.pc = "off" /\ run' = NoRun /\ app' = app
        BY <1>3, <1>8
    <2>2. /\ \A w \in Workers : NoRun.at[w] = "idle" /\ NoRun.hand[w] = NoTile
          /\ NoRun.queue = {} /\ NoRun.outcomes = {} /\ NoRun.failed = {}
        BY DEF NoRun
    <2>3. StageShape'
        BY <2>1, <2>2 DEF IInv, StageShape, at
    <2>4. ChannelShape'
        BY <2>1, <2>2 DEF ChannelShape, Reported
    <2> QED
        BY <2>1, <2>3, <2>4 DEF TilesHaveAPlace
<1>11. ReportShape'
    <2>1. \A t \in events.built : app.active /\ t \in TilesOf(app.tab) /\ ~Absent(t) /\ t \in Tiles
        BY <1>1 DEF IInv, ReportShape
    <2> QED
        BY <1>3, <1>6, <2>1 DEF ReportShape, DataStep, NoRun
<1>12. SourceShape'
    BY <1>3 DEF SourceShape, DataStep, NoRun
<1>13. ReportsAreTrue'
    <2>1. app.result \in Results /\ live \in [Tabs -> SUBSET Tiles]
        BY DEF IInv, TypeOK
    <2>2. app.result.built \subseteq Tiles
        BY <2>1 DEF Results
    <2> QED
        BY <1>3, <1>4, <1>5, <1>6, <2>1, <2>2 DEF ReportsAreTrue, DataStep
<1> QED
    BY <1>9, <1>10, <1>11, <1>12, <1>13 DEF DataStep, IInv

-----------------------------------------------------------------------------
(* The app and the desktop.                                                *)

\* A spawned job begins with nothing planned.
LEMMA SpawnStep ==
    ASSUME Safe, NEW j, NEW tab, Spawn(j, tab), tab = TabOf(j.engine)
    PROVE  Safe'
<1> USE DEF Safe
<1> DEFINE newRun == [NoRun EXCEPT !.job = j, !.pc = "start"]
           newApp == [NoApp EXCEPT !.active = TRUE, !.tab = tab]
<1>1. /\ ~app.active /\ j \in scene.requests /\ Works /\ UNCHANGED data
      /\ app' = newApp /\ run' = newRun /\ events' = NoEvents
      /\ live' = [live EXCEPT ![tab] = {}]
    BY DEF Spawn
<1>2. Later /\ DataStep
    BY <1>1, TimePasses, DataStays DEF IInv
<1>3. j \in [engine : Engines, region : SUBSET Tiles] /\ tab \in Tabs /\ j.engine # "none"
    BY <1>1, CasesAssumption, TabsAre DEF IInv, TypeOK
<1>4. /\ newRun \in Runs /\ newRun.pc = "start" /\ newRun.job = j
      /\ newRun.planned = {} /\ newRun.waiting = {} /\ newRun.built = {} /\ newRun.outcomes = {}
      /\ newRun.queue = {} /\ newRun.failed = {} /\ newRun.lost = {} /\ newRun.writer = "off"
      /\ newRun.copying = {}
      /\ \A w \in Workers : newRun.at[w] = "idle" /\ newRun.hand[w] = NoTile
    BY <1>3, BlankRecords DEF NoRun, Runs
<1>5. /\ newApp \in [active : BOOLEAN, tab : Tabs \cup {"none"}, result : Results]
      /\ newApp.active /\ newApp.tab = tab /\ newApp.result = NoResult
    BY <1>3, BlankRecords DEF NoApp
<1> HIDE DEF newRun, newApp
<1>6. live' \in [Tabs -> SUBSET Tiles] /\ \A u \in Tabs : live'[u] \subseteq live[u]
    BY <1>1, <1>3 DEF IInv, TypeOK
<1>7. TypeOK'
    BY <1>1, <1>2, <1>4, <1>5, <1>6, BlankRecords DEF IInv, TypeOK, DataStep, Later
<1>8. StageShape'
    <2>1. NoEvents.result = NoResult
        BY DEF NoEvents
    <2> QED
        BY <1>1, <1>2, <1>3, <1>4, <1>5, <2>1 DEF StageShape, Resting, at, engine, Later
<1>9. ChannelShape' /\ TilesHaveAPlace'
    BY <1>1, <1>4 DEF ChannelShape, TilesHaveAPlace, Reported
<1>10. ReportShape' /\ SourceShape'
    BY <1>1, <1>2, <1>4 DEF ReportShape, SourceShape, NoEvents, DataStep, at
<1>11. ReportsAreTrue'
    <2>1. NoResult.built = {} /\ NoResult.kind # "ok" /\ NoEvents.result = NoResult
        BY DEF NoResult, NoEvents
    <2>2. \A u \in Tabs : \A t \in live[u] : t \in Tiles /\ t \in TilesOf(u) /\ ~Absent(t)
        BY DEF IInv, TypeOK, ReportsAreTrue
    <2> QED
        BY <1>1, <1>2, <1>5, <1>6, <2>1, <2>2 DEF ReportsAreTrue, DataStep
<1> QED
    BY <1>2, <1>7, <1>8, <1>9, <1>10, <1>11 DEF IInv, DataStep

\* Each of the three start buttons spawns a job, and so does the command line.
LEMMA StartStep ==
    ASSUME Safe, NEW j, Start(j)
    PROVE  Safe'
BY SpawnStep DEF Start, StartContourBuild, StartLunarBuild, StartMarsBuild, RunContoursBbox, TabOf

\* The app hears of what was built since it last looked, and perhaps of the end.
LEMMA PollJobStep ==
    ASSUME Safe, PollJob
    PROVE  Safe'
<1> USE DEF Safe
<1> DEFINE tab == app.tab
           ended == [NoApp EXCEPT !.result = events.result]
<1>1. /\ app.active /\ Works /\ events' = NoEvents /\ UNCHANGED <<data, run>>
      /\ live' = [live EXCEPT ![tab] = @ \cup events.built]
      /\ app' = IF events.result = NoResult THEN app ELSE ended
    BY DEF PollJob
<1>2. Later /\ DataStep
    BY <1>1, TimePasses, DataStays DEF IInv
<1>3. /\ app \in [active : BOOLEAN, tab : Tabs \cup {"none"}, result : Results]
      /\ events \in [built : SUBSET Tiles, result : Results] /\ run \in Runs
      /\ live \in [Tabs -> SUBSET Tiles] /\ tab \in Tabs
    BY <1>1 DEF IInv, TypeOK, StageShape
<1>4. /\ ended \in [active : BOOLEAN, tab : Tabs \cup {"none"}, result : Results]
      /\ ended.result = events.result /\ ended.active = FALSE
    BY <1>3, BlankRecords DEF NoApp
<1>5. NoEvents.result = NoResult /\ NoEvents.built = {}
    BY DEF NoEvents
<1>6. events.result = NoResult => app' = app /\ run.pc # "off"
    BY <1>1 DEF IInv, TypeOK
<1>7. events.result # NoResult => app' = ended /\ run.pc = "off"
    BY <1>1 DEF IInv, StageShape, at
<1> HIDE DEF ended
<1>8. TypeOK'
    <2>1. live' \in [Tabs -> SUBSET Tiles]
        BY <1>1, <1>3
    <2>2. app' \in [active : BOOLEAN, tab : Tabs \cup {"none"}, result : Results]
        BY <1>3, <1>4, <1>6, <1>7
    <2>3. app'.active <=> run'.pc # "off" \/ events'.result # NoResult
        BY <1>1, <1>4, <1>5, <1>6, <1>7
    <2> QED
        BY <1>1, <1>2, <2>1, <2>2, <2>3, BlankRecords DEF IInv, TypeOK, DataStep, Later
<1>9. StageShape'
    <2>1. CASE events.result = NoResult
        BY <1>1, <1>2, <1>5, <1>6, <2>1 DEF IInv, StageShape, Resting, at, engine, Single, Later
    <2>2. CASE events.result # NoResult
        BY <1>1, <1>2, <1>4, <1>7, <2>2 DEF IInv, StageShape, Resting, at, engine, Single, Later
    <2> QED
        BY <2>1, <2>2
<1>10. ChannelShape' /\ TilesHaveAPlace'
    BY <1>1 DEF IInv, ChannelShape, TilesHaveAPlace, Reported, Places, InHand, Queued, Tile, engine, Single
<1>11. ReportShape'
    <2>1. \A w \in Workers : run.at[w] = "coast" => Tile(w)' \in EarthTiles /\ ~Absent(Tile(w))'
        BY <1>1 DEF IInv, ReportShape, Tile, Absent, data
    <2> QED
        BY <1>1, <1>2, <1>3, <1>5, <2>1 DEF IInv, ReportShape, DataStep, Runs
<1>12. SourceShape'
    BY <1>1, <1>2 DEF IInv, SourceShape, Later, data, at, engine
<1>13. ReportsAreTrue'
    <2>1. app'.result \in {app.result, events.result} /\ events'.result = NoResult
        BY <1>1, <1>4, <1>5
    <2>2. \A r \in {app.result, events.result, NoResult} :
             /\ r.kind = "ok" => r.planned = (r.built \cup r.failed \cup r.lost) \ {"database"}
             /\ \A t \in r.built : t \in Tiles /\ ~Absent(t)
        <3>1. NoResult.kind # "ok" /\ NoResult.built = {}
            BY DEF NoResult
        <3>2. app.result.built \subseteq Tiles /\ events.result.built \subseteq Tiles
            BY <1>3 DEF Results
        <3> QED
            BY <3>1, <3>2 DEF ReportsAreTrue
    <2>3. \A u \in Tabs : \A t \in live'[u] : t \in Tiles /\ t \in TilesOf(u) /\ ~Absent(t)
        <3>1. \A t \in events.built : t \in Tiles /\ t \in TilesOf(tab) /\ ~Absent(t)
            BY <1>3 DEF IInv, ReportShape
        <3>2. \A u \in Tabs : \A t \in live[u] : t \in Tiles /\ t \in TilesOf(u) /\ ~Absent(t)
            BY <1>3 DEF ReportsAreTrue
        <3> QED
            BY <1>1, <1>3, <3>1, <3>2
    <2>4. DOMAIN live' = Tabs
        BY <1>1, <1>3
    <2> QED
        BY <1>2, <2>1, <2>2, <2>3, <2>4 DEF ReportsAreTrue, DataStep
<1> QED
    BY <1>2, <1>8, <1>9, <1>10, <1>11, <1>12, <1>13 DEF IInv, DataStep

\* A killed program leaves only what it stored.
LEMMA KillStep ==
    ASSUME Safe, Kill
    PROVE  Safe'
<1> USE DEF Safe
<1>1. /\ Fails /\ UNCHANGED <<stored, coast, tagged, chunk>> /\ mosaic' \in Mosaics
      /\ run' = NoRun /\ events' = NoEvents /\ app' = NoApp
      /\ live' = [tab \in Tabs |-> {}]
    BY DEF Kill, IInv, TypeOK, Mosaics
<1>2. Later /\ DataStep
    BY <1>1, TimePasses, MosaicChanges DEF IInv
<1>3. /\ NoRun.pc = "off" /\ NoRun.queue = {} /\ NoRun.outcomes = {} /\ NoRun.failed = {}
      /\ NoRun.built = {} /\ NoRun.copying = {}
      /\ \A w \in Workers : NoRun.at[w] = "idle" /\ NoRun.hand[w] = NoTile
      /\ NoEvents.built = {} /\ NoEvents.result = NoResult
      /\ NoApp.active = FALSE /\ NoApp.result = NoResult
      /\ NoResult.built = {} /\ NoResult.kind # "ok"
    BY DEF NoRun, NoEvents, NoApp, NoResult
<1>4. live' \in [Tabs -> SUBSET Tiles] /\ \A u \in Tabs : live'[u] = {}
    BY <1>1
<1>5. TypeOK'
    BY <1>1, <1>2, <1>3, <1>4, BlankRecords DEF IInv, TypeOK, DataStep, Later
<1>6. StageShape'
    BY <1>1, <1>3 DEF StageShape, at
<1>7. ChannelShape' /\ TilesHaveAPlace'
    BY <1>1, <1>3 DEF ChannelShape, TilesHaveAPlace, Reported
<1>8. ReportShape' /\ SourceShape'
    BY <1>1, <1>2, <1>3 DEF ReportShape, SourceShape, DataStep, at
<1>9. ReportsAreTrue'
    BY <1>1, <1>3, <1>4 DEF ReportsAreTrue
<1> QED
    BY <1>2, <1>5, <1>6, <1>7, <1>8, <1>9 DEF IInv, DataStep

\* What the desktop does to the files is no business of a job's.
LEMMA FilesChange ==
    ASSUME Safe, Later, DataStep, UNCHANGED <<run, events, app, live>>
    PROVE  Safe'
<1> USE DEF Safe
<1>0. /\ app' \in [active : BOOLEAN, tab : Tabs \cup {"none"}, result : Results]
      /\ app'.active = app.active /\ app'.tab = app.tab /\ app'.result = app.result
    BY DEF IInv, TypeOK
<1>1. TypeOK'
    BY <1>0 DEF IInv, TypeOK, DataStep, Later
<1>2. StageShape'
    BY <1>0 DEF IInv, StageShape, Resting, at, engine, Single, Later
<1>3. ChannelShape' /\ TilesHaveAPlace'
    BY DEF IInv, ChannelShape, TilesHaveAPlace, Reported, Places, InHand, Queued, Tile, engine, Single
<1>4. ReportShape'
    <2>1. run.built \subseteq Tiles /\ events.built \subseteq Tiles
        BY DEF IInv, TypeOK, Runs
    <2>2. ASSUME NEW w \in Workers, run.at[w] = "coast"
          PROVE  Tile(w)' \in EarthTiles /\ ~Absent(Tile(w))'
        <3>1. Tile(w) \in EarthTiles /\ Tile(w) \in Tiles /\ ~Absent(Tile(w))
            BY <2>2 DEF IInv, TypeOK, Runs, StageShape, ReportShape, Tile
        <3> QED
            BY <3>1 DEF DataStep, Tile, Absent
    <2> QED
        BY <1>0, <2>1, <2>2 DEF IInv, ReportShape, DataStep
<1>5. SourceShape'
    <2>1. engine = "lunar" /\ ~at("off") => \A t \in run.planned : CentreChunk[t] \in Chunks
        BY PlannedTiles
    <2>2. at("cut") => engine = "lunar"
        BY DEF IInv, StageShape
    <2> QED
        BY <2>1, <2>2 DEF IInv, SourceShape, DataStep, Later, at, engine
<1>6. ReportsAreTrue'
    <2>1. /\ app.result.built \subseteq Tiles /\ events.result.built \subseteq Tiles
          /\ DOMAIN live = Tabs /\ \A u \in Tabs : live[u] \subseteq Tiles
        BY DEF IInv, TypeOK, Results
    <2> QED
        BY <1>0, <2>1 DEF ReportsAreTrue, DataStep
<1> QED
    BY <1>1, <1>2, <1>3, <1>4, <1>5, <1>6 DEF IInv, DataStep

\* The desktop only adds tiles and chunks to the files.
LEMMA DesktopStep ==
    ASSUME Safe, Desktop
    PROVE  Safe'
<1>1. ASSUME NEW t \in Tiles, DesktopBuilds(t)
      PROVE  Safe'
    <2>1. Later /\ trouble' > 0 /\ UNCHANGED <<run, events, app, live>>
        BY <1>1, TimePasses DEF DesktopBuilds, Safe, IInv, shown
    <2>2. tagged' \in BOOLEAN /\ coast' \subseteq EarthTiles /\ UNCHANGED <<chunk, mosaic>>
        BY <1>1 DEF DesktopBuilds, Safe, IInv, TypeOK
    <2>3. DataStep
        BY <1>1, <2>1, <2>2, RowStored DEF DesktopBuilds, Safe, IInv, TypeOK
    <2> QED
        BY <2>1, <2>3, FilesChange
<1>2. ASSUME NEW c \in Chunks, DesktopCuts(c)
      PROVE  Safe'
    <2>1. /\ Later /\ trouble' > 0 /\ UNCHANGED <<run, events, app, live, stored, coast, tagged, mosaic>>
          /\ chunk' = [chunk EXCEPT ![c] = "whole"]
        BY <1>2, TimePasses DEF DesktopCuts, Safe, IInv, shown
    <2>2. DataStep
        BY <2>1, ChunkCut
    <2> QED
        BY <2>1, <2>2, FilesChange
<1> QED
    BY <1>1, <1>2 DEF Desktop

-----------------------------------------------------------------------------
(* The places of a tile.                                                   *)

\* Places 1 to 7 hold every planned tile, each tile in one of them.
Slots == 1..7
Partition(P, U) ==
    /\ U = (UNION {P[i] : i \in Slots}) \ {"database"}
    /\ \A i, j \in Slots : i # j => P[i] \cap P[j] = {}
Unique == \A v, w \in Workers : v # w /\ Tile(v) = Tile(w) => Tile(v) = NoTile

\* The seven places of a planned tile.
LEMMA PlacesAre ==
    /\ DOMAIN Places = Slots
    /\ Places[1] = run.waiting /\ Places[2] = InHand /\ Places[3] = Queued
    /\ Places[4] = Reported /\ Places[5] = run.built /\ Places[6] = run.failed
    /\ Places[7] = run.lost
BY DEF Places, Slots

\* The same after a step.
LEMMA PlacesAreNext ==
    /\ DOMAIN Places' = Slots
    /\ Places'[1] = run'.waiting /\ Places'[2] = InHand' /\ Places'[3] = Queued'
    /\ Places'[4] = Reported' /\ Places'[5] = run'.built /\ Places'[6] = run'.failed
    /\ Places'[7] = run'.lost
BY DEF Places, Slots

\* What it means that every planned tile has one place, before and after a step.
LEMMA TilesPlaced ==
    /\ TilesHaveAPlace <=>
         (run.pc \in {"cut", "build", "gpu"} => Partition(Places, run.planned) /\ Unique)
    /\ TilesHaveAPlace' <=>
         (run'.pc \in {"cut", "build", "gpu"} => Partition(Places', run'.planned) /\ Unique')
BY PlacesAre, PlacesAreNext DEF TilesHaveAPlace, Partition, Unique

\* Tiles that go from one place to another stay in one place.
LEMMA MoveKeepsPartition ==
    ASSUME NEW P, NEW Q, NEW U, NEW X, NEW i \in Slots, NEW j \in Slots, i # j,
           Partition(P, U), X \subseteq P[i], Q[i] = P[i] \ X, Q[j] = P[j] \cup X,
           \A k \in Slots \ {i, j} : Q[k] = P[k]
    PROVE  Partition(Q, U)
<1>1. \A k \in Slots : \A x : x \in Q[k] <=> IF k = i THEN x \in P[k] /\ x \notin X
                                         ELSE x \in P[k] \/ (k = j /\ x \in X)
    OBVIOUS
<1>2. \A x : (\E k \in Slots : x \in Q[k]) <=> (\E k \in Slots : x \in P[k])
    <2> SUFFICES ASSUME NEW x
                 PROVE  (\E k \in Slots : x \in Q[k]) <=> (\E k \in Slots : x \in P[k])
        OBVIOUS
    <2>1. ASSUME NEW k \in Slots, x \in Q[k]
          PROVE  \E l \in Slots : x \in P[l]
        BY <1>1, <2>1
    <2>2. ASSUME NEW k \in Slots, x \in P[k]
          PROVE  \E l \in Slots : x \in Q[l]
        BY <1>1, <2>2
    <2> QED
        BY <2>1, <2>2
<1>3. ASSUME NEW k \in Slots, NEW l \in Slots, k # l, NEW x, x \in Q[k], x \in Q[l]
      PROVE  FALSE
    BY <1>1, <1>3 DEF Partition
<1> QED
    BY <1>2, <1>3 DEF Partition

\* The same of the places of a state and the next.
Moved(X, i, j) ==
    /\ X \subseteq Places[i] /\ Places'[i] = Places[i] \ X /\ Places'[j] = Places[j] \cup X
    /\ \A k \in Slots \ {i, j} : Places'[k] = Places[k]

\* Tiles moved from one place to another keep the places a partition.
LEMMA MoveKeepsPlaces ==
    ASSUME Partition(Places, run.planned), NEW X, NEW i \in Slots, NEW j \in Slots, i # j, Moved(X, i, j)
    PROVE  Partition(Places', run.planned)
<1> DEFINE P == Places
           Q == Places'
           U == run.planned
<1>1. /\ Partition(P, U) /\ X \subseteq P[i] /\ Q[i] = P[i] \ X /\ Q[j] = P[j] \cup X
      /\ \A k \in Slots \ {i, j} : Q[k] = P[k]
    BY DEF Moved
<1> HIDE DEF P, Q, U
<1>2. Partition(Q, U)
    BY ONLY <1>1, i \in Slots, j \in Slots, i # j, MoveKeepsPartition
<1> QED
    BY <1>2 DEF Q, U

\* There are seven places.
LEMMA SlotsAre == \A k : k \in Slots <=> k \in {1, 2, 3, 4, 5, 6, 7}
BY DEF Slots

\* Tiles of two places are lost.
LEMMA LossKeepsPlaces ==
    ASSUME Partition(Places, run.planned), NEW X, NEW Y,
           X \subseteq Places[1], Y \subseteq Places[2],
           Places'[1] = Places[1] \ X, Places'[2] = Places[2] \ Y, Places'[7] = Places[7] \cup X \cup Y,
           \A k \in {3, 4, 5, 6} : Places'[k] = Places[k]
    PROVE  Partition(Places', run.planned)
<1> DEFINE P == Places
           Q == Places'
           U == run.planned
           M == [k \in Slots |-> CASE k = 1 -> P[1] \ X [] k = 7 -> P[7] \cup X [] OTHER -> P[k]]
<1>1. /\ M[1] = P[1] \ X /\ M[2] = P[2] /\ M[3] = P[3] /\ M[4] = P[4]
      /\ M[5] = P[5] /\ M[6] = P[6] /\ M[7] = P[7] \cup X
    BY SlotsAre
<1>2. /\ Partition(P, U) /\ X \subseteq P[1] /\ Y \subseteq P[2]
      /\ Q[1] = P[1] \ X /\ Q[2] = P[2] \ Y /\ Q[7] = P[7] \cup X \cup Y
      /\ Q[3] = P[3] /\ Q[4] = P[4] /\ Q[5] = P[5] /\ Q[6] = P[6]
    OBVIOUS
<1> HIDE DEF P, Q, U, M
<1>3. Partition(M, U)
    <2> DEFINE i == 1
               j == 7
    <2>1. /\ i \in Slots /\ j \in Slots /\ i # j /\ \A k \in Slots \ {i, j} : M[k] = P[k]
          /\ X \subseteq P[i] /\ M[i] = P[i] \ X /\ M[j] = P[j] \cup X
        BY ONLY <1>1, <1>2, SlotsAre
    <2> HIDE DEF i, j
    <2> QED
        BY ONLY <1>2, <2>1, MoveKeepsPartition
<1>4. Partition(Q, U)
    <2> DEFINE i == 2
               j == 7
    <2>1. /\ i \in Slots /\ j \in Slots /\ i # j /\ \A k \in Slots \ {i, j} : Q[k] = M[k]
          /\ Y \subseteq M[i] /\ Q[i] = M[i] \ Y /\ Q[j] = M[j] \cup Y
        <3>1. /\ Q[1] = M[1] /\ Q[3] = M[3] /\ Q[4] = M[4] /\ Q[5] = M[5] /\ Q[6] = M[6]
              /\ Y \subseteq M[2] /\ Q[2] = M[2] \ Y /\ Q[7] = M[7] \cup Y
            BY ONLY <1>1, <1>2
        <3> QED
            BY ONLY <3>1, SlotsAre
    <2> HIDE DEF i, j
    <2> QED
        BY ONLY <1>3, <2>1, MoveKeepsPartition
<1> QED
    BY <1>4 DEF Q, U

\* The report about a database is not a tile's.
LEMMA DatabaseKeepsPartition ==
    ASSUME NEW P, NEW Q, NEW U, NEW j \in Slots, Partition(P, U),
           \A k \in Slots : "database" \notin P[k],
           Q[j] = P[j] \cup {"database"}, \A k \in Slots \ {j} : Q[k] = P[k]
    PROVE  Partition(Q, U)
<1>1. \A k \in Slots : \A x : x \in Q[k] <=> x \in P[k] \/ (k = j /\ x = "database")
    OBVIOUS
<1>2. \A x : x # "database" =>
         ((\E k \in Slots : x \in Q[k]) <=> (\E k \in Slots : x \in P[k]))
    BY <1>1
<1>3. ASSUME NEW k \in Slots, NEW l \in Slots, k # l, NEW x, x \in Q[k], x \in Q[l]
      PROVE  FALSE
    BY <1>1, <1>3 DEF Partition
<1> QED
    BY <1>2, <1>3 DEF Partition

\* Everything in one place.
LEMMA OnePlace ==
    ASSUME NEW P, NEW U, NEW i \in Slots, P[i] = U, "database" \notin U,
           \A k \in Slots \ {i} : P[k] = {}
    PROVE  Partition(P, U)
BY DEF Partition

-----------------------------------------------------------------------------
(* The stages before anything is built.                                    *)

\* What the job thread does to its run while the pool and the writer rest.
NextStage ==
    /\ run' \in Runs /\ run'.job = run.job /\ run'.planned \subseteq run.job.region
    /\ run'.hand = run.hand /\ run'.at = run.at /\ run'.queue = run.queue
    /\ run'.outcomes = run.outcomes /\ run'.built = run.built
    /\ run'.failed = run.failed /\ run'.lost = run.lost
    /\ run'.waiting = run'.planned
    /\ \/ run'.pc = "plan" /\ run'.scan \subseteq run.job.region /\ engine # "gpu" /\ run'.writer = "off"
       \/ /\ run'.pc = "gpu" /\ run'.scan \subseteq run.job.region /\ engine = "gpu"
          /\ run'.writer = "off" /\ run'.planned = {}
       \/ run'.pc = "cut" /\ run'.scan \subseteq Chunks /\ engine = "lunar" /\ run'.writer = "off"
       \/ run'.pc = "build" /\ engine # "gpu" /\ run'.writer = IF Single THEN "opening" ELSE "off"

\* A job that goes on to its next stage keeps the invariant.
LEMMA StageKeeps ==
    ASSUME Safe, Later, DataStep, Quiet, run.pc \in {"start", "plan", "cut"}, NextStage, SourceShape'
    PROVE  Safe'
<1> USE DEF Safe
<1>1. UNCHANGED <<events, app, live>>
    BY DEF Quiet, shown
<1>2. Resting /\ run.built = {}
    BY DEF IInv, StageShape
<1>3. /\ run'.queue = {} /\ run'.outcomes = {} /\ run'.built = {} /\ run'.failed = {} /\ run'.lost = {}
      /\ \A w \in Workers : run'.at[w] = "idle" /\ run'.hand[w] = NoTile
      /\ engine' = engine /\ run'.pc # "off" /\ app.active
    BY <1>2 DEF IInv, TypeOK, NextStage, Resting, engine, StageShape
<1>4. TypeOK'
    BY <1>1, <1>3 DEF IInv, TypeOK, DataStep, Later, NextStage
<1>5. StageShape'
    <2>1. run'.job \in scene'.requests /\ app'.tab = TabOf(engine') /\ events'.result = NoResult
          /\ app'.tab \in Tabs
        BY <1>1, <1>3 DEF IInv, StageShape, Later, NextStage, at
    <2>2. run'.pc # "build" => Resting'
        BY <1>3 DEF Resting, NextStage
    <2>3. run'.pc = "build" => (Single' <=> run'.writer # "off")
        BY <1>3 DEF NextStage, Single
    <2> QED
        BY <1>3, <2>1, <2>2, <2>3 DEF StageShape, NextStage, at
<1>6. ChannelShape'
    BY <1>3 DEF ChannelShape, Reported
<1>7. TilesHaveAPlace'
    <2>1. Places'[1] = run'.planned /\ \A k \in Slots \ {1} : Places'[k] = {}
        BY <1>3, PlacesAreNext DEF InHand, Queued, Reported, NextStage, Slots
    <2>2. "database" \notin run'.planned
        BY TilesAssumption DEF NextStage, Runs
    <2>3. 1 \in Slots
        BY DEF Slots
    <2>4. Partition(Places', run'.planned)
        BY <2>1, <2>2, <2>3, OnePlace
    <2> QED
        BY <1>3, <2>4, TilesPlaced DEF Unique, Tile
<1>8. ReportShape' /\ ReportsAreTrue'
    BY <1>3, ReportsKept DEF NextStage
<1> QED
    BY <1>4, <1>5, <1>6, <1>7, <1>8 DEF IInv, DataStep

\* A job that has begun nothing may end with no more than the word that it failed.
LEMMA FailKeeps ==
    ASSUME Safe, Later, DataStep, ~at("off"), EndWith("failed")
    PROVE  Safe'
<1> DEFINE kind == "failed"
           left == {}
<1>1. kind \in {"ok", "failed"} /\ left \in SUBSET Tiles /\ EndLosing(kind, left) /\ kind # "ok"
    BY DEF EndWith
<1> HIDE DEF kind, left
<1> QED
    BY ONLY <1>1, EndKeeps, Safe, Later, DataStep, ~at("off")

\* A job that gives up before its pool runs keeps it.
LEMMA AbortKeeps ==
    ASSUME Safe, Abort, UNCHANGED data
    PROVE  Safe'
<1>1. Later /\ DataStep
    BY TimePasses, DataStays DEF Abort, Safe, IInv
<1> QED
    BY <1>1, FailKeeps DEF Abort, at

\* The plan of a job, or the GPU's tour of its region, begins.
LEMMA PlanBegins ==
    ASSUME Safe, Later, DataStep, Quiet, at("start"), NEW pc \in {"plan", "gpu"},
           pc = "gpu" <=> engine = "gpu", NEW mola \in BOOLEAN,
           run' = [run EXCEPT !.pc = pc, !.scan = run.job.region, !.mola = mola]
    PROVE  Safe'
<1>1. run \in Runs /\ run.job.region \subseteq Tiles
    BY PlannedTiles DEF Safe, IInv, TypeOK, at
<1>2. /\ run' \in Runs /\ run'.pc = pc /\ run'.scan = run.job.region /\ run'.job = run.job
      /\ run'.planned = run.planned /\ run'.waiting = run.waiting /\ run'.copying = run.copying
      /\ run'.hand = run.hand /\ run'.at = run.at /\ run'.queue = run.queue
      /\ run'.outcomes = run.outcomes /\ run'.built = run.built
      /\ run'.failed = run.failed /\ run'.lost = run.lost /\ run'.writer = run.writer
    BY <1>1 DEF Runs
<1>3. /\ run.planned = {} /\ run.waiting = run.planned /\ run.writer = "off" /\ run.queue = {}
    BY DEF Safe, IInv, StageShape, Resting, at
<1>4. NextStage
    BY <1>2, <1>3 DEF NextStage
<1>5. SourceShape'
    BY <1>2, <1>3 DEF Safe, IInv, SourceShape, DataStep, Later, at
<1> QED
    BY <1>4, <1>5, StageKeeps DEF at

\* Preparing the sources of a job keeps it.
LEMMA PrepareStep ==
    ASSUME Safe, PrepareEarth \/ PrepareLunar \/ PrepareMars
    PROVE  Safe'
<1>1. ASSUME at("start"), engine \in {"native", "gdal", "gpu"}, Initialize
      PROVE  Safe'
    <2>1. Later /\ UNCHANGED <<stored, coast, chunk, mosaic>>
          /\ tagged' = (tagged \/ \A t \in EarthTiles : Absent(t))
        BY <1>1, TimePasses DEF Initialize, Safe, IInv
    <2>2. DataStep
        <3>1. FailuresAreNotStored'
            BY <2>1 DEF Safe, FailuresAreNotStored, Later
        <3>2. tagged' \in BOOLEAN
            BY <2>1 DEF Safe, IInv, TypeOK
        <3> QED
            BY <2>1, <3>1, <3>2 DEF Safe, IInv, TypeOK, DataStep, Absent, SourceShape, Later
    <2>3. CASE tagged'
        <3> DEFINE pc == IF engine = "gpu" THEN "gpu" ELSE "plan"
                   mola == run.mola
        <3>1. /\ run' = [run EXCEPT !.pc = pc, !.scan = run.job.region] /\ Quiet
              /\ pc \in {"plan", "gpu"} /\ (pc = "gpu" <=> engine = "gpu")
            BY <1>1, <2>3 DEF Initialize
        <3>2. run \in Runs /\ mola \in BOOLEAN
            BY DEF Safe, IInv, TypeOK, Runs
        <3>3. run' = [run EXCEPT !.pc = pc, !.scan = run.job.region, !.mola = mola]
            BY <3>1, <3>2 DEF Runs
        <3> HIDE DEF pc, mola
        <3> QED
            BY <1>1, <2>1, <2>2, <3>1, <3>2, <3>3, PlanBegins
    <2>4. CASE ~tagged'
        BY <1>1, <2>1, <2>2, <2>4, FailKeeps DEF Initialize, at
    <2> QED
        BY <2>3, <2>4
<1>2. CASE PrepareEarth
    BY <1>1, <1>2, AbortKeeps DEF PrepareEarth
<1>3. ASSUME Later, DataStep, at("start"), engine # "gpu", Quiet, NEW mola \in BOOLEAN,
             run' = [run EXCEPT !.pc = "plan", !.scan = run.job.region, !.mola = mola]
      PROVE  Safe'
    <2> DEFINE pc == "plan"
    <2>1. /\ pc \in {"plan", "gpu"} /\ (pc = "gpu" <=> engine = "gpu")
          /\ run' = [run EXCEPT !.pc = pc, !.scan = run.job.region, !.mola = mola]
        BY <1>3
    <2> HIDE DEF pc
    <2> QED
        BY ONLY <1>3, <2>1, PlanBegins, Safe
<1>4. CASE PrepareLunar
    <2>1. at("start") /\ engine # "gpu" /\ UNCHANGED data
        BY <1>4 DEF PrepareLunar
    <2>2. CASE Works /\ Quiet /\ run' = [run EXCEPT !.pc = "plan", !.scan = run.job.region]
        <3> DEFINE mola == run.mola
        <3>1. Later /\ DataStep
            BY <2>1, <2>2, TimePasses, DataStays DEF Safe, IInv
        <3>2. run \in Runs /\ mola \in BOOLEAN
            BY DEF Safe, IInv, TypeOK, Runs
        <3>3. run' = [run EXCEPT !.pc = "plan", !.scan = run.job.region, !.mola = mola]
            BY <2>2, <3>2 DEF Runs
        <3> HIDE DEF mola
        <3> QED
            BY <1>3, <2>1, <2>2, <3>1, <3>2, <3>3
    <2> QED
        BY <1>4, <2>1, <2>2, AbortKeeps DEF PrepareLunar
<1>5. CASE PrepareMars
    <2>1. at("start") /\ engine # "gpu" /\ ~at("off") /\ UNCHANGED <<stored, coast, tagged, chunk>>
        BY <1>5 DEF PrepareMars, at
    <2>2. ASSUME Works \/ Fails, mosaic' \in Mosaics
          PROVE  Later /\ DataStep
        BY <2>1, <2>2, TimePasses, MosaicChanges DEF Safe, IInv
    <2>3. ASSUME Works \/ Fails, mosaic' \in Mosaics, NEW mola \in BOOLEAN, PlanWith(mola)
          PROVE  Safe'
        <3>1. Later /\ DataStep
            BY <2>2, <2>3
        <3>2. CASE EndWith("failed")
            BY <2>1, <3>1, <3>2, FailKeeps
        <3>3. CASE Quiet /\ run' = [run EXCEPT !.pc = "plan", !.scan = run.job.region, !.mola = mola]
            BY <1>3, <2>1, <2>3, <3>1, <3>3
        <3> QED
            BY <2>3, <3>2, <3>3 DEF PlanWith
    <2>4. CASE /\ mosaic' = (IF MosaicMissing THEN "whole" ELSE mosaic)
               /\ Works /\ PlanWith(mosaic' # "absent")
        <3> DEFINE mola == mosaic' # "absent"
        <3>1. mosaic' \in Mosaics /\ mola \in BOOLEAN /\ PlanWith(mola) /\ Works
            BY <2>4 DEF Mosaics
        <3> HIDE DEF mola
        <3> QED
            BY <2>3, <3>1
    <2>5. CASE MosaicMissing /\ Fails /\ mosaic' \in {"absent", "torn"} /\ PlanWith(FALSE)
        <3>1. mosaic' \in Mosaics
            BY <2>5 DEF Mosaics
        <3> QED
            BY <2>3, <2>5, <3>1
    <2>6. CASE Abort /\ mosaic' \in Mosaics
        <3>1. Fails /\ EndWith("failed")
            BY <2>6 DEF Abort
        <3> QED
            BY <2>1, <2>2, <2>6, <3>1, FailKeeps
    <2> QED
        BY <1>5, <2>4, <2>5, <2>6 DEF PrepareMars
<1> QED
    BY <1>2, <1>4, <1>5

\* Visiting one tile of the region keeps it.
LEMMA VisitKeeps ==
    ASSUME Safe, Later, DataStep, Quiet, at("plan"), NEW t \in run.scan,
           NEW planned \in SUBSET {t}, Visit(t, planned)
    PROVE  Safe'
<1>1. run \in Runs /\ run.scan \subseteq run.job.region /\ t \in Tiles
    BY PlannedTiles DEF Safe, IInv, TypeOK, StageShape, at
<1> DEFINE scan == run.scan \ {t}
           all == run.planned \cup planned
           waiting == run.waiting \cup planned
<1>0. /\ scan \in SUBSET (Tiles \cup Chunks) /\ all \in SUBSET Tiles /\ waiting \in SUBSET Tiles
      /\ run' = [run EXCEPT !.scan = scan, !.planned = all, !.waiting = waiting]
    BY <1>1 DEF Runs, Visit
<1> HIDE DEF scan, all, waiting
<1>2. /\ run' \in Runs /\ run'.pc = run.pc /\ run'.scan = scan /\ run'.job = run.job
      /\ run'.planned = all /\ run'.waiting = waiting
      /\ run'.hand = run.hand /\ run'.at = run.at /\ run'.queue = run.queue
      /\ run'.outcomes = run.outcomes /\ run'.built = run.built /\ run'.copying = run.copying
      /\ run'.failed = run.failed /\ run'.lost = run.lost /\ run'.writer = run.writer
    BY ONLY <1>0, <1>1 DEF Runs
<1> USE DEF scan, all, waiting
<1>3. /\ run.planned \subseteq run.job.region /\ run.waiting = run.planned /\ run.writer = "off"
      /\ run.queue = {} /\ engine # "gpu"
    BY DEF Safe, IInv, StageShape, Resting, at
<1>4. NextStage
    BY <1>1, <1>2, <1>3 DEF NextStage, at
<1>5. SourceShape'
    BY <1>2, <1>3 DEF Safe, IInv, SourceShape, DataStep, Later, at
<1> QED
    BY <1>4, <1>5, StageKeeps DEF at

\* So does planning a tile.
LEMMA PlanTileStep ==
    ASSUME Safe, NEW t \in Tiles, PlanTile(t)
    PROVE  Safe'
<1>1. Later /\ DataStep
    BY TimePasses, DataStays DEF PlanTile, Safe, IInv
<1> DEFINE planned == IF Absent(t) THEN {t} ELSE {}
<1>2. planned \in SUBSET {t} /\ Visit(t, planned) /\ Quiet /\ at("plan") /\ t \in run.scan
    BY DEF PlanTile
<1> HIDE DEF planned
<1> QED
    BY <1>1, <1>2, VisitKeeps

\* A tile without any source is marked empty: CTX does not cover it, by the plan.
LEMMA PlanMarsStep ==
    ASSUME Safe, NEW t \in Tiles, PlanMars(t)
    PROVE  Safe'
<1> DEFINE known == ~Absent(t) /\ (run.mola => stored[t].what # "empty" /\ t \notin FlatTiles)
           sourced == t \in CtxTiles \/ run.mola
           planned == IF ~known /\ sourced THEN {t} ELSE {}
<1>1. /\ at("plan") /\ engine = "mars" /\ t \in run.scan /\ Visit(t, planned) /\ Quiet
      /\ UNCHANGED <<coast, tagged, chunk, mosaic>> /\ (Works \/ Fails)
      /\ \/ stored' = stored
         \/ ~sourced /\ Store(t, "empty")
    BY DEF PlanMars
<1>2. planned \in SUBSET {t} /\ (~sourced => t \notin CtxTiles)
    OBVIOUS
<1> HIDE DEF planned, known, sourced
<1>3. Later
    BY <1>1, TimePasses DEF Safe, IInv
<1>4. DataStep
    <2>1. CASE stored' = stored
        BY <1>1, <1>3, <2>1, DataStays DEF data
    <2>2. CASE ~sourced /\ Store(t, "empty")
        <3> DEFINE what == "empty"
                   by == "mars"
        <3>1. /\ what \in {"empty", "part", "whole"} /\ by \in Engines \cup {"desktop"}
              /\ by \notin {"gdal", "gpu", "native", "lunar"}
              /\ stored' = [stored EXCEPT ![t] = [what |-> what, by |-> by]]
            BY <1>1, <2>2 DEF Store, Engines
        <3>2. /\ coast' \subseteq EarthTiles /\ tagged' \in BOOLEAN
              /\ mosaic' \in {"absent", "torn", "whole"} /\ UNCHANGED chunk
            BY <1>1 DEF Safe, IInv, TypeOK
        <3> HIDE DEF what, by
        <3> QED
            BY <1>2, <1>3, <2>2, <3>1, <3>2, RowStored
    <2> QED
        BY <1>1, <2>1, <2>2
<1> QED
    BY <1>1, <1>2, <1>3, <1>4, VisitKeeps

\* While nothing has failed, the pool starts with the chunk of each centre in place.
LEMMA PoolStarts ==
    ASSUME Safe, Later, DataStep, UNCHANGED chunk, Quiet, run.pc \in {"plan", "cut"}, StartPool,
           engine # "gpu", trouble' = 0 /\ engine = "lunar" => Needed = {}
    PROVE  Safe'
<1>1. run \in Runs
    BY DEF Safe, IInv, TypeOK
<1>2. /\ run' \in Runs /\ run'.pc = "build" /\ run'.scan = {} /\ run'.job = run.job
      /\ run'.planned = run.planned /\ run'.waiting = run.waiting
      /\ run'.hand = run.hand /\ run'.at = run.at /\ run'.queue = run.queue
      /\ run'.outcomes = run.outcomes /\ run'.built = run.built /\ run'.copying = run.copying
      /\ run'.failed = run.failed /\ run'.lost = run.lost
      /\ run'.writer = (IF Single THEN "opening" ELSE "off")
      /\ run'.blind = {c \in Chunks : chunk[c] # "whole"}
    BY <1>1 DEF StartPool, Runs
<1>3. /\ run.planned \subseteq run.job.region /\ run.waiting = run.planned /\ run.queue = {}
    BY DEF Safe, IInv, StageShape, Resting, at
<1>4. NextStage
    BY <1>2, <1>3 DEF NextStage
<1>5. SourceShape'
    <2> SUFFICES ASSUME trouble' = 0
                 PROVE  SourceShape'
        BY DEF SourceShape
    <2>1. ASSUME engine = "lunar", NEW t \in run.planned
          PROVE  chunk[CentreChunk[t]] = "whole" /\ CentreChunk[t] \notin run'.blind
        <3>1. CentreChunk[t] \in Chunks /\ Needed = {}
            BY <2>1, PlannedTiles DEF at
        <3>2. chunk[CentreChunk[t]] # "absent"
            BY <3>1 DEF Needed
        <3>3. chunk[CentreChunk[t]] \in {"absent", "torn", "whole"} /\ chunk[CentreChunk[t]] # "torn"
            BY <3>1 DEF Safe, IInv, TypeOK, DataStep
        <3> QED
            BY <1>2, <3>2, <3>3
    <2>2. run.copying = {}
        BY DEF Safe, IInv, SourceShape, Later
    <2>3. engine' = engine
        BY <1>2 DEF engine
    <2> QED
        BY <1>2, <1>3, <2>1, <2>2, <2>3 DEF SourceShape, DataStep, at
<1> QED
    BY <1>4, <1>5, StageKeeps DEF at

\* So does the end of planning.
LEMMA EndPlanStep ==
    ASSUME Safe, EndPlan
    PROVE  Safe'
<1>1. at("plan") /\ run.scan = {} /\ Works /\ UNCHANGED data
    BY DEF EndPlan
<1>2. Later /\ DataStep
    BY <1>1, TimePasses, DataStays DEF Safe, IInv
<1>3. /\ run.waiting = run.planned /\ run.built = {} /\ run.failed = {} /\ run.lost = {}
      /\ run.planned \subseteq run.job.region /\ run.queue = {} /\ run.writer = "off" /\ engine # "gpu"
    BY <1>1 DEF Safe, IInv, StageShape, Resting, at
<1>4. CASE run.planned = {}
    <2> DEFINE kind == "ok"
               left == {}
    <2>1. kind \in {"ok", "failed"} /\ left \in SUBSET Tiles /\ EndLosing(kind, left)
          /\ run.planned = (run.built \cup run.failed \cup (run.lost \cup left)) \ {"database"}
        BY <1>3, <1>4 DEF EndPlan, EndWith
    <2>2. ~at("off")
        BY <1>1 DEF at
    <2> HIDE DEF kind, left
    <2> QED
        BY <1>2, <2>1, <2>2, EndKeeps
<1>5. CASE run.planned # {} /\ engine = "lunar" /\ Needed # {}
    <2>1. run \in Runs /\ Needed \subseteq Chunks
        BY <1>1, <1>5, PlannedTiles DEF Safe, IInv, TypeOK, Needed, at
    <2>2. run' = [run EXCEPT !.pc = "cut", !.scan = Needed] /\ Quiet
        BY <1>5 DEF EndPlan
    <2>3. /\ run' \in Runs /\ run'.pc = "cut" /\ run'.scan = Needed /\ run'.job = run.job
          /\ run'.planned = run.planned /\ run'.waiting = run.waiting /\ run'.copying = run.copying
          /\ run'.hand = run.hand /\ run'.at = run.at /\ run'.queue = run.queue
          /\ run'.outcomes = run.outcomes /\ run'.built = run.built
          /\ run'.failed = run.failed /\ run'.lost = run.lost /\ run'.writer = run.writer
        BY <2>1, <2>2 DEF Runs
    <2>4. NextStage
        BY <1>3, <1>5, <2>1, <2>3 DEF NextStage
    <2>5. SourceShape'
        <3>1. \A t \in run.planned : chunk[CentreChunk[t]] = "absent" => CentreChunk[t] \in Needed
            BY DEF Needed
        <3> QED
            BY <1>1, <1>2, <1>3, <2>3, <3>1 DEF Safe, IInv, SourceShape, DataStep, Later, at, data
    <2> QED
        BY <1>1, <1>2, <2>2, <2>4, <2>5, StageKeeps DEF at
<1>6. CASE run.planned # {} /\ ~(engine = "lunar" /\ Needed # {})
    <2>1. StartPool /\ Quiet
        BY <1>6 DEF EndPlan
    <2>2. UNCHANGED chunk /\ run.pc \in {"plan", "cut"}
        BY <1>1 DEF data, at
    <2>3. trouble' = 0 /\ engine = "lunar" => Needed = {}
        BY <1>6
    <2> QED
        BY <1>2, <1>3, <2>1, <2>2, <2>3, PoolStarts
<1> QED
    BY <1>4, <1>5, <1>6

\* One step of the cutting.
LEMMA CutKeeps ==
    ASSUME Safe, Later, DataStep, Quiet, at("cut"),
           NEW scan \in SUBSET Chunks, NEW copying \in SUBSET Chunks,
           run' = [run EXCEPT !.scan = scan, !.copying = copying],
           trouble' = 0 => copying = {} /\ \A c \in Chunks : c \in run.scan \ scan => chunk'[c] = "whole"
    PROVE  Safe'
<1>1. run \in Runs
    BY DEF Safe, IInv, TypeOK
<1>2. /\ run' \in Runs /\ run'.pc = run.pc /\ run'.scan = scan /\ run'.job = run.job
      /\ run'.planned = run.planned /\ run'.waiting = run.waiting /\ run'.copying = copying
      /\ run'.hand = run.hand /\ run'.at = run.at /\ run'.queue = run.queue
      /\ run'.outcomes = run.outcomes /\ run'.built = run.built
      /\ run'.failed = run.failed /\ run'.lost = run.lost /\ run'.writer = run.writer
    BY <1>1 DEF Runs
<1>3. /\ run.planned \subseteq run.job.region /\ run.waiting = run.planned /\ run.writer = "off"
      /\ run.queue = {} /\ engine = "lunar" /\ run.scan \subseteq Chunks
    BY DEF Safe, IInv, StageShape, Resting, at
<1>4. NextStage
    BY <1>2, <1>3 DEF NextStage, at
<1>5. SourceShape'
    <2>1. ASSUME trouble' = 0, NEW t \in run.planned, chunk'[CentreChunk[t]] = "absent"
          PROVE  CentreChunk[t] \in scan
        <3>1. CentreChunk[t] \in Chunks
            BY <1>3, PlannedTiles DEF at
        <3>2. chunk[CentreChunk[t]] = "absent"
            BY <2>1, <3>1 DEF DataStep, Safe, IInv, TypeOK
        <3>3. CentreChunk[t] \in run.scan
            BY <2>1, <3>2 DEF Safe, IInv, SourceShape, Later
        <3> QED
            BY <2>1, <3>1, <3>3
    <2> QED
        BY <1>2, <1>3, <2>1 DEF SourceShape, DataStep, at
<1> QED
    BY <1>4, <1>5, StageKeeps DEF at

\* A source chunk is cut, found, or fails the job.
LEMMA EnsureSourceChunkStep ==
    ASSUME Safe, NEW c \in Chunks, EnsureSourceChunk(c)
    PROVE  Safe'
<1> DEFINE scan == run.scan \ {c}
           copying == {c}
           x == "whole"
           y == "torn"
<1>1. /\ at("cut") /\ run.copying = {} /\ c \in run.scan /\ UNCHANGED <<stored, coast, tagged, mosaic>>
      /\ run \in Runs /\ run.scan \subseteq Chunks /\ scan \in SUBSET Chunks /\ ~at("off")
      /\ copying \in SUBSET Chunks /\ chunk \in [Chunks -> {"absent", "torn", "whole"}]
    BY DEF EnsureSourceChunk, Safe, IInv, TypeOK, StageShape, at
<1>2. CASE /\ chunk' = [chunk EXCEPT ![c] = "whole"]
           /\ run' = [run EXCEPT !.scan = @ \ {c}] /\ Works /\ Quiet
    <2>1. Later
        BY <1>2, TimePasses DEF Safe, IInv
    <2>2. DataStep
        <3>1. x \in {"torn", "whole"} /\ x # "torn" /\ chunk' = [chunk EXCEPT ![c] = x]
            BY <1>2
        <3> HIDE DEF x
        <3> QED
            BY <1>1, <2>1, <3>1, ChunkCut
    <2>3. run' = [run EXCEPT !.scan = scan, !.copying = run.copying] /\ run.copying \in SUBSET Chunks
        BY <1>1, <1>2 DEF Runs
    <2>4. \A d \in Chunks : d \in run.scan \ scan => chunk'[d] = "whole"
        BY <1>1, <1>2
    <2> HIDE DEF scan
    <2> QED
        BY <1>1, <1>2, <2>1, <2>2, <2>3, <2>4, CutKeeps
<1>3. CASE /\ chunk[c] = "absent" /\ Fails /\ Quiet
           /\ chunk' = [chunk EXCEPT ![c] = "torn"]
           /\ run' = [run EXCEPT !.scan = @ \ {c}, !.copying = {c}]
    <2>1. Later /\ trouble' > 0 /\ trouble' # 0
        BY <1>3, TimePasses DEF Safe, IInv
    <2>2. DataStep
        <3>1. y \in {"torn", "whole"} /\ chunk' = [chunk EXCEPT ![c] = y]
            BY <1>3
        <3> HIDE DEF y
        <3> QED
            BY <1>1, <1>3, <2>1, <3>1, ChunkCut
    <2>3. run' = [run EXCEPT !.scan = scan, !.copying = copying]
        BY <1>3
    <2> HIDE DEF scan, copying
    <2> QED
        BY <1>1, <1>3, <2>1, <2>2, <2>3, CutKeeps
<1>4. CASE Fails /\ UNCHANGED chunk /\ EndWith("failed")
    <2>1. Later /\ DataStep
        BY <1>1, <1>4, TimePasses, DataStays DEF Safe, IInv, data
    <2> QED
        BY <1>1, <1>4, <2>1, FailKeeps
<1> QED
    BY <1>2, <1>3, <1>4 DEF EnsureSourceChunk

\* A copied chunk is whole, or part of it after a failure.
LEMMA CopyChunkStep ==
    ASSUME Safe, NEW c \in Chunks, CopyChunk(c)
    PROVE  Safe'
<1> DEFINE x == "whole"
           copying == {}
<1>1. /\ at("cut") /\ c \in run.copying /\ UNCHANGED <<stored, coast, tagged, mosaic>> /\ ~at("off")
      /\ run \in Runs /\ run.scan \in SUBSET Chunks /\ copying \in SUBSET Chunks
    BY DEF CopyChunk, Safe, IInv, TypeOK, StageShape, at
<1>2. CASE chunk' = [chunk EXCEPT ![c] = "whole"] /\ run' = [run EXCEPT !.copying = {}] /\ Works /\ Quiet
    <2>1. Later
        BY <1>2, TimePasses DEF Safe, IInv
    <2>2. DataStep
        <3>1. x \in {"torn", "whole"} /\ x # "torn" /\ chunk' = [chunk EXCEPT ![c] = x]
            BY <1>2
        <3> HIDE DEF x
        <3> QED
            BY <1>1, <2>1, <3>1, ChunkCut
    <2>3. run' = [run EXCEPT !.scan = run.scan, !.copying = copying] /\ copying = {}
        BY <1>1, <1>2 DEF Runs
    <2> HIDE DEF copying
    <2> QED
        BY <1>1, <1>2, <2>1, <2>2, <2>3, CutKeeps
<1>3. CASE Fails /\ UNCHANGED chunk /\ EndWith("failed")
    <2>1. Later /\ DataStep
        BY <1>1, <1>3, TimePasses, DataStays DEF Safe, IInv, data
    <2> QED
        BY <1>1, <1>3, <2>1, FailKeeps
<1> QED
    BY <1>2, <1>3 DEF CopyChunk

\* The pool starts when every planned chunk has been asked for.
LEMMA EndCutStep ==
    ASSUME Safe, EndCut
    PROVE  Safe'
<1>1. at("cut") /\ run.scan = {} /\ Works /\ StartPool /\ UNCHANGED data /\ Quiet
    BY DEF EndCut
<1>2. Later /\ DataStep
    BY <1>1, TimePasses, DataStays DEF Safe, IInv
<1>3. trouble' = 0 => Needed = {}
    BY <1>1, <1>2 DEF Safe, IInv, SourceShape, Later, Needed
<1>4. engine # "gpu" /\ run.pc \in {"plan", "cut"} /\ UNCHANGED chunk
    BY <1>1 DEF Safe, IInv, StageShape, at, data
<1> QED
    BY <1>1, <1>2, <1>3, <1>4, PoolStarts

-----------------------------------------------------------------------------
(* The GPU engine.                                                         *)

\* A tile built at once by the GPU keeps the invariant.
LEMMA GpuKeeps ==
    ASSUME Safe, Later, DataStep, Quiet, at("gpu"), NEW t \in run.scan, NEW built \in SUBSET {t},
           \A u \in built : ~Absent(u)',
           run' = [run EXCEPT !.scan = @ \ {t}, !.planned = @ \cup built, !.built = @ \cup built]
    PROVE  Safe'
<1> USE DEF Safe
<1>1. run \in Runs /\ run.scan \subseteq run.job.region /\ t \in Tiles /\ engine = "gpu"
    BY PlannedTiles DEF IInv, TypeOK, StageShape, at
<1> DEFINE scan == run.scan \ {t}
           planned == run.planned \cup built
           all == run.built \cup built
<1>0. /\ scan \in SUBSET (Tiles \cup Chunks) /\ planned \in SUBSET Tiles /\ all \in SUBSET Tiles
      /\ run' = [run EXCEPT !.scan = scan, !.planned = planned, !.built = all]
    BY <1>1 DEF Runs
<1> HIDE DEF scan, planned, all
<1>2. /\ run' \in Runs /\ run'.pc = run.pc /\ run'.scan = scan /\ run'.job = run.job
      /\ run'.planned = planned /\ run'.waiting = run.waiting
      /\ run'.hand = run.hand /\ run'.at = run.at /\ run'.queue = run.queue
      /\ run'.outcomes = run.outcomes /\ run'.built = all /\ run'.copying = run.copying
      /\ run'.failed = run.failed /\ run'.lost = run.lost /\ run'.writer = run.writer
    BY ONLY <1>0, <1>1 DEF Runs
<1> USE DEF scan, planned, all
<1>3. UNCHANGED <<events, app, live>>
    BY DEF Quiet, shown
<1>4. /\ Resting /\ run.waiting = {} /\ run.built = run.planned /\ run.planned \subseteq run.job.region
      /\ \A w \in Workers : run.at[w] = "idle" /\ run.hand[w] = NoTile
      /\ app.active /\ run.pc = "gpu"
    BY DEF IInv, TypeOK, StageShape, Resting, at
<1>5. TypeOK'
    BY <1>2, <1>3, <1>4 DEF IInv, TypeOK, DataStep, Later
<1>6. StageShape'
    <2>1. run'.job \in scene'.requests /\ app'.tab = TabOf(engine') /\ events'.result = NoResult
          /\ app'.tab \in Tabs /\ engine' = "gpu"
        BY <1>1, <1>2, <1>3, <1>4 DEF IInv, StageShape, Later, at, engine
    <2>2. Resting'
        BY <1>2, <1>4 DEF Resting
    <2> QED
        BY <1>1, <1>2, <1>4, <2>1, <2>2 DEF StageShape, at
<1>7. ChannelShape'
    BY <1>2, <1>4 DEF ChannelShape, Reported, Resting
<1>8. TilesHaveAPlace'
    <2>1. Places'[5] = run'.planned /\ \A k \in Slots \ {5} : Places'[k] = {}
        BY <1>2, <1>4, PlacesAreNext DEF InHand, Queued, Reported, Resting, Slots
    <2>2. "database" \notin run'.planned
        BY <1>2, TilesAssumption DEF Runs
    <2>3. 5 \in Slots
        BY DEF Slots
    <2>4. Partition(Places', run'.planned)
        BY <2>1, <2>2, <2>3, OnePlace
    <2> QED
        BY <1>2, <1>4, <2>4, TilesPlaced DEF Unique, Tile
<1>9. SourceShape'
    BY <1>2, <1>4 DEF IInv, SourceShape, DataStep, Later, Resting, at
<1>10. ReportShape' /\ ReportsAreTrue'
    <2>1. run.built \subseteq Tiles
        BY <1>1 DEF Runs
    <2>2. \A u \in run'.built : ~Absent(u)'
        BY <1>2, <2>1 DEF IInv, ReportShape, DataStep
    <2> QED
        BY <1>2, <1>4, <2>2, ReportsKept DEF Resting
<1> QED
    BY <1>5, <1>6, <1>7, <1>8, <1>9, <1>10 DEF IInv, DataStep

\* Building one tile on the GPU keeps it.
LEMMA BuildBboxStep ==
    ASSUME Safe, NEW t \in Tiles, BuildBbox(t)
    PROVE  Safe'
<1>1. at("gpu") /\ t \in run.scan /\ UNCHANGED <<tagged, chunk, mosaic>> /\ engine = "gpu"
      /\ run \in Runs /\ ~at("off")
    BY DEF BuildBbox, Safe, IInv, TypeOK, StageShape, at
<1>2. CASE /\ Absent(t) /\ Works /\ Store(t, "whole") /\ coast' = coast \cup {t} /\ Quiet
           /\ run' = [run EXCEPT !.scan = @ \ {t}, !.planned = @ \cup {t}, !.built = @ \cup {t}]
    <2>1. Later
        BY <1>2, TimePasses DEF Safe, IInv
    <2>2. t \in EarthTiles
        <3>1. t \in run.job.region
            BY <1>1 DEF Safe, IInv, StageShape, at
        <3> QED
            BY <1>1, <3>1, PlannedTiles DEF TabOf, TilesOf
    <2>3. DataStep
        <3> DEFINE what == "whole"
                   by == "gpu"
        <3>1. /\ what \in {"empty", "part", "whole"} /\ by \in Engines \cup {"desktop"} /\ what = "whole"
              /\ stored' = [stored EXCEPT ![t] = [what |-> what, by |-> by]]
            BY <1>1, <1>2 DEF Store, Engines
        <3>2. /\ coast' \subseteq EarthTiles /\ tagged' \in BOOLEAN
              /\ mosaic' \in {"absent", "torn", "whole"} /\ UNCHANGED chunk
            BY <1>1, <1>2, <2>2 DEF Safe, IInv, TypeOK
        <3> HIDE DEF what, by
        <3> QED
            BY <2>1, <3>1, <3>2, RowStored
    <2>4. ~Absent(t)'
        BY <1>2 DEF Store, Absent, Safe, IInv, TypeOK
    <2> DEFINE built == {t}
    <2>5. /\ built \in SUBSET {t} /\ \A u \in built : ~Absent(u)'
          /\ run' = [run EXCEPT !.scan = @ \ {t}, !.planned = @ \cup built, !.built = @ \cup built]
        BY <1>2, <2>4
    <2> HIDE DEF built
    <2> QED
        BY <1>1, <1>2, <2>1, <2>3, <2>5, GpuKeeps
<1>3. CASE ~Absent(t) /\ Works /\ UNCHANGED <<stored, coast>> /\ run' = [run EXCEPT !.scan = @ \ {t}] /\ Quiet
    <2>1. Later /\ DataStep
        BY <1>1, <1>3, TimePasses, DataStays DEF Safe, IInv, data
    <2> DEFINE built == {}
    <2>2. /\ built \in SUBSET {t} /\ \A u \in built : ~Absent(u)'
          /\ run' = [run EXCEPT !.scan = @ \ {t}, !.planned = @ \cup built, !.built = @ \cup built]
        BY <1>1, <1>3 DEF Runs
    <2> HIDE DEF built
    <2> QED
        BY <1>1, <1>3, <2>1, <2>2, GpuKeeps
<1>4. CASE (Fails \/ (t \notin GpuTiles /\ Works)) /\ UNCHANGED <<stored, coast>> /\ EndWith("failed")
    <2>1. Later /\ DataStep
        BY <1>1, <1>4, TimePasses, DataStays DEF Safe, IInv, data
    <2> QED
        BY <1>1, <1>4, <2>1, FailKeeps
<1> QED
    BY <1>2, <1>3, <1>4 DEF BuildBbox

\* So does the end of a GPU build.
LEMMA EndBboxStep ==
    ASSUME Safe, EndBbox
    PROVE  Safe'
<1> DEFINE kind == "ok"
           left == {}
<1>1. at("gpu") /\ Works /\ UNCHANGED data /\ EndLosing(kind, left) /\ ~at("off")
      /\ kind \in {"ok", "failed"} /\ left \in SUBSET Tiles /\ left = {}
    BY DEF EndBbox, EndWith, at
<1>2. Later /\ DataStep
    BY <1>1, TimePasses, DataStays DEF Safe, IInv
<1>3. run.planned = run.built /\ run.failed = {} /\ run.lost = {} /\ "database" \notin run.planned
    BY <1>1, PlannedTiles, TilesAssumption DEF Safe, IInv, StageShape, Resting
<1> HIDE DEF kind, left
<1>4. run.planned = (run.built \cup run.failed \cup (run.lost \cup left)) \ {"database"}
    BY <1>1, <1>3
<1> QED
    BY <1>1, <1>2, <1>4, EndKeeps

-----------------------------------------------------------------------------
(* The building of the tiles.                                              *)

HandsAgree == \A w \in Workers : run.at[w] = "idle" <=> run.hand[w] = NoTile
CoastStored ==
    \A w \in Workers : run.at[w] = "coast" => Tile(w) \in EarthTiles /\ ~Absent(Tile(w))

\* What every step of pool, writer and job thread keeps while tiles are built.
Building ==
    /\ run' \in Runs /\ run'.job = run.job /\ run'.pc = run.pc /\ run'.planned = run.planned
    /\ run'.blind = run.blind /\ run'.copying = run.copying
    /\ run'.writer = "off" <=> run.writer = "off"
    /\ HandsAgree' /\ Unique' /\ ChannelShape' /\ Partition(Places', run.planned)
    /\ trouble' = 0 => \A x \in run'.queue : x.what # "whole" => x.tile \in LunarTiles /\ ~Centred(x.tile)

\* What a step of the pool has to show.
LEMMA BuildKeeps ==
    ASSUME Safe, Later, DataStep, at("build"), UNCHANGED <<app, live>>,
           events' \in [built : SUBSET Tiles, result : Results], events'.result = events.result,
           Building, ReportShape', ReportsAreTrue'
    PROVE  Safe'
<1> USE DEF Safe
<1>1. engine' = engine /\ run'.pc = "build" /\ run.pc = "build" /\ app.active
    BY DEF IInv, TypeOK, Building, at, engine
<1>2. TypeOK'
    BY <1>1 DEF IInv, TypeOK, DataStep, Later, Building
<1>3. StageShape'
    <2>1. /\ run'.job \in scene'.requests /\ app'.tab = TabOf(engine') /\ events'.result = NoResult
          /\ app'.tab \in Tabs /\ run'.planned \subseteq run'.job.region
        BY <1>1 DEF IInv, StageShape, Later, at, Building
    <2>2. engine' # "gpu" /\ (Single' <=> run'.writer # "off")
        BY <1>1 DEF IInv, StageShape, at, Building, Single
    <2> QED
        BY <1>1, <2>1, <2>2 DEF StageShape, at, Building, HandsAgree
<1>4. ChannelShape' /\ TilesHaveAPlace'
    BY TilesPlaced DEF Building
<1>5. SourceShape'
    <2> SUFFICES ASSUME trouble' = 0
                 PROVE  SourceShape'
        BY DEF SourceShape
    <2>1. ASSUME engine = "lunar", NEW t \in run.planned
          PROVE  chunk'[CentreChunk[t]] = "whole" /\ CentreChunk[t] \notin run'.blind
        <3>1. CentreChunk[t] \in Chunks
            BY <2>1, PlannedTiles DEF at
        <3> QED
            BY <2>1, <3>1 DEF IInv, SourceShape, Later, DataStep, Building
    <2>2. run'.copying = {}
        BY DEF IInv, SourceShape, Later, Building
    <2> QED
        BY <1>1, <2>1, <2>2 DEF SourceShape, DataStep, Building, at
<1> QED
    BY <1>2, <1>3, <1>4, <1>5 DEF IInv, DataStep

\* What it has to show if it reports nothing.
LEMMA BuildQuietly ==
    ASSUME Safe, Later, DataStep, at("build"), Quiet, Building, CoastStored',
           \A t \in run'.built : ~Absent(t)',
           \A x \in run'.outcomes : x.how = "built" => x.tile \in Tiles /\ ~Absent(x.tile)'
    PROVE  Safe'
<1>1. UNCHANGED <<events, app, live>> /\ app.active /\ events \in [built : SUBSET Tiles, result : Results]
    BY DEF Quiet, shown, Safe, IInv, TypeOK, at
<1>2. \A w \in Workers : run'.at[w] = "coast" =>
        run'.hand[w] \in EarthTiles /\ stored'[run'.hand[w]].what # "none"
    BY DEF CoastStored, Absent, Tile
<1>3. ReportShape' /\ ReportsAreTrue'
    BY <1>1, <1>2, ReportsKept DEF Building
<1> QED
    BY <1>1, <1>3, BuildKeeps

\* The parts of the invariant that the steps below start from.
LEMMA BuildParts ==
    ASSUME Safe, at("build")
    PROVE  /\ run \in Runs /\ HandsAgree /\ Unique /\ CoastStored /\ ChannelShape
           /\ Partition(Places, run.planned)
           /\ \A t \in run.built : t \in Tiles /\ ~Absent(t)
           /\ \A x \in run.outcomes : x.how = "built" => x.tile \in Tiles /\ ~Absent(x.tile)
           /\ trouble = 0 => \A x \in run.queue : x.what # "whole" => x.tile \in LunarTiles /\ ~Centred(x.tile)
           /\ Single <=> run.writer # "off"
<1>1. run \in Runs /\ run.built \subseteq Tiles
    BY DEF Safe, IInv, TypeOK, Runs
<1>2. Unique /\ Partition(Places, run.planned)
    BY TilesPlaced DEF Safe, IInv, at
<1>3. Single <=> run.writer # "off"
    BY DEF Safe, IInv, StageShape, at
<1> QED
    BY <1>1, <1>2, <1>3 DEF Safe, IInv, StageShape, ReportShape, SourceShape, HandsAgree, CoastStored

\* What has been built stays stored.
LEMMA StaysStored ==
    ASSUME Safe, DataStep, at("build")
    PROVE  /\ \A t \in run.built : ~Absent(t)'
           /\ \A x \in run.outcomes : x.how = "built" => x.tile \in Tiles /\ ~Absent(x.tile)'
           /\ \A w \in Workers : run.at[w] = "coast" =>
                run.hand[w] \in EarthTiles /\ stored'[run.hand[w]].what # "none"
           /\ \A w \in Workers : run.at[w] # "idle" => Tile(w) \in Tiles
<1>1. \A w \in Workers : run.at[w] # "idle" => Tile(w) \in Tiles
    BY BuildParts DEF HandsAgree, Runs, Tile
<1>2. ASSUME NEW w \in Workers, run.at[w] = "coast"
      PROVE  run.hand[w] \in EarthTiles /\ stored'[run.hand[w]].what # "none"
    <2>1. Tile(w) \in EarthTiles /\ Tile(w) \in Tiles /\ ~Absent(Tile(w))
        BY <1>1, <1>2, BuildParts DEF CoastStored
    <2> QED
        BY <2>1 DEF DataStep, Absent, Tile
<1> QED
    BY <1>1, <1>2, BuildParts DEF DataStep

(* Hands. *)

\* A thread gives up its tile.
LEMMA PutDown ==
    ASSUME Safe, DataStep, at("build"), NEW w \in Workers, run.at[w] # "idle",
           run'.hand = [run.hand EXCEPT ![w] = NoTile], run'.at = [run.at EXCEPT ![w] = "idle"]
    PROVE  /\ Tile(w) \in Tiles /\ Tile(w) \in InHand /\ InHand' = InHand \ {Tile(w)}
           /\ HandsAgree' /\ Unique' /\ CoastStored'
<1>1. /\ run.hand \in [Workers -> Tiles \cup {NoTile}]
      /\ run.at \in [Workers -> {"idle", "compute", "import", "coast"}]
    BY BuildParts DEF Runs
<1>2. /\ run'.hand[w] = NoTile /\ run'.at[w] = "idle"
      /\ \A v \in Workers \ {w} : run'.hand[v] = run.hand[v] /\ run'.at[v] = run.at[v]
    BY <1>1
<1>3. Tile(w) \in Tiles /\ Tile(w) \in InHand /\ Tile(w) # NoTile
    BY StaysStored, TilesAssumption DEF InHand, Tile
<1>4. \A v \in Workers \ {w} : Tile(v) # Tile(w)
    BY <1>3, BuildParts DEF Unique
<1>5. InHand' = InHand \ {Tile(w)}
    BY <1>2, <1>4 DEF InHand, Tile
<1>6. HandsAgree'
    BY <1>2, BuildParts DEF HandsAgree
<1>7. Unique'
    BY <1>2, BuildParts DEF Unique, Tile
<1>8. CoastStored'
    BY <1>2, StaysStored DEF CoastStored, Absent, Tile
<1> QED
    BY <1>3, <1>5, <1>6, <1>7, <1>8

\* A thread goes on with its tile.
LEMMA HoldOn ==
    ASSUME Safe, DataStep, at("build"), NEW w \in Workers, run.at[w] # "idle",
           NEW step \in {"import", "coast"},
           step = "coast" => run.hand[w] \in EarthTiles /\ stored'[run.hand[w]].what # "none",
           run'.hand = run.hand, run'.at = [run.at EXCEPT ![w] = step]
    PROVE  InHand' = InHand /\ HandsAgree' /\ Unique' /\ CoastStored'
<1>1. run.at \in [Workers -> {"idle", "compute", "import", "coast"}]
    BY BuildParts DEF Runs
<1>2. run'.at[w] = step /\ step # "idle" /\ \A v \in Workers \ {w} : run'.at[v] = run.at[v]
    BY <1>1
<1>3. InHand' = InHand
    BY <1>2 DEF InHand
<1>4. HandsAgree' /\ Unique'
    BY <1>2, BuildParts DEF HandsAgree, Unique, Tile
<1>5. CoastStored'
    BY <1>2, StaysStored DEF CoastStored, Absent, Tile
<1> QED
    BY <1>3, <1>4, <1>5

\* No hand moves.
LEMMA SameHands ==
    ASSUME Safe, DataStep, at("build"), run'.hand = run.hand, run'.at = run.at
    PROVE  InHand' = InHand /\ HandsAgree' /\ Unique' /\ CoastStored'
BY BuildParts, StaysStored DEF InHand, HandsAgree, Unique, CoastStored, Absent, Tile

(* Channels. *)

\* Something about another tile is sent, or something is received.
LEMMA Sent ==
    ASSUME NEW S, NEW x, \A a, b \in S : a.tile = b.tile => a = b, x.tile \notin {a.tile : a \in S}
    PROVE  /\ \A a, b \in S \cup {x} : a.tile = b.tile => a = b
           /\ {a.tile : a \in S \cup {x}} = {a.tile : a \in S} \cup {x.tile}
OBVIOUS

\* A channel loses exactly what is taken from it.
LEMMA Received ==
    ASSUME NEW S, NEW x \in S, \A a, b \in S : a.tile = b.tile => a = b
    PROVE  /\ \A a, b \in S \ {x} : a.tile = b.tile => a = b
           /\ {a.tile : a \in S \ {x}} = {a.tile : a \in S} \ {x.tile}
           /\ x.tile \in {a.tile : a \in S}
OBVIOUS

(* The steps. *)

\* What a thread holds was planned.
LEMMA HeldIsPlanned ==
    ASSUME Safe, at("build"), NEW w \in Workers, run.at[w] # "idle"
    PROVE  Tile(w) \in Tiles /\ Tile(w) \in InHand /\ Tile(w) \in run.planned
<1>1. Tile(w) \in Tiles /\ Tile(w) # "database"
    BY BuildParts, TilesAssumption DEF HandsAgree, Runs, Tile
<1>2. Tile(w) \in InHand
    BY DEF InHand, Tile
<1> QED
    BY <1>1, <1>2, BuildParts, PlacesAre, SlotsAre DEF Partition

\* A thread that takes a tile has it in hand.
LEMMA TakeTileStep ==
    ASSUME Safe, NEW w \in Workers, NEW t \in Tiles, TakeTile(w, t)
    PROVE  Safe'
<1> DEFINE X == {t}
           waiting == run.waiting \ X
           hand == [run.hand EXCEPT ![w] = t]
           step == [run.at EXCEPT ![w] = "compute"]
<1>1. at("build") /\ run.at[w] = "idle" /\ t \in run.waiting /\ Works /\ UNCHANGED data /\ Quiet
    BY DEF TakeTile
<1>2. Later /\ DataStep /\ run \in Runs
    BY <1>1, TimePasses, DataStays DEF Safe, IInv, TypeOK
<1>3. run.hand \in [Workers -> Tiles \cup {NoTile}]
      /\ run.at \in [Workers -> {"idle", "compute", "import", "coast"}]
    BY <1>2 DEF Runs
<1>4. /\ run' = [run EXCEPT !.waiting = waiting, !.hand = hand, !.at = step]
      /\ waiting \in SUBSET Tiles /\ hand \in [Workers -> Tiles \cup {NoTile}]
      /\ step \in [Workers -> {"idle", "compute", "import", "coast"}]
    BY <1>2, <1>3 DEF TakeTile, Runs
<1>5. /\ hand[w] = t /\ step[w] = "compute" /\ t # NoTile
      /\ \A v \in Workers \ {w} : hand[v] = run.hand[v] /\ step[v] = run.at[v]
    BY <1>3, TilesAssumption
<1> HIDE DEF waiting, hand, step, X
<1>6. /\ run' \in Runs /\ run'.job = run.job /\ run'.pc = run.pc /\ run'.planned = run.planned
      /\ run'.blind = run.blind /\ run'.copying = run.copying /\ run'.writer = run.writer
      /\ run'.waiting = waiting /\ run'.hand = hand /\ run'.at = step
      /\ run'.queue = run.queue /\ run'.outcomes = run.outcomes
      /\ run'.built = run.built /\ run'.failed = run.failed /\ run'.lost = run.lost
    BY <1>2, <1>4 DEF Runs
<1>7. t \notin InHand
    BY <1>1, BuildParts, PlacesAre DEF Partition, Slots
<1>8. InHand' = InHand \cup X
    BY <1>1, <1>5, <1>6 DEF InHand, X
<1>9. HandsAgree'
    BY <1>1, <1>5, <1>6, BuildParts DEF HandsAgree
<1>10. Unique'
    <2>1. \A v \in Workers \ {w} : run.hand[v] # t
        BY <1>1, <1>5, <1>7, BuildParts DEF InHand, HandsAgree
    <2> QED
        BY <1>1, <1>5, <1>6, <2>1, BuildParts DEF Unique, Tile
<1>11. CoastStored'
    BY <1>1, <1>2, <1>5, <1>6, StaysStored DEF CoastStored, Absent, Tile
<1>12. ChannelShape'
    BY <1>1, <1>6, BuildParts DEF ChannelShape, Reported, Single, engine
<1>13. Partition(Places', run.planned)
    <2>1. Queued' = Queued /\ Reported' = Reported
        BY <1>6 DEF Queued, Reported
    <2>2. run'.waiting = run.waiting \ X /\ X \subseteq run.waiting
        BY <1>1, <1>6 DEF waiting, X
    <2>3. /\ Places'[1] = Places[1] \ X /\ Places'[2] = Places[2] \cup X /\ X \subseteq Places[1]
          /\ Places'[3] = Places[3] /\ Places'[4] = Places[4] /\ Places'[5] = Places[5]
          /\ Places'[6] = Places[6] /\ Places'[7] = Places[7]
        BY <1>6, <1>8, <2>1, <2>2, PlacesAre, PlacesAreNext
    <2>4. Moved(X, 1, 2)
        BY <2>3, SlotsAre DEF Moved
    <2> QED
        BY <1>1, <2>4, BuildParts, MoveKeepsPlaces, SlotsAre
<1>14. Building
    BY <1>1, <1>2, <1>6, <1>9, <1>10, <1>12, <1>13, BuildParts DEF Building, Later
<1> QED
    BY <1>1, <1>2, <1>6, <1>11, <1>14, StaysStored, BuildQuietly

\* A thread goes on to its next step.
LEMMA HoldKeeps ==
    ASSUME Safe, Later, DataStep, Quiet, at("build"), NEW w \in Workers, run.at[w] # "idle",
           NEW step \in {"import", "coast"}, run' = [run EXCEPT !.at[w] = step],
           step = "coast" => run.hand[w] \in EarthTiles /\ stored'[run.hand[w]].what # "none"
    PROVE  Safe'
<1> DEFINE steps == [run.at EXCEPT ![w] = step]
<1>1. run \in Runs /\ run' = [run EXCEPT !.at = steps]
      /\ steps \in [Workers -> {"idle", "compute", "import", "coast"}]
    BY BuildParts DEF Runs
<1> HIDE DEF steps
<1>2. /\ run' \in Runs /\ run'.job = run.job /\ run'.pc = run.pc /\ run'.planned = run.planned
      /\ run'.blind = run.blind /\ run'.copying = run.copying /\ run'.writer = run.writer
      /\ run'.waiting = run.waiting /\ run'.hand = run.hand /\ run'.at = steps
      /\ run'.queue = run.queue /\ run'.outcomes = run.outcomes
      /\ run'.built = run.built /\ run'.failed = run.failed /\ run'.lost = run.lost
    BY <1>1 DEF Runs
<1>3. InHand' = InHand /\ HandsAgree' /\ Unique' /\ CoastStored'
    BY <1>2, HoldOn DEF steps
<1>4. ChannelShape'
    BY <1>2, BuildParts DEF ChannelShape, Reported, Single, engine
<1>5. Partition(Places', run.planned)
    <2>1. Queued' = Queued /\ Reported' = Reported
        BY <1>2 DEF Queued, Reported
    <2>2. Places' = Places
        BY <1>2, <1>3, <2>1 DEF Places
    <2> QED
        BY <2>2, BuildParts
<1>6. Building
    BY <1>2, <1>3, <1>4, <1>5, BuildParts DEF Building, Later
<1> QED
    BY <1>2, <1>3, <1>6, StaysStored, BuildQuietly

\* A thread reports its tile and gives it up.
LEMMA ReportKeeps ==
    ASSUME Safe, Later, DataStep, Quiet, at("build"), NEW w \in Workers, run.at[w] # "idle",
           NEW how \in {"built", "failed"}, how = "built" => stored'[Tile(w)].what # "none",
           run' = Report(Idle(run, w), how, Tile(w))
    PROVE  Safe'
<1> DEFINE t == Tile(w)
           x == [tile |-> t, how |-> how]
           hand == [run.hand EXCEPT ![w] = NoTile]
           steps == [run.at EXCEPT ![w] = "idle"]
           outcomes == run.outcomes \cup {x}
           X == {t}
<1>0. run \in Runs
    BY BuildParts
<1>1. t \in Tiles /\ t # "database" /\ x.tile = t /\ x.how = how
    BY BuildParts, StaysStored, TilesAssumption
<1>2. /\ run' = [run EXCEPT !.hand = hand, !.at = steps, !.outcomes = outcomes]
      /\ hand \in [Workers -> Tiles \cup {NoTile}]
      /\ steps \in [Workers -> {"idle", "compute", "import", "coast"}]
      /\ outcomes \in Reports
    BY <1>0, <1>1 DEF Report, Idle, Runs, Reports
<1> HIDE DEF hand, steps, outcomes, x, t, X
<1>3. /\ run' \in Runs /\ run'.job = run.job /\ run'.pc = run.pc /\ run'.planned = run.planned
      /\ run'.blind = run.blind /\ run'.copying = run.copying /\ run'.writer = run.writer
      /\ run'.waiting = run.waiting /\ run'.hand = hand /\ run'.at = steps
      /\ run'.queue = run.queue /\ run'.outcomes = outcomes
      /\ run'.built = run.built /\ run'.failed = run.failed /\ run'.lost = run.lost
    BY ONLY <1>0, <1>2 DEF Runs
<1>4. t \in InHand /\ InHand' = InHand \ X /\ HandsAgree' /\ Unique' /\ CoastStored'
    BY <1>3, PutDown DEF hand, steps, t, X
<1>5. t \notin Reported
    BY <1>4, BuildParts, PlacesAre DEF Partition, Slots
<1>6. /\ \A a, b \in outcomes : a.tile = b.tile => a = b
      /\ Reported' = Reported \cup X
    <2>1. x.tile \notin {a.tile : a \in run.outcomes}
        BY <1>1, <1>5 DEF Reported
    <2>2. \A a, b \in run.outcomes : a.tile = b.tile => a = b
        BY BuildParts DEF ChannelShape
    <2> QED
        BY <1>1, <1>3, <2>1, <2>2, Sent DEF outcomes, Reported, X
<1>7. ChannelShape'
    <2>1. "database" \in Reported' => "database" \in Reported
        BY <1>1, <1>6 DEF X
    <2> QED
        BY <1>3, <1>6, <2>1, BuildParts DEF ChannelShape, Single, engine
<1>8. Partition(Places', run.planned)
    <2>1. Queued' = Queued /\ X \subseteq InHand
        BY <1>3, <1>4 DEF Queued, X
    <2>2. /\ Places'[2] = Places[2] \ X /\ Places'[4] = Places[4] \cup X /\ X \subseteq Places[2]
          /\ Places'[1] = Places[1] /\ Places'[3] = Places[3] /\ Places'[5] = Places[5]
          /\ Places'[6] = Places[6] /\ Places'[7] = Places[7]
        BY <1>3, <1>4, <1>6, <2>1, PlacesAre, PlacesAreNext
    <2>3. Moved(X, 2, 4)
        BY <2>2, SlotsAre DEF Moved
    <2> QED
        BY <2>3, BuildParts, MoveKeepsPlaces, SlotsAre
<1>9. Building
    BY <1>3, <1>4, <1>7, <1>8, BuildParts DEF Building, Later
<1>10. \A y \in run'.outcomes : y.how = "built" => y.tile \in Tiles /\ ~Absent(y.tile)'
    <2>1. how = "built" => stored'[t].what # "none"
        BY DEF t
    <2>2. ASSUME NEW y \in run'.outcomes, y.how = "built"
          PROVE  y.tile \in Tiles /\ stored'[y.tile].what # "none"
        <3>1. y \in run.outcomes \/ y = x
            BY <1>3, <2>2 DEF outcomes
        <3> QED
            BY <1>1, <2>1, <2>2, <3>1, StaysStored DEF Absent
    <2> QED
        BY <2>2 DEF Absent
<1> QED
    BY <1>3, <1>4, <1>9, <1>10, StaysStored, BuildQuietly

\* A thread hands its tile to the writer, or to nobody.
LEMMA HandKeeps ==
    ASSUME Safe, Later, DataStep, Quiet, at("build"), Single, NEW w \in Workers, run.at[w] # "idle",
           NEW what \in {"empty", "part", "whole"}, Hand(w, what),
           what # "whole" /\ trouble' = 0 => Tile(w) \in LunarTiles /\ ~Centred(Tile(w))
    PROVE  Safe'
<1> DEFINE t == Tile(w)
           x == [tile |-> t, what |-> what]
           hand == [run.hand EXCEPT ![w] = NoTile]
           steps == [run.at EXCEPT ![w] = "idle"]
           gone == run.writer = "gone"
           queue == IF gone THEN run.queue ELSE run.queue \cup {x}
           lost == IF gone THEN run.lost \cup {t} ELSE run.lost
           X == {t}
<1>0. run \in Runs
    BY BuildParts
<1>1. t \in Tiles /\ t # "database" /\ x.tile = t /\ x.what = what
    BY BuildParts, StaysStored, TilesAssumption
<1>2. /\ run' = [run EXCEPT !.hand = hand, !.at = steps, !.queue = queue, !.lost = lost]
      /\ hand \in [Workers -> Tiles \cup {NoTile}]
      /\ steps \in [Workers -> {"idle", "compute", "import", "coast"}]
      /\ queue \in Queues /\ lost \in SUBSET Tiles
    <2>1. run' = [run EXCEPT !.hand = hand, !.at = steps, !.queue = queue, !.lost = lost]
        <3>1. CASE gone
            <4>1. run' = [Idle(run, w) EXCEPT !.lost = @ \cup {t}]
                BY <3>1 DEF Hand
            <4>2. queue = run.queue /\ lost = run.lost \cup {t}
                BY <3>1
            <4> HIDE DEF queue, lost, t
            <4> QED
                BY <1>0, <4>1, <4>2 DEF Idle, Runs
        <3>2. CASE ~gone
            <4>1. run' = [Idle(run, w) EXCEPT !.queue = @ \cup {x}]
                BY <3>2 DEF Hand
            <4>2. queue = run.queue \cup {x} /\ lost = run.lost
                BY <3>2
            <4> HIDE DEF queue, lost, x
            <4> QED
                BY <1>0, <4>1, <4>2 DEF Idle, Runs
        <3> QED
            BY <3>1, <3>2
    <2>2. /\ hand \in [Workers -> Tiles \cup {NoTile}]
          /\ steps \in [Workers -> {"idle", "compute", "import", "coast"}]
          /\ lost \in SUBSET Tiles
        BY <1>0, <1>1 DEF Runs
    <2>3. queue \in Queues
        BY <1>0, <1>1 DEF Runs, Queues
    <2> QED
        BY <2>1, <2>2, <2>3
<1> HIDE DEF hand, steps, queue, lost, x, t, X
<1>3. /\ run' \in Runs /\ run'.job = run.job /\ run'.pc = run.pc /\ run'.planned = run.planned
      /\ run'.blind = run.blind /\ run'.copying = run.copying /\ run'.writer = run.writer
      /\ run'.waiting = run.waiting /\ run'.hand = hand /\ run'.at = steps
      /\ run'.queue = queue /\ run'.outcomes = run.outcomes
      /\ run'.built = run.built /\ run'.failed = run.failed /\ run'.lost = lost
    BY ONLY <1>0, <1>2 DEF Runs
<1>4. t \in InHand /\ InHand' = InHand \ X /\ HandsAgree' /\ Unique' /\ CoastStored'
    BY <1>3, PutDown DEF hand, steps, t, X
<1>5. t \notin Queued
    BY <1>4, BuildParts, PlacesAre, SlotsAre DEF Partition
<1>6. Reported' = Reported /\ X \subseteq InHand /\ engine' = engine
    BY <1>3, <1>4 DEF Reported, X, engine
<1>7. ~gone => /\ \A a, b \in queue : a.tile = b.tile => a = b
               /\ Queued' = Queued \cup X
    <2> SUFFICES ASSUME ~gone
                 PROVE  /\ \A a, b \in queue : a.tile = b.tile => a = b
                        /\ Queued' = Queued \cup X
        OBVIOUS
    <2>1. x.tile \notin {a.tile : a \in run.queue}
        BY <1>1, <1>5 DEF Queued
    <2>2. \A a, b \in run.queue : a.tile = b.tile => a = b
        BY BuildParts DEF ChannelShape
    <2> QED
        BY <1>1, <1>3, <2>1, <2>2, Sent DEF queue, Queued, X
<1>8. ChannelShape'
    <2>1. CASE gone
        BY <1>3, <1>6, <2>1, BuildParts DEF ChannelShape, Single, queue
    <2>2. CASE ~gone
        <3>1. run.writer \in {"opening", "open"}
            BY <1>0, <2>2, BuildParts DEF Runs
        <3> QED
            BY <1>3, <1>6, <1>7, <2>2, <3>1, BuildParts DEF ChannelShape, Single
    <2> QED
        BY <2>1, <2>2
<1>9. Partition(Places', run.planned)
    <2>1. CASE gone
        <3>1. Queued' = Queued /\ run'.lost = run.lost \cup X
            BY <1>3, <2>1 DEF Queued, queue, lost, X
        <3>2. /\ Places'[2] = Places[2] \ X /\ Places'[7] = Places[7] \cup X /\ X \subseteq Places[2]
              /\ Places'[1] = Places[1] /\ Places'[3] = Places[3] /\ Places'[4] = Places[4]
              /\ Places'[5] = Places[5] /\ Places'[6] = Places[6]
            BY <1>3, <1>4, <1>6, <3>1, PlacesAre, PlacesAreNext
        <3>3. Moved(X, 2, 7)
            BY <3>2, SlotsAre DEF Moved
        <3> QED
            BY <3>3, BuildParts, MoveKeepsPlaces, SlotsAre
    <2>2. CASE ~gone
        <3>1. Queued' = Queued \cup X /\ run'.lost = run.lost
            BY <1>3, <1>7, <2>2 DEF lost
        <3>2. /\ Places'[2] = Places[2] \ X /\ Places'[3] = Places[3] \cup X /\ X \subseteq Places[2]
              /\ Places'[1] = Places[1] /\ Places'[4] = Places[4]
              /\ Places'[5] = Places[5] /\ Places'[6] = Places[6] /\ Places'[7] = Places[7]
            BY <1>3, <1>4, <1>6, <3>1, PlacesAre, PlacesAreNext
        <3>3. Moved(X, 2, 3)
            BY <3>2, SlotsAre DEF Moved
        <3> QED
            BY <3>3, BuildParts, MoveKeepsPlaces, SlotsAre
    <2> QED
        BY <2>1, <2>2
<1>10. trouble' = 0 => \A y \in run'.queue : y.what # "whole" => y.tile \in LunarTiles /\ ~Centred(y.tile)
    <2> SUFFICES ASSUME trouble' = 0, NEW y \in run'.queue, y.what # "whole"
                 PROVE  y.tile \in LunarTiles /\ ~Centred(y.tile)
        OBVIOUS
    <2>1. CASE y \in run.queue
        BY <2>1, BuildParts DEF Later
    <2>2. CASE y = x
        BY <1>1, <2>2 DEF t
    <2> QED
        BY <1>3, <2>1, <2>2 DEF queue
<1>11. Building
    BY <1>3, <1>4, <1>8, <1>9, <1>10 DEF Building
<1> QED
    BY <1>3, <1>4, <1>11, StaysStored, BuildQuietly

\* A thread that has computed a tile goes on to hand it over.
LEMMA BuildTileContoursStep ==
    ASSUME Safe, NEW w \in Workers, BuildTileContours(w)
    PROVE  Safe'
<1>1. at("build") /\ run.at[w] # "idle" /\ Single /\ UNCHANGED data /\ Quiet /\ (Works \/ Fails)
    BY DEF BuildTileContours, Holds, Single
<1>2. Later /\ DataStep /\ (Fails => trouble' # 0)
    BY <1>1, TimePasses, DataStays DEF Safe, IInv
<1>3. \E what \in {"empty", "part", "whole"} : Hand(w, what) /\ (what # "whole" => Fails)
    BY DEF BuildTileContours
<1> QED
    BY <1>1, <1>2, <1>3, HandKeeps

\* While nothing has failed, a tile that needs no chunk but its centre's comes out whole.
LEMMA SampleChunksStep ==
    ASSUME Safe, NEW w \in Workers, SampleChunks(w)
    PROVE  Safe'
<1>1. /\ at("build") /\ run.at[w] # "idle" /\ engine = "lunar" /\ Single
      /\ UNCHANGED data /\ Quiet /\ Works
    BY DEF SampleChunks, Holds, Single
<1>2. Later /\ DataStep /\ Tile(w) \in Tiles
    BY <1>1, TimePasses, DataStays, StaysStored DEF Safe, IInv
<1>3. PICK what \in Sampled(Tile(w)) : Hand(w, what)
    BY DEF SampleChunks
<1>4. PICK memo \in SUBSET run.blind :
        what = Outcome(Tile(w), {c \in Chunks : chunk[c] = "whole"} \ memo)
    BY <1>3 DEF Sampled
<1>5. what \in {"empty", "part", "whole"}
    BY <1>4 DEF Outcome
<1>6. Tile(w) \in run.planned
    BY <1>1, HeldIsPlanned
<1>7. Tile(w) \in LunarTiles /\ CentreChunk[Tile(w)] \in Chunks
    BY <1>1, <1>6, PlannedTiles DEF at
<1>8. ASSUME trouble' = 0, Centred(Tile(w))
      PROVE  what = "whole"
    <2>1. chunk[CentreChunk[Tile(w)]] = "whole" /\ CentreChunk[Tile(w)] \notin run.blind
        BY <1>1, <1>2, <1>6, <1>8 DEF Safe, IInv, SourceShape, Later
    <2>2. SampledChunks[Tile(w)] \subseteq {c \in Chunks : chunk[c] = "whole"} \ memo
        BY <1>7, <1>8, <2>1 DEF Centred
    <2> QED
        BY <1>4, <2>2 DEF Outcome
<1> QED
    BY <1>1, <1>2, <1>3, <1>5, <1>7, <1>8, HandKeeps

\* So does one that ran the GDAL programs, or failed.
LEMMA WarpAndContourStep ==
    ASSUME Safe, NEW w \in Workers, WarpAndContour(w)
    PROVE  Safe'
<1> DEFINE how == "failed"
           step == "import"
<1>1. at("build") /\ run.at[w] # "idle" /\ UNCHANGED data /\ Quiet /\ (Works \/ Fails)
    BY DEF WarpAndContour, Holds
<1>2. Later /\ DataStep
    BY <1>1, TimePasses, DataStays DEF Safe, IInv
<1>3. /\ how \in {"built", "failed"} /\ how # "built"
      /\ step \in {"import", "coast"} /\ step # "coast"
      /\ run' = [run EXCEPT !.at[w] = step] \/ run' = Report(Idle(run, w), how, Tile(w))
    BY DEF WarpAndContour
<1> HIDE DEF how, step
<1> QED
    BY <1>1, <1>2, <1>3, HoldKeeps, ReportKeeps

\* An imported tile is whole.
LEMMA ImportTileStep ==
    ASSUME Safe, NEW w \in Workers, ImportTile(w)
    PROVE  Safe'
<1> DEFINE yes == "built"
           no == "failed"
           step == "coast"
<1>1. /\ at("build") /\ run.at[w] # "idle" /\ UNCHANGED <<coast, tagged, chunk, mosaic>> /\ Quiet
      /\ Works \/ Fails
    BY DEF ImportTile, Holds
<1>2. Later /\ Tile(w) \in Tiles /\ stored \in [Tiles -> Rows] /\ engine \in Engines
    BY <1>1, TimePasses, BuildParts, PlannedTiles, StaysStored DEF Safe, IInv, TypeOK, at, HandsAgree, Runs, Tile
<1>3. CASE /\ Store(Tile(w), "whole")
           /\ run' = IF engine = "gdal" THEN [run EXCEPT !.at[w] = "coast"]
                     ELSE Report(Idle(run, w), "built", Tile(w))
    <2> DEFINE what == "whole"
               by == engine
    <2>1. /\ what \in {"empty", "part", "whole"} /\ what = "whole" /\ by \in Engines \cup {"desktop"}
          /\ stored' = [stored EXCEPT ![Tile(w)] = [what |-> what, by |-> by]]
          /\ stored'[Tile(w)].what # "none"
        BY <1>2, <1>3 DEF Store
    <2>2. /\ coast' \subseteq EarthTiles /\ tagged' \in BOOLEAN
          /\ mosaic' \in {"absent", "torn", "whole"} /\ UNCHANGED chunk
        BY <1>1 DEF Safe, IInv, TypeOK
    <2> HIDE DEF what, by
    <2>3. DataStep
        BY <1>2, <2>1, <2>2, RowStored
    <2>4. /\ yes \in {"built", "failed"} /\ step \in {"import", "coast"}
          /\ run' = [run EXCEPT !.at[w] = step] \/ run' = Report(Idle(run, w), yes, Tile(w))
        BY <1>3
    <2> HIDE DEF yes, step
    <2>5. stored'[run.hand[w]].what # "none"
        BY <2>1 DEF Tile
    <2>6. engine = "gdal" => run.hand[w] \in EarthTiles
        BY <1>1, HeldIsPlanned, PlannedTiles DEF Tile, at, TabOf, TilesOf
    <2>7. CASE engine = "gdal"
        BY <1>1, <1>2, <1>3, <2>3, <2>4, <2>5, <2>6, <2>7, HoldKeeps DEF step
    <2>8. CASE engine # "gdal"
        BY <1>1, <1>2, <1>3, <2>1, <2>3, <2>4, <2>8, ReportKeeps DEF yes
    <2> QED
        BY <2>7, <2>8
<1>4. CASE UNCHANGED stored /\ run' = Report(Idle(run, w), "failed", Tile(w))
    <2>1. DataStep
        BY <1>1, <1>2, <1>4, DataStays DEF data
    <2>2. no \in {"built", "failed"} /\ no # "built" /\ run' = Report(Idle(run, w), no, Tile(w))
        BY <1>4
    <2> HIDE DEF no
    <2> QED
        BY <1>1, <1>2, <2>1, <2>2, ReportKeeps
<1> QED
    BY <1>3, <1>4 DEF ImportTile

\* A tile is reported as built after its coastlines.
LEMMA ImportCoastlineStep ==
    ASSUME Safe, NEW w \in Workers, ImportCoastline(w)
    PROVE  Safe'
<1> DEFINE yes == "built"
<1>1. /\ at("build") /\ run.at[w] = "coast" /\ run.at[w] # "idle" /\ Quiet
      /\ UNCHANGED <<stored, tagged, chunk, mosaic>> /\ (Works \/ Fails)
      /\ coast' = coast \/ coast' = coast \cup {Tile(w)}
    BY DEF ImportCoastline, Holds
<1>2. Later
    BY <1>1, TimePasses DEF Safe, IInv
<1>3. Tile(w) \in EarthTiles
    BY <1>1, BuildParts DEF CoastStored
<1>4. DataStep
    <2>1. FailuresAreNotStored'
        BY <1>1, <1>2 DEF Safe, FailuresAreNotStored, Later
    <2> QED
        BY <1>1, <1>2, <1>3, <2>1 DEF Safe, IInv, TypeOK, DataStep, Absent, SourceShape, Later
<1>5. stored'[Tile(w)].what # "none"
    BY <1>1, <1>4, StaysStored DEF Tile
<1>6. yes \in {"built", "failed"} /\ run' = Report(Idle(run, w), yes, Tile(w))
    BY DEF ImportCoastline
<1> HIDE DEF yes
<1> QED
    BY <1>1, <1>2, <1>4, <1>5, <1>6, ReportKeeps

\* A panic loses what the thread held and more.
LEMMA PoolPanicsStep ==
    ASSUME Safe, NEW w \in Workers, PoolPanics(w)
    PROVE  Safe'
<1> DEFINE hand == [run.hand EXCEPT ![w] = NoTile]
           steps == [run.at EXCEPT ![w] = "idle"]
           t == Tile(w)
           X == {t}
<1>1. at("build") /\ run.at[w] # "idle" /\ UNCHANGED data /\ Quiet /\ Fails
    BY DEF PoolPanics, Holds
<1>2. Later /\ DataStep /\ run \in Runs
    BY <1>1, TimePasses, DataStays DEF Safe, IInv, TypeOK
<1>3. PICK share \in SUBSET run.waiting :
        run' = [Idle(run, w) EXCEPT !.waiting = @ \ share, !.lost = @ \cup share \cup {t}]
    BY DEF PoolPanics
<1> DEFINE waiting == run.waiting \ share
           lost == run.lost \cup share \cup X
<1>4. run' = [run EXCEPT !.hand = hand, !.at = steps, !.waiting = waiting, !.lost = lost]
    <2> HIDE DEF t
    <2> QED
        BY <1>2, <1>3 DEF Idle, Runs
<1>5. /\ hand \in [Workers -> Tiles \cup {NoTile}] /\ t \in Tiles
      /\ steps \in [Workers -> {"idle", "compute", "import", "coast"}]
      /\ waiting \in SUBSET Tiles /\ lost \in SUBSET Tiles
    BY <1>1, <1>2, HeldIsPlanned DEF Runs
<1> HIDE DEF hand, steps, waiting, lost, t, X
<1>6. /\ run' \in Runs /\ run'.job = run.job /\ run'.pc = run.pc /\ run'.planned = run.planned
      /\ run'.blind = run.blind /\ run'.copying = run.copying /\ run'.writer = run.writer
      /\ run'.waiting = waiting /\ run'.hand = hand /\ run'.at = steps
      /\ run'.queue = run.queue /\ run'.outcomes = run.outcomes
      /\ run'.built = run.built /\ run'.failed = run.failed /\ run'.lost = lost
    BY ONLY <1>2, <1>4, <1>5 DEF Runs
<1>7. X \subseteq InHand /\ InHand' = InHand \ X /\ HandsAgree' /\ Unique' /\ CoastStored'
    BY <1>1, <1>2, <1>6, PutDown DEF hand, steps, t, X
<1>8. ChannelShape'
    BY <1>1, <1>6, BuildParts DEF ChannelShape, Reported, Single, engine
<1>9. Partition(Places', run.planned)
    <2>1. Queued' = Queued /\ Reported' = Reported
        BY <1>6 DEF Queued, Reported
    <2>2. run'.waiting = run.waiting \ share /\ run'.lost = run.lost \cup share \cup X
        BY <1>6 DEF waiting, lost
    <2>3. /\ share \subseteq Places[1] /\ X \subseteq Places[2]
          /\ Places'[1] = Places[1] \ share /\ Places'[2] = Places[2] \ X
          /\ Places'[7] = Places[7] \cup share \cup X
          /\ Places'[3] = Places[3] /\ Places'[4] = Places[4]
          /\ Places'[5] = Places[5] /\ Places'[6] = Places[6]
        BY <1>3, <1>6, <1>7, <2>1, <2>2, PlacesAre, PlacesAreNext
    <2>4. \A k \in {3, 4, 5, 6} : Places'[k] = Places[k]
        BY <2>3
    <2> QED
        BY <1>1, <2>3, <2>4, BuildParts, LossKeepsPlaces
<1>10. Building
    BY <1>1, <1>2, <1>6, <1>7, <1>8, <1>9, BuildParts DEF Building, Later
<1> QED
    BY <1>1, <1>2, <1>6, <1>7, <1>10, StaysStored, BuildQuietly

\* What the writer does to its queue and its word to the job thread.
LEMMA WriterKeeps ==
    ASSUME Safe, Later, DataStep, Quiet, at("build"), run.writer # "off",
           NEW writer \in {"open", "gone"}, NEW queue \in SUBSET run.queue,
           NEW outcomes \in Reports, NEW lost \in SUBSET Tiles,
           run' = [run EXCEPT !.writer = writer, !.queue = queue, !.outcomes = outcomes, !.lost = lost],
           writer = "gone" => queue = {},
           \A x, y \in outcomes : x.tile = y.tile => x = y,
           "database" \in {x.tile : x \in outcomes} \cup run.failed => writer = "gone",
           \A x \in outcomes : x.how = "built" => x.tile \in Tiles /\ stored'[x.tile].what # "none",
           Partition(Places', run.planned)
    PROVE  Safe'
<1>1. run \in Runs /\ queue \in Queues
    BY BuildParts DEF Runs, Queues
<1>2. /\ run' \in Runs /\ run'.job = run.job /\ run'.pc = run.pc /\ run'.planned = run.planned
      /\ run'.blind = run.blind /\ run'.copying = run.copying /\ run'.writer = writer
      /\ run'.waiting = run.waiting /\ run'.hand = run.hand /\ run'.at = run.at
      /\ run'.queue = queue /\ run'.outcomes = outcomes
      /\ run'.built = run.built /\ run'.failed = run.failed /\ run'.lost = lost
    BY <1>1 DEF Runs
<1>3. HandsAgree' /\ Unique' /\ CoastStored'
    BY <1>2, SameHands
<1>4. ChannelShape'
    BY <1>2, BuildParts DEF ChannelShape, Reported, Single, engine
<1>5. \A x \in run'.outcomes : x.how = "built" => x.tile \in Tiles /\ ~Absent(x.tile)'
    BY <1>2 DEF Absent
<1>6. Building
    BY <1>2, <1>3, <1>4, BuildParts DEF Building, Later
<1> QED
    BY <1>2, <1>3, <1>5, <1>6, StaysStored, BuildQuietly

\* A writer that cannot open its database loses its queue; the lunar one says so.
LEMMA WriterOpensStep ==
    ASSUME Safe, WriterOpens
    PROVE  Safe'
<1> DEFINE gone == [run EXCEPT !.writer = "gone", !.queue = {},
                               !.lost = @ \cup {x.tile : x \in run.queue}]
<1>1. at("build") /\ run.writer = "opening" /\ UNCHANGED data /\ Quiet /\ (Works \/ Fails)
    BY DEF WriterOpens
<1>2. Later /\ DataStep /\ run \in Runs /\ Queued \subseteq Tiles /\ InHand \subseteq Tiles
    <2>1. Later /\ DataStep /\ run \in Runs
        BY <1>1, TimePasses, DataStays DEF Safe, IInv, TypeOK
    <2>2. Queued \subseteq Tiles
        BY <2>1 DEF Runs, Queues, Queued
    <2> QED
        BY <1>1, <2>1, <2>2, HeldIsPlanned DEF InHand, Tile
<1>3. /\ \A a, b \in run.queue : a.tile = b.tile => a = b
      /\ \A a, b \in run.outcomes : a.tile = b.tile => a = b
      /\ "database" \notin Reported /\ "database" \notin run.failed
      /\ Partition(Places, run.planned)
    BY <1>1, BuildParts DEF ChannelShape
<1>4. CASE run' = [run EXCEPT !.writer = "open"]
    <2> DEFINE writer == "open"
    <2>1. /\ writer \in {"open", "gone"} /\ writer # "gone"
          /\ run' = [run EXCEPT !.writer = writer, !.queue = run.queue, !.outcomes = run.outcomes,
                                !.lost = run.lost]
          /\ run.outcomes \in Reports /\ run.lost \in SUBSET Tiles
        BY <1>2, <1>4 DEF Runs
    <2>2. Places' = Places
        BY <1>2, <1>4 DEF Runs, Places, InHand, Queued, Reported
    <2> HIDE DEF writer
    <2> QED
        BY <1>1, <1>2, <1>3, <2>1, <2>2, StaysStored, WriterKeeps DEF Reported, Absent
<1> DEFINE writer == "gone"
           queue == {}
           lost == run.lost \cup Queued
           M == [k \in Slots |-> CASE k = 3 -> {} [] k = 7 -> Places[7] \cup Queued [] OTHER -> Places[k]]
<1>5. /\ writer = "gone" /\ writer \in {"open", "gone"} /\ queue = {} /\ queue \in SUBSET run.queue
      /\ lost \in SUBSET Tiles /\ lost = run.lost \cup Queued
      /\ gone = [run EXCEPT !.writer = writer, !.queue = queue, !.outcomes = run.outcomes, !.lost = lost]
    BY <1>2 DEF Runs, Queued
<1>6. /\ M[1] = run.waiting /\ M[2] = InHand /\ M[3] = {} /\ M[4] = Reported
      /\ M[5] = run.built /\ M[6] = run.failed /\ M[7] = run.lost \cup Queued
    BY SlotsAre, PlacesAre
<1> HIDE DEF writer, queue, lost, M
<1>7. Partition(M, run.planned)
    <2> DEFINE i == 3
               j == 7
               P == Places
               U == run.planned
               X == Queued
    <2>1. /\ i \in Slots /\ j \in Slots /\ i # j /\ \A k \in Slots \ {i, j} : M[k] = P[k]
          /\ X \subseteq P[i] /\ M[i] = P[i] \ X /\ M[j] = P[j] \cup X
        BY <1>6, SlotsAre, PlacesAre
    <2>2. Partition(P, U)
        BY <1>3
    <2> HIDE DEF i, j, P, U, X
    <2>3. Partition(M, U)
        BY ONLY <2>1, <2>2, MoveKeepsPartition
    <2> QED
        BY <2>3 DEF U
<1>8. CASE run' = gone
    <2>1. /\ run' = [run EXCEPT !.writer = writer, !.queue = queue, !.outcomes = run.outcomes, !.lost = lost]
          /\ run.outcomes \in Reports
        BY <1>2, <1>5, <1>8 DEF Runs
    <2>2. /\ run'.waiting = run.waiting /\ run'.hand = run.hand /\ run'.at = run.at
          /\ run'.queue = {} /\ run'.outcomes = run.outcomes
          /\ run'.built = run.built /\ run'.failed = run.failed /\ run'.lost = run.lost \cup Queued
        BY <1>2, <1>5, <2>1 DEF Runs
    <2>3. Partition(Places', run.planned)
        <3>1. InHand' = InHand /\ Queued' = {} /\ Reported' = Reported
            BY <2>2 DEF InHand, Queued, Reported
        <3>2. \A k \in Slots : Places'[k] = M[k]
            BY <1>6, <2>2, <3>1, SlotsAre, PlacesAreNext
        <3> QED
            BY <1>7, <3>2 DEF Partition
    <2> QED
        BY <1>1, <1>2, <1>3, <1>5, <2>1, <2>3, StaysStored, WriterKeeps DEF Reported, Absent
<1>9. CASE run' = Report(gone, "failed", "database")
    <2> DEFINE x == [tile |-> "database", how |-> "failed"]
               outcomes == run.outcomes \cup {x}
    <2>1. x.tile = "database" /\ x.how = "failed" /\ x.how # "built"
        OBVIOUS
    <2>2. outcomes \in Reports
        BY <1>2 DEF Runs, Reports
    <2>3. run' = [gone EXCEPT !.outcomes = @ \cup {x}]
        BY <1>9 DEF Report
    <2> HIDE DEF x
    <2>4. run' = [run EXCEPT !.writer = writer, !.queue = queue, !.outcomes = outcomes, !.lost = lost]
        BY <1>2, <1>5, <2>3 DEF Runs
    <2>5. /\ \A a, b \in outcomes : a.tile = b.tile => a = b
          /\ {a.tile : a \in outcomes} = Reported \cup {"database"}
        BY <1>3, <2>1, Sent DEF Reported
    <2>6. \A a \in outcomes : a.how = "built" => a.tile \in Tiles /\ stored'[a.tile].what # "none"
        BY <1>1, <1>2, <2>1, StaysStored DEF Absent
    <2> HIDE DEF outcomes
    <2>7. /\ run'.waiting = run.waiting /\ run'.hand = run.hand /\ run'.at = run.at
          /\ run'.queue = {} /\ run'.outcomes = outcomes
          /\ run'.built = run.built /\ run'.failed = run.failed /\ run'.lost = run.lost \cup Queued
        BY <1>2, <1>5, <2>4 DEF Runs
    <2>8. Partition(Places', run.planned)
        <3> DEFINE j == 4
                   Q == Places'
        <3>1. InHand' = InHand /\ Queued' = {} /\ Reported' = Reported \cup {"database"}
            BY <2>5, <2>7 DEF InHand, Queued, Reported
        <3>2. /\ j \in Slots /\ Q[j] = M[j] \cup {"database"}
              /\ \A k \in Slots \ {j} : Q[k] = M[k]
            BY <1>6, <2>7, <3>1, SlotsAre, PlacesAreNext
        <3>3. "database" \notin Tiles /\ run.waiting \subseteq Tiles /\ run.built \subseteq Tiles
              /\ run.lost \subseteq Tiles
            BY <1>2, TilesAssumption DEF Runs
        <3>4. \A k \in Slots : "database" \notin M[k]
            BY <1>2, <1>3, <1>6, <3>3, SlotsAre
        <3> HIDE DEF j, Q
        <3>5. Partition(Q, run.planned)
            BY ONLY <1>7, <3>2, <3>4, DatabaseKeepsPartition
        <3> QED
            BY <3>5 DEF Q
    <2> QED
        BY <1>1, <1>2, <1>5, <2>2, <2>4, <2>5, <2>6, <2>8, WriterKeeps
<1> QED
    BY <1>1, <1>4, <1>8, <1>9 DEF WriterOpens

\* The writer stores what is whole or excused, and says whether it could.
LEMMA WriteTileStep ==
    ASSUME Safe, NEW x \in run.queue, WriteTile(x)
    PROVE  Safe'
<1> DEFINE t == x.tile
           queue == run.queue \ {x}
           X == {t}
           writer == "open"
<1>1. /\ at("build") /\ run.writer = "open" /\ UNCHANGED <<tagged, chunk, mosaic>> /\ Quiet
      /\ Works \/ Fails
    BY DEF WriteTile
<1>2. Later /\ run \in Runs
    BY <1>1, TimePasses DEF Safe, IInv, TypeOK
<1>3. /\ t \in Tiles /\ x.what \in {"empty", "part", "whole"} /\ t # "database"
      /\ engine \in {"native", "lunar"} /\ engine \in Engines
      /\ \A a, b \in run.queue : a.tile = b.tile => a = b
      /\ \A a, b \in run.outcomes : a.tile = b.tile => a = b
    BY <1>1, <1>2, BuildParts, TilesAssumption DEF Runs, Queues, Single, ChannelShape, Engines
<1>4. ASSUME DataStep, NEW how \in {"built", "failed"}, how = "built" => stored'[t].what # "none",
             run' = Report([run EXCEPT !.queue = @ \ {x}], how, t)
      PROVE  Safe'
    <2> DEFINE r == [tile |-> t, how |-> how]
               outcomes == run.outcomes \cup {r}
    <2>1. r.tile = t /\ r.how = how /\ outcomes \in Reports /\ queue \in SUBSET run.queue
          /\ run.lost \in SUBSET Tiles /\ writer \in {"open", "gone"} /\ writer # "gone"
        BY <1>2, <1>3 DEF Runs, Reports
    <2>2. run' = [run EXCEPT !.writer = writer, !.queue = queue, !.outcomes = outcomes, !.lost = run.lost]
        <3>1. run' = [[run EXCEPT !.queue = queue] EXCEPT !.outcomes = @ \cup {r}]
            BY <1>4 DEF Report
        <3> HIDE DEF queue, r
        <3> QED
            BY <1>1, <1>2, <3>1 DEF Runs
    <2> HIDE DEF r, queue, writer
    <2>3. t \in Queued /\ t \notin Reported
        <3>1. t \in Queued
            BY DEF Queued
        <3> QED
            BY <1>1, <3>1, BuildParts, PlacesAre, SlotsAre DEF Partition
    <2>4. /\ \A a, b \in outcomes : a.tile = b.tile => a = b
          /\ {a.tile : a \in outcomes} = Reported \cup X
        BY <1>3, <2>1, <2>3, Sent DEF Reported
    <2>5. \A a \in outcomes : a.how = "built" => a.tile \in Tiles /\ stored'[a.tile].what # "none"
        BY <1>1, <1>3, <1>4, <2>1, StaysStored DEF Absent
    <2> HIDE DEF outcomes, t
    <2>6. /\ run'.waiting = run.waiting /\ run'.hand = run.hand /\ run'.at = run.at
          /\ run'.queue = queue /\ run'.outcomes = outcomes
          /\ run'.built = run.built /\ run'.failed = run.failed /\ run'.lost = run.lost
        BY <1>2, <2>2 DEF Runs
    <2>7. "database" \notin {a.tile : a \in outcomes} \cup run.failed
        BY <1>1, <1>3, <2>4, BuildParts DEF ChannelShape
    <2>8. Partition(Places', run.planned)
        <3>1. Queued' = Queued \ X
            BY <1>3, <2>6, Received DEF Queued, queue, X, t
        <3>2. InHand' = InHand /\ Reported' = Reported \cup X
            BY <2>4, <2>6 DEF InHand, Reported
        <3>3. X \subseteq Queued
            BY <2>3
        <3> HIDE DEF X
        <3>4. /\ Places'[3] = Places[3] \ X /\ Places'[4] = Places[4] \cup X /\ X \subseteq Places[3]
              /\ Places'[1] = Places[1] /\ Places'[2] = Places[2] /\ Places'[5] = Places[5]
              /\ Places'[6] = Places[6] /\ Places'[7] = Places[7]
            BY <2>6, <3>1, <3>2, <3>3, PlacesAre, PlacesAreNext
        <3>5. Moved(X, 3, 4)
            BY <3>4, SlotsAre DEF Moved
        <3> QED
            BY <1>1, <3>5, BuildParts, MoveKeepsPlaces, SlotsAre
    <2> QED
        <3>1. at("build") /\ run.writer # "off" /\ Quiet /\ Later /\ DataStep
            BY <1>1, <1>2, <1>4
        <3>2. \A a, b \in outcomes : a.tile = b.tile => a = b
            BY <2>4
        <3> QED
            BY ONLY Safe, <3>1, <3>2, <2>1, <2>2, <2>5, <2>7, <2>8, WriterKeeps
<1>5. CASE /\ Store(x.tile, x.what) /\ coast' = coast \cup ({x.tile} \cap EarthTiles)
           /\ run' = Report([run EXCEPT !.queue = @ \ {x}], "built", x.tile)
    <2> DEFINE what == x.what
               by == engine
               yes == "built"
    <2>1. /\ what \in {"empty", "part", "whole"} /\ by \in Engines \cup {"desktop"}
          /\ stored' = [stored EXCEPT ![t] = [what |-> what, by |-> by]]
          /\ stored'[t].what # "none"
        <3>1. stored \in [Tiles -> Rows]
            BY DEF Safe, IInv, TypeOK
        <3> QED
            BY <1>3, <1>5, <3>1 DEF Store
    <2>2. /\ coast' \subseteq EarthTiles /\ tagged' \in BOOLEAN
          /\ mosaic' \in {"absent", "torn", "whole"} /\ UNCHANGED chunk
        BY <1>1, <1>5 DEF Safe, IInv, TypeOK
    <2>3. what # "whole" =>
             /\ by \notin {"gdal", "gpu"} /\ (by = "mars" => t \notin CtxTiles)
             /\ by \in {"native", "lunar"} /\ trouble' = 0 =>
                  t \in LunarTiles /\ SampledChunks[t] # {CentreChunk[t]}
        BY <1>1, <1>2, <1>3, BuildParts DEF Later, Centred
    <2>4. yes \in {"built", "failed"} /\ run' = Report([run EXCEPT !.queue = @ \ {x}], yes, t)
        BY <1>5
    <2> HIDE DEF what, by, yes, t
    <2>5. DataStep
        BY <1>2, <1>3, <2>1, <2>2, <2>3, RowStored
    <2> QED
        BY <1>4, <2>1, <2>4, <2>5
<1>6. CASE /\ UNCHANGED <<stored, coast>>
           /\ run' = Report([run EXCEPT !.queue = @ \ {x}], "failed", x.tile)
    <2> DEFINE no == "failed"
    <2>1. no \in {"built", "failed"} /\ no # "built"
          /\ run' = Report([run EXCEPT !.queue = @ \ {x}], no, t)
        BY <1>6
    <2>2. DataStep
        BY <1>1, <1>2, <1>6, DataStays DEF data
    <2> HIDE DEF no, t
    <2> QED
        BY <1>4, <2>1, <2>2
<1> QED
    BY <1>5, <1>6 DEF WriteTile

\* The writer ends when nobody can send to it, or by failing.
LEMMA WriterEndsStep ==
    ASSUME Safe, WriterEnds
    PROVE  Safe'
<1> DEFINE writer == "gone"
           queue == {}
<1>1. at("build") /\ run.writer = "open" /\ run.queue = {} /\ Works /\ UNCHANGED data /\ Quiet
    BY DEF WriterEnds
<1>2. Later /\ DataStep /\ run \in Runs
    BY <1>1, TimePasses, DataStays DEF Safe, IInv, TypeOK
<1>3. /\ writer \in {"open", "gone"} /\ writer = "gone" /\ queue \in SUBSET run.queue /\ queue = {}
      /\ run' = [run EXCEPT !.writer = writer, !.queue = queue, !.outcomes = run.outcomes,
                            !.lost = run.lost]
      /\ run.outcomes \in Reports /\ run.lost \in SUBSET Tiles
    BY <1>1, <1>2 DEF WriterEnds, Runs
<1>4. Places' = Places
    BY <1>1, <1>2 DEF WriterEnds, Runs, Places, InHand, Queued, Reported
<1> HIDE DEF writer, queue
<1> QED
    BY <1>1, <1>2, <1>3, <1>4, BuildParts, StaysStored, WriterKeeps DEF ChannelShape, Absent

-----------------------------------------------------------------------------
(* The reports of the tiles and of the job.                                *)

\* What the job thread passes on.
LEMMA DrainStep ==
    ASSUME Safe, NEW x \in run.outcomes, Drain(x)
    PROVE  Safe'
<1> DEFINE t == x.tile
           X == {t}
           outcomes == run.outcomes \ {x}
           built == IF x.how = "built" THEN run.built \cup X ELSE run.built
           failed == IF x.how = "failed" THEN run.failed \cup X ELSE run.failed
           heard == IF x.how = "built" THEN events.built \cup X ELSE events.built
<1>1. /\ at("build") /\ Works /\ UNCHANGED <<data, app, live>>
      /\ run' = [run EXCEPT !.outcomes = outcomes, !.built = built, !.failed = failed]
    BY DEF Drain, shown
<1>2. Later /\ DataStep /\ run \in Runs /\ events \in [built : SUBSET Tiles, result : Results]
    BY <1>1, TimePasses, DataStays DEF Safe, IInv, TypeOK
<1>3. /\ x.how \in {"built", "failed"} /\ t \in Tiles \cup {"database"}
      /\ x.how = "built" => t \in Tiles /\ stored'[t].what # "none"
    <2>1. x.how \in {"built", "failed"} /\ t \in Tiles \cup {"database"}
        BY <1>2 DEF Runs, Reports
    <2> QED
        BY <1>1, <1>2, <2>1, StaysStored DEF Absent
<1>4. /\ outcomes \in Reports /\ built \in SUBSET Tiles
      /\ failed \in SUBSET (Tiles \cup {"database"}) /\ heard \in SUBSET Tiles
    BY <1>2, <1>3 DEF Runs, Reports
<1>5. /\ events' \in [built : SUBSET Tiles, result : Results]
      /\ events'.result = events.result /\ events'.built = heard
    <2>1. events' = [events EXCEPT !.built = heard]
        BY <1>2 DEF Drain
    <2> HIDE DEF heard
    <2> QED
        BY <1>2, <1>4, <2>1
<1> HIDE DEF outcomes, built, failed, heard, t
<1>6. /\ run' \in Runs /\ run'.job = run.job /\ run'.pc = run.pc /\ run'.planned = run.planned
      /\ run'.blind = run.blind /\ run'.copying = run.copying /\ run'.writer = run.writer
      /\ run'.waiting = run.waiting /\ run'.hand = run.hand /\ run'.at = run.at
      /\ run'.queue = run.queue /\ run'.outcomes = outcomes
      /\ run'.built = built /\ run'.failed = failed /\ run'.lost = run.lost
    BY <1>1, <1>2, <1>4 DEF Runs
<1>7. InHand' = InHand /\ HandsAgree' /\ Unique' /\ CoastStored'
    BY <1>1, <1>2, <1>6, SameHands
<1>8. /\ \A a, b \in outcomes : a.tile = b.tile => a = b
      /\ Reported' = Reported \ X /\ X \subseteq Reported
    BY <1>1, <1>6, BuildParts, Received DEF ChannelShape, Reported, outcomes, X, t
<1>9. ChannelShape'
    <2>1. Reported' \cup run'.failed \subseteq Reported \cup run.failed
        BY <1>6, <1>8 DEF failed
    <2> QED
        BY <1>1, <1>6, <1>8, <2>1, BuildParts DEF ChannelShape, Single, engine
<1>10. Partition(Places', run.planned)
    <2>1. Queued' = Queued
        BY <1>6 DEF Queued
    <2>2. CASE x.how = "built"
        <3>1. run'.built = run.built \cup X /\ run'.failed = run.failed
            BY <1>6, <2>2 DEF built, failed
        <3> HIDE DEF X
        <3>2. /\ Places'[4] = Places[4] \ X /\ Places'[5] = Places[5] \cup X /\ X \subseteq Places[4]
              /\ Places'[1] = Places[1] /\ Places'[2] = Places[2] /\ Places'[3] = Places[3]
              /\ Places'[6] = Places[6] /\ Places'[7] = Places[7]
            BY <1>6, <1>7, <1>8, <2>1, <3>1, PlacesAre, PlacesAreNext
        <3>3. Moved(X, 4, 5)
            BY <3>2, SlotsAre DEF Moved
        <3> QED
            BY <1>1, <3>3, BuildParts, MoveKeepsPlaces, SlotsAre
    <2>3. CASE x.how = "failed"
        <3>1. run'.failed = run.failed \cup X /\ run'.built = run.built
            BY <1>6, <2>3 DEF built, failed
        <3> HIDE DEF X
        <3>2. /\ Places'[4] = Places[4] \ X /\ Places'[6] = Places[6] \cup X /\ X \subseteq Places[4]
              /\ Places'[1] = Places[1] /\ Places'[2] = Places[2] /\ Places'[3] = Places[3]
              /\ Places'[5] = Places[5] /\ Places'[7] = Places[7]
            BY <1>6, <1>7, <1>8, <2>1, <3>1, PlacesAre, PlacesAreNext
        <3>3. Moved(X, 4, 6)
            BY <3>2, SlotsAre DEF Moved
        <3> QED
            BY <1>1, <3>3, BuildParts, MoveKeepsPlaces, SlotsAre
    <2> QED
        BY <1>3, <2>2, <2>3
<1>11. Building
    BY <1>1, <1>2, <1>6, <1>7, <1>9, <1>10, BuildParts DEF Building, Later
<1>12. ReportShape'
    <2>1. \A u \in run'.built : ~Absent(u)'
        BY <1>1, <1>2, <1>3, <1>6, StaysStored DEF built, X, Absent
    <2>2. \A y \in run'.outcomes : y.how = "built" => y.tile \in Tiles /\ ~Absent(y.tile)'
        BY <1>1, <1>2, <1>6, StaysStored DEF outcomes
    <2>3. ASSUME NEW u \in heard
          PROVE  app.active /\ u \in TilesOf(app.tab) /\ stored'[u].what # "none"
        <3>1. CASE u \in events.built
            BY <1>2, <3>1 DEF Safe, IInv, ReportShape, DataStep, Absent
        <3>2. CASE x.how = "built" /\ u = t
            <4>1. t \in run.planned
                <5>1. t \in Reported /\ t # "database"
                    BY <1>3, <1>8, <3>2, TilesAssumption
                <5> QED
                    BY <1>1, <5>1, BuildParts, PlacesAre, SlotsAre DEF Partition
            <4>2. app.active /\ app.tab = TabOf(engine)
                BY <1>1 DEF Safe, IInv, TypeOK, StageShape, at
            <4> QED
                BY <1>1, <1>3, <3>2, <4>1, <4>2, PlannedTiles DEF at
        <3> QED
            BY <3>1, <3>2 DEF heard
    <2>4. \A u \in events'.built : app'.active /\ u \in TilesOf(app'.tab) /\ stored'[u].what # "none"
        BY <1>1, <1>5, <2>3
    <2> QED
        BY <1>7, <2>1, <2>2, <2>4 DEF ReportShape, CoastStored, Absent
<1>13. ReportsAreTrue'
    <2>1. events'.result = events.result /\ app'.result = app.result /\ live' = live /\ stored' = stored
        BY <1>1, <1>5 DEF data
    <2> QED
        BY <2>1 DEF Safe, ReportsAreTrue, Absent
<1> QED
    BY <1>1, <1>2, <1>5, <1>11, <1>12, <1>13, BuildKeeps

\* When the last sender is gone, every tile has been reported or is lost.
LEMMA EndBuildStep ==
    ASSUME Safe, EndBuild
    PROVE  Safe'
<1> DEFINE kind == "ok"
           left == IF run.writer = "gone" THEN run.waiting \cup InHand ELSE {}
<1>1. /\ at("build") /\ ~at("off") /\ run.outcomes = {} /\ Closed /\ Works /\ UNCHANGED data
      /\ kind \in {"ok", "failed"} /\ EndLosing(kind, left)
    BY DEF EndBuild, at
<1>2. Later /\ DataStep /\ run \in Runs
    BY <1>1, TimePasses, DataStays DEF Safe, IInv, TypeOK
<1>3. left \in SUBSET Tiles
    <2>1. InHand \subseteq Tiles /\ run.waiting \subseteq Tiles
        BY <1>1, <1>2, HeldIsPlanned DEF InHand, Tile, Runs
    <2> QED
        BY <2>1
<1>4. Queued = {} /\ Reported = {} /\ left = run.waiting \cup InHand
    <2>1. CASE Single
        <3>1. run.writer = "gone" /\ run.queue = {}
            BY <1>1, <2>1, BuildParts DEF Closed, ChannelShape
        <3> QED
            BY <1>1, <3>1 DEF Queued, Reported
    <2>2. CASE ~Single
        <3>1. run.writer = "off" /\ run.queue = {} /\ PoolIdle
            BY <1>1, <2>2, BuildParts DEF Closed, ChannelShape
        <3> QED
            BY <1>1, <3>1 DEF Queued, Reported, PoolIdle, InHand
    <2> QED
        BY <2>1, <2>2
<1>5. run.planned = (run.built \cup run.failed \cup (run.lost \cup left)) \ {"database"}
    <2>1. run.planned = (run.waiting \cup InHand \cup Queued \cup Reported \cup run.built
                         \cup run.failed \cup run.lost) \ {"database"}
        <3>1. UNION {Places[i] : i \in Slots} =
                run.waiting \cup InHand \cup Queued \cup Reported \cup run.built \cup run.failed \cup run.lost
            BY PlacesAre, SlotsAre
        <3> QED
            BY <1>1, <3>1, BuildParts DEF Partition
    <2> HIDE DEF left
    <2> QED
        BY <1>4, <2>1
<1> HIDE DEF kind, left
<1> QED
    BY <1>1, <1>2, <1>3, <1>5, EndKeeps

-----------------------------------------------------------------------------
(* The theorems.                                                           *)

\* No job, no event, no app state: the invariant holds.
LEMMA InitHolds ==
    ASSUME Init
    PROVE  Safe
<1>1. /\ NoRun.pc = "off" /\ NoRun.queue = {} /\ NoRun.outcomes = {} /\ NoRun.failed = {}
      /\ NoRun.built = {} /\ NoRun.copying = {}
      /\ \A w \in Workers : NoRun.at[w] = "idle" /\ NoRun.hand[w] = NoTile
      /\ NoEvents.built = {} /\ NoEvents.result = NoResult
      /\ NoApp.active = FALSE /\ NoApp.result = NoResult
      /\ NoResult.built = {} /\ NoResult.kind # "ok"
    BY DEF NoRun, NoEvents, NoApp, NoResult
<1>2. /\ run = NoRun /\ events = NoEvents /\ app = NoApp /\ scene \in Cases /\ trouble = 0
      /\ coast = {} /\ tagged = FALSE /\ mosaic = "absent"
      /\ live \in [Tabs -> SUBSET Tiles] /\ \A tab \in Tabs : live[tab] = {}
      /\ chunk \in [Chunks -> {"absent", "torn", "whole"}] /\ \A c \in Chunks : chunk[c] # "torn"
    BY DEF Init, Tabs
<1>3. /\ stored \in [Tiles -> Rows]
      /\ \A t \in Tiles : stored[t].what \in {"empty", "part"} => stored[t].by = "old"
    <2> DEFINE old == [what |-> "part", by |-> "old"]
    <2>1. /\ stored = [t \in Tiles |-> IF scene.old /\ t \in EarthTiles THEN old ELSE Missing]
          /\ old \in Rows /\ Missing \in Rows /\ old.by = "old" /\ Missing.what = "none"
        BY DEF Init, Missing, Rows, Contents
    <2> HIDE DEF old
    <2> QED
        BY <2>1
<1>4. TypeOK
    <2>1. trouble \in 0..scene.budget
        BY <1>2, CasesAssumption
    <2> QED
        BY <1>1, <1>2, <1>3, <2>1, BlankRecords DEF TypeOK
<1>5. StageShape /\ ChannelShape /\ TilesHaveAPlace
    BY <1>1, <1>2 DEF StageShape, ChannelShape, TilesHaveAPlace, Reported, at
<1>6. ReportShape /\ SourceShape
    BY <1>1, <1>2 DEF ReportShape, SourceShape, at
<1>7. ReportsAreTrue
    BY <1>1, <1>2 DEF ReportsAreTrue
<1>8. FailuresAreNotStored
    BY <1>3 DEF FailuresAreNotStored
<1> QED
    BY <1>4, <1>5, <1>6, <1>7, <1>8 DEF Safe, IInv

\* Every step keeps the strengthened invariant.
LEMMA StepHolds ==
    ASSUME Safe, [Next]_vars
    PROVE  Safe'
<1>1. CASE UNCHANGED vars
    <2>1. /\ UNCHANGED <<data, run, events, app, live>> /\ UNCHANGED <<scene, trouble>>
        BY <1>1 DEF vars, shown
    <2>2. Works
        BY <2>1 DEF Works
    <2>3. Later /\ DataStep
        BY <2>1, <2>2, TimePasses, DataStays DEF Safe, IInv
    <2> QED
        BY <2>1, <2>3, FilesChange
<1>2. ASSUME Ask \/ PollJob \/ Kill \/ Desktop
      PROVE  Safe'
    BY <1>2, StartStep, PollJobStep, KillStep, DesktopStep DEF Ask
<1>3. ASSUME JobThread
      PROVE  Safe'
    <2>1. CASE PrepareEarth \/ PrepareLunar \/ PrepareMars
        BY <2>1, PrepareStep
    <2>2. CASE \E t \in Tiles : PlanTile(t) \/ PlanMars(t) \/ BuildBbox(t)
        BY <2>2, PlanTileStep, PlanMarsStep, BuildBboxStep
    <2>3. CASE EndPlan \/ EndCut \/ EndBbox \/ EndBuild
        BY <2>3, EndPlanStep, EndCutStep, EndBboxStep, EndBuildStep
    <2>4. CASE \E c \in Chunks : EnsureSourceChunk(c) \/ CopyChunk(c)
        BY <2>4, EnsureSourceChunkStep, CopyChunkStep
    <2>5. CASE \E x \in run.outcomes : Drain(x)
        BY <2>5, DrainStep
    <2> QED
        BY <1>3, <2>1, <2>2, <2>3, <2>4, <2>5 DEF JobThread
<1>4. ASSUME Pool
      PROVE  Safe'
    <2>1. PICK w \in Workers :
            \/ \E t \in Tiles : TakeTile(w, t)
            \/ BuildTileContours(w) \/ SampleChunks(w)
            \/ WarpAndContour(w) \/ ImportTile(w) \/ ImportCoastline(w) \/ PoolPanics(w)
        BY <1>4 DEF Pool
    <2> QED
        BY <2>1, TakeTileStep, BuildTileContoursStep, SampleChunksStep, WarpAndContourStep,
           ImportTileStep, ImportCoastlineStep, PoolPanicsStep
<1>5. ASSUME Writer
      PROVE  Safe'
    BY <1>5, WriterOpensStep, WriteTileStep, WriterEndsStep DEF Writer
<1> QED
    BY <1>1, <1>2, <1>3, <1>4, <1>5 DEF Next

\* Hence it holds always.
LEMMA SafeAlways == Spec => []Safe
BY InitHolds, StepHolds, PTL DEF Spec

\* No tile is dropped or doubled: from the plan of a job to its end every planned
\* tile is waiting, in a hand, on its way to the writer, on its way to the job
\* thread, reported, or lost with a panic or a writer, and only one of these
\* (contours.rs, lunar.rs and mars.rs: the rayon pool, the writer thread and their
\* two channels).
THEOREM TilesKeepTheirPlace == Spec => []IInv
<1>1. Safe => IInv
    BY DEF Safe
<1> QED
    BY <1>1, SafeAlways, PTL

\* A job that ended well has a report for every tile it planned, and what a job or
\* the map of a tab calls built has a row in the database of that tab.
THEOREM ReportsStayTrue == Spec => []ReportsAreTrue
<1>1. Safe => ReportsAreTrue
    BY DEF Safe
<1> QED
    BY <1>1, SafeAlways, PTL

\* "An error ... must never be committed as an empty successful tile": a tile is
\* stored with less than its contours only where there is no source for it (a Mars
\* tile outside CTX, say), by a native engine over data it could not read, or, with
\* nothing failing, for a lunar tile that needs the chunk of another's centre.
THEOREM NoFailureIsStored == Spec => []FailuresAreNotStored
<1>1. Safe => FailuresAreNotStored
    BY DEF Safe
<1> QED
    BY <1>1, SafeAlways, PTL

=============================================================================
