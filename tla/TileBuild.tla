------------------------------ MODULE TileBuild ------------------------------
(***************************************************************************)
(* The terrain build scheduler of srtm_focus_cache: builders.rs decides    *)
(* which missing contour tile gets a worker thread, work_slots.rs bounds   *)
(* how many workers download, hold a downloaded raster or process one, and *)
(* gdal.rs runs the stages of a build.                                     *)
(*                                                                         *)
(* A caller is a background manifest worker (one per map scene): it notes  *)
(* the manifest revision, reads the SQLite manifest once and then walks    *)
(* its window, asking ensure_*_bucket_asset for every tile.  A worker is a *)
(* build thread.  Nothing but single atomic operations and short critical  *)
(* sections orders callers and workers, so each of those is one action.    *)
(***************************************************************************)
EXTENDS Naturals, FiniteSets

CONSTANTS
    Callers,          \* manifest workers
    Workers,          \* build threads that may be alive at once
    SrtmTiles,        \* Earth tiles contoured from the local SRTM mirror
    RemoteTiles,      \* Earth tiles whose raster is downloaded (3DEP tiers)
    LunarTiles,
    MarsTiles,
    SourcelessTiles,  \* SRTM tiles no source file overlaps, 3DEP tiles probed Coarse
    AbsentTiles,      \* RemoteTiles whose provider reports no coverage on download
    FlatTiles,        \* tiles whose source yields no contour line
    CtxTiles,         \* MarsTiles a CTX DTM covers
    MolaTiles,        \* TRUE when MOLA labels are installed
    MolaVrt,          \* TRUE when gdalbuildvrt can mosaic them
    Window,           \* the tiles each caller looks at
    BuildWindow,      \* those it may also schedule (allow_build)
    ProcLimit,        \* processing slots
    DownLimit,        \* download slots
    StagingExtra,     \* staging slots beyond DownLimit
    BodyCap,          \* MAX_CONCURRENT_LUNAR_BUILDS
    MaxTracked,       \* MAX_TRACKED_SOURCELESS_TILES
    FaultBudget,      \* BOUND: failed stages and queries, panics and exits in a behaviour
    AllowPanic        \* TRUE when a worker or a thread spawn may panic

Tiles == SrtmTiles \cup RemoteTiles \cup LunarTiles \cup MarsTiles
CappedTiles == LunarTiles \cup MarsTiles
StagingLimit == DownLimit + StagingExtra
Bodies == {"earth", "moon", "mars"}
NoTile == "no tile"

ASSUME SetsAssumption ==
    /\ IsFiniteSet(Callers) /\ IsFiniteSet(Workers)
    /\ Callers \cap Workers = {}
    /\ NoTile \notin Tiles
    /\ RemoteTiles \cap (SrtmTiles \cup CappedTiles) = {}
    /\ Window \in [Callers -> SUBSET Tiles]
ASSUME LimitsAssumption ==
    /\ ProcLimit \in Nat /\ DownLimit \in Nat /\ StagingExtra \in Nat
    /\ BodyCap \in Nat
    /\ FaultBudget \in Nat
ASSUME DisjointAssumption ==
    /\ SrtmTiles \cap CappedTiles = {} /\ LunarTiles \cap MarsTiles = {}
    /\ CtxTiles \subseteq MarsTiles /\ AbsentTiles \subseteq RemoteTiles
    /\ \A c \in Callers : BuildWindow[c] \subseteq Window[c]
ASSUME ProgressAssumption ==
    ProcLimit > 0 /\ DownLimit > 0 /\ BodyCap > 0 /\ MaxTracked > 0

VARIABLES
    shutdown,       \* shutdown_requested()
    manifest,       \* rows of contour_tile_manifest: the committed tiles
    pending,        \* the pending sets of the three bodies
    cooling,        \* tiles whose failed-build backoff has not elapsed
    gate,           \* bodies whose failed-build gate has not elapsed
    uncovered,      \* international_uncovered_tiles()
    fresh,          \* callers whose recorded revision is manifest_revision()
    procActive,     \* Slots::active of processing()
    downActive,     \* Slots::active of the download queue's downloads
    stagingActive,  \* ... and of its staging slots
    cpc, ctile, todo, snap,   \* a caller: where it is, on which tile, what is left, its snapshot
    wstage, wtile,  \* a worker: its stage and its tile
    faults          \* how much of FaultBudget is spent

shared == <<shutdown, manifest, pending, cooling, gate, uncovered, fresh>>
slots  == <<procActive, downActive, stagingActive>>
callerVars == <<cpc, ctile, todo, snap>>
workerVars == <<wstage, wtile>>
vars == <<shared, slots, callerVars, workerVars, faults>>

Body(t) == IF t \in LunarTiles THEN "moon" ELSE IF t \in MarsTiles THEN "mars" ELSE "earth"
SameBody(t) == {u \in Tiles : Body(u) = Body(t)}

Rows == {"none", "empty", "lines"}
CallerPcs == {"idle", "query", "scan", "gated", "admit", "staged", "insert"}

\* Stages in which a worker still owes the removal of its tile from pending.
BuildStages == {"start", "source", "download", "absent", "downloaded", "waiting",
                "dequeue", "dequeued", "contour", "committed", "built", "succeeded",
                "failed", "finishing"}
WorkerStages == BuildStages \cup {"idle", "releasing"}

\* Who owns a permit, by Rust's move semantics: a local build keeps its
\* processing permit until the thread's last statement, a remote one takes it
\* inside build_threedep_contours and loses it when that function returns.
HoldsProc(w) ==
    IF wtile[w] \in RemoteTiles
    THEN wstage[w] \in {"dequeue", "dequeued", "contour", "committed"}
    ELSE wstage[w] # "idle"
HoldsDown(w) == wtile[w] \in RemoteTiles /\ wstage[w] \in {"start", "download", "absent"}
HoldsStaging(w) ==
    /\ wtile[w] \in RemoteTiles
    /\ wstage[w] \in {"start", "download", "absent", "downloaded", "waiting", "dequeue"}

ProcHolders ==
    {c \in Callers : cpc[c] = "insert" /\ ctile[c] \notin RemoteTiles}
        \cup {w \in Workers : HoldsProc(w)}
DownHolders ==
    {c \in Callers : cpc[c] = "insert" /\ ctile[c] \in RemoteTiles}
        \cup {w \in Workers : HoldsDown(w)}
StagingHolders ==
    {c \in Callers : cpc[c] \in {"staged", "insert"} /\ ctile[c] \in RemoteTiles}
        \cup {w \in Workers : HoldsStaging(w)}

ProcSlots == INSTANCE WorkSlots
    WITH Limit <- ProcLimit, Owners <- Callers \cup Workers,
         active <- procActive, held <- ProcHolders
DownSlots == INSTANCE WorkSlots
    WITH Limit <- DownLimit, Owners <- Callers \cup Workers,
         active <- downActive, held <- DownHolders
StagingSlots == INSTANCE WorkSlots
    WITH Limit <- StagingLimit, Owners <- Callers \cup Workers,
         active <- stagingActive, held <- StagingHolders

Init ==
    /\ shutdown = FALSE
    /\ manifest \in [Tiles -> {"none"}]
    /\ pending = {} /\ cooling = {} /\ gate = {} /\ uncovered = {} /\ fresh = {}
    /\ procActive = 0 /\ downActive = 0 /\ stagingActive = 0
    /\ cpc = [c \in Callers |-> "idle"]
    /\ ctile = [c \in Callers |-> NoTile]
    /\ todo = [c \in Callers |-> {}]
    /\ snap = [c \in Callers |-> [t \in Tiles |-> "unread"]]
    /\ wstage = [w \in Workers |-> "idle"]
    /\ wtile = [w \in Workers |-> NoTile]
    /\ faults = 0

-----------------------------------------------------------------------------
(* Callers: a manifest worker's selection.                                 *)

\* The UI starts a selection and keeps the revision it saw before the query.
Begin(c) ==
    /\ cpc[c] = "idle"
    /\ cpc' = [cpc EXCEPT ![c] = "query"]
    /\ fresh' = fresh \cup {c}
    /\ UNCHANGED <<shutdown, manifest, pending, cooling, gate, uncovered, slots,
                   ctile, todo, snap, workerVars, faults>>

Query_KeepsOldRows(c) ==   \* mutant: the first snapshot is reused for ever
    /\ cpc[c] = "query"
    /\ cpc' = [cpc EXCEPT ![c] = "scan"]
    /\ snap' = [snap EXCEPT ![c] = [t \in Tiles |-> IF @[t] = "unread" THEN manifest[t] ELSE @[t]]]
    /\ todo' = [todo EXCEPT ![c] = Window[c]]
    /\ UNCHANGED <<shared, slots, ctile, workerVars, faults>>

\* One read-only query for every row of the window.
Query(c) ==
    /\ cpc[c] = "query"
    /\ cpc' = [cpc EXCEPT ![c] = "scan"]
    /\ snap' = [snap EXCEPT ![c] = manifest]
    /\ todo' = [todo EXCEPT ![c] = Window[c]]
    /\ UNCHANGED <<shared, slots, ctile, workerVars, faults>>

\* A database that cannot be opened or read yields an empty selection.
QueryFails(c) ==
    /\ cpc[c] = "query" /\ faults < FaultBudget
    /\ cpc' = [cpc EXCEPT ![c] = "idle"]
    /\ snap' = [snap EXCEPT ![c] = [t \in Tiles |-> "unread"]]
    /\ faults' = faults + 1
    /\ UNCHANGED <<shared, slots, ctile, todo, workerVars>>

\* The snapshot row already serves the tile.  On Mars an empty row is served
\* only while no MOLA mosaic could still fill it.
Served(c, t) ==
    IF t \in MarsTiles
    THEN snap[c][t] = "lines" \/ (snap[c][t] = "empty" /\ ~MolaTiles)
    ELSE snap[c][t] # "none"

\* Everything that makes ensure_*_bucket_asset return before it looks at pending.
NotBuildable(c, t) ==
    \/ t \notin BuildWindow[c]
    \/ t \in uncovered
    \/ t \in SourcelessTiles
    \/ Body(t) \in gate
    \/ t \in cooling

EndTile(c) ==
    /\ cpc' = [cpc EXCEPT ![c] = "scan"]
    /\ ctile' = [ctile EXCEPT ![c] = NoTile]
    /\ UNCHANGED <<todo, snap>>

SkipTile(c, t) ==
    /\ cpc[c] = "scan" /\ t \in todo[c]
    /\ shutdown \/ Served(c, t) \/ NotBuildable(c, t)
    /\ todo' = [todo EXCEPT ![c] = @ \ {t}]
    /\ cooling' = IF ~shutdown /\ Served(c, t) THEN cooling \ {t} ELSE cooling
    /\ UNCHANGED <<shutdown, manifest, pending, gate, uncovered, fresh, slots,
                   cpc, ctile, snap, workerVars, faults>>

\* The gate and the tile's backoff allow a build.
PassGate(c, t) ==
    /\ cpc[c] = "scan" /\ t \in todo[c]
    /\ ~shutdown /\ ~Served(c, t) /\ ~NotBuildable(c, t)
    /\ cpc' = [cpc EXCEPT ![c] = "gated"]
    /\ ctile' = [ctile EXCEPT ![c] = t]
    /\ todo' = [todo EXCEPT ![c] = @ \ {t}]
    /\ UNCHANGED <<shared, slots, snap, workerVars, faults>>

\* is_pending on Earth; on the Moon and Mars also the cap, read from the size
\* of the body's pending set, whose lock is released again right away.
MayBuild_OffByOne(t) ==   \* mutant
    /\ t \notin pending
    /\ t \in CappedTiles => Cardinality(pending \cap SameBody(t)) <= BodyCap
MayBuild(t) ==
    /\ t \notin pending
    /\ t \in CappedTiles => Cardinality(pending \cap SameBody(t)) < BodyCap
CheckPending(c) ==
    /\ cpc[c] = "gated"
    /\ IF MayBuild(ctile[c])
       THEN cpc' = [cpc EXCEPT ![c] = "admit"] /\ UNCHANGED <<ctile, todo, snap>>
       ELSE EndTile(c)
    /\ UNCHANGED <<shared, slots, workerVars, faults>>

\* Slots::try_acquire: a processing slot for a local build, a staging slot
\* first for a remote one.
AdmitLocal(c) ==
    /\ cpc[c] = "admit" /\ ctile[c] \notin RemoteTiles
    /\ IF procActive < ProcLimit
       THEN /\ procActive' = procActive + 1
            /\ cpc' = [cpc EXCEPT ![c] = "insert"]
            /\ UNCHANGED <<ctile, todo, snap>>
       ELSE EndTile(c) /\ UNCHANGED procActive
    /\ UNCHANGED <<shared, downActive, stagingActive, workerVars, faults>>
AdmitStaging(c) ==
    /\ cpc[c] = "admit" /\ ctile[c] \in RemoteTiles
    /\ IF stagingActive < StagingLimit
       THEN /\ stagingActive' = stagingActive + 1
            /\ cpc' = [cpc EXCEPT ![c] = "staged"]
            /\ UNCHANGED <<ctile, todo, snap>>
       ELSE EndTile(c) /\ UNCHANGED stagingActive
    /\ UNCHANGED <<shared, procActive, downActive, workerVars, faults>>

AdmitDownload_LeaksStaging(c) ==   \* mutant
    /\ cpc[c] = "staged"
    /\ IF downActive < DownLimit
       THEN /\ downActive' = downActive + 1
            /\ cpc' = [cpc EXCEPT ![c] = "insert"]
            /\ UNCHANGED <<ctile, todo, snap>>
       ELSE EndTile(c) /\ UNCHANGED downActive
    /\ UNCHANGED <<shared, procActive, stagingActive, workerVars, faults>>

\* The second half of DownloadQueue::try_acquire; without a download slot the
\* staging permit is dropped again.
AdmitDownload(c) ==
    /\ cpc[c] = "staged"
    /\ IF downActive < DownLimit
       THEN /\ downActive' = downActive + 1
            /\ cpc' = [cpc EXCEPT ![c] = "insert"]
            /\ UNCHANGED <<ctile, todo, snap, stagingActive>>
       ELSE /\ stagingActive' = stagingActive - 1
            /\ EndTile(c)
            /\ UNCHANGED downActive
    /\ UNCHANGED <<shared, procActive, workerVars, faults>>

\* The permits a caller holds in front of pending.insert are dropped.
DropAdmission(c) ==
    IF ctile[c] \in RemoteTiles
    THEN /\ downActive' = downActive - 1
         /\ stagingActive' = stagingActive - 1
         /\ UNCHANGED procActive
    ELSE procActive' = procActive - 1 /\ UNCHANGED <<downActive, stagingActive>>

\* HashSet::insert under the lock decides between two callers.
InsertLost(c) ==
    /\ cpc[c] = "insert" /\ ctile[c] \in pending
    /\ DropAdmission(c)
    /\ EndTile(c)
    /\ UNCHANGED <<shared, workerVars, faults>>
InsertAndSpawn_Unchecked(c, w) ==   \* mutant: the result of insert is ignored
    /\ cpc[c] = "insert"
    /\ wstage[w] = "idle"
    /\ pending' = pending \cup {ctile[c]}
    /\ wstage' = [wstage EXCEPT ![w] = "start"]
    /\ wtile' = [wtile EXCEPT ![w] = ctile[c]]
    /\ EndTile(c)
    /\ UNCHANGED <<shutdown, manifest, cooling, gate, uncovered, fresh, slots, faults>>
InsertAndSpawn(c, w) ==
    /\ cpc[c] = "insert" /\ ctile[c] \notin pending
    /\ wstage[w] = "idle"
    /\ pending' = pending \cup {ctile[c]}
    /\ wstage' = [wstage EXCEPT ![w] = "start"]
    /\ wtile' = [wtile EXCEPT ![w] = ctile[c]]
    /\ EndTile(c)
    /\ UNCHANGED <<shutdown, manifest, cooling, gate, uncovered, fresh, slots, faults>>

\* std::thread::spawn panics when the thread cannot be created: the closure and
\* its permits are dropped, the tile stays pending, and the selection publishes
\* nothing (catch_unwind around the fetch).
SpawnPanics(c) ==
    /\ AllowPanic /\ faults < FaultBudget
    /\ cpc[c] = "insert" /\ ctile[c] \notin pending
    /\ pending' = pending \cup {ctile[c]}
    /\ DropAdmission(c)
    /\ cpc' = [cpc EXCEPT ![c] = "idle"]
    /\ ctile' = [ctile EXCEPT ![c] = NoTile]
    /\ todo' = [todo EXCEPT ![c] = {}]
    /\ fresh' = fresh \ {c}
    /\ faults' = faults + 1
    /\ UNCHANGED <<shutdown, manifest, cooling, gate, uncovered, snap, workerVars>>

\* finish_local_manifest: the selection is published with its starting revision.
EndScan(c) ==
    /\ cpc[c] = "scan" /\ todo[c] = {}
    /\ cpc' = [cpc EXCEPT ![c] = "idle"]
    /\ UNCHANGED <<shared, slots, ctile, todo, snap, workerVars, faults>>

-----------------------------------------------------------------------------
(* Workers: the stages of a build thread.                                  *)

Move(w, from, to) ==
    /\ wstage[w] = from
    /\ wstage' = [wstage EXCEPT ![w] = to]
    /\ UNCHANGED wtile
Bump == fresh' = {}

\* First statement of every build_* function.
StartBuild(w) ==
    /\ ~shutdown
    /\ Move(w, "start", IF wtile[w] \in RemoteTiles THEN "download" ELSE "source")
    /\ UNCHANGED <<shared, slots, callerVars, faults>>

\* A Mars tile no CTX DTM covers, and no usable mosaic: mark_tile_empty.
NoMarsSource(t) == t \in MarsTiles \ CtxTiles /\ ~(MolaTiles /\ MolaVrt)
MarkEmpty(w) ==
    /\ NoMarsSource(wtile[w])
    /\ Move(w, "source", "committed")
    /\ manifest' = [manifest EXCEPT ![wtile[w]] = "empty"]
    /\ UNCHANGED <<shutdown, pending, cooling, gate, uncovered, fresh, slots, callerVars, faults>>

\* Warp or crop of the local source, then the shutdown check behind it.
SourceReady(w) ==
    /\ ~NoMarsSource(wtile[w]) /\ ~shutdown
    /\ Move(w, "source", "contour")
    /\ UNCHANGED <<shared, slots, callerVars, faults>>

\* DownloadPermit::downloaded: network capacity is released at once, the
\* raster keeps its staging permit.
DownloadDone(w) ==
    /\ wtile[w] \notin AbsentTiles
    /\ Move(w, "download", "downloaded")
    /\ downActive' = downActive - 1
    /\ UNCHANGED <<shared, procActive, stagingActive, callerVars, faults>>

\* record_international_uncovered: a full memo is emptied first.
NoCoverage(w) ==
    /\ wtile[w] \in AbsentTiles
    /\ Move(w, "download", "absent")
    /\ uncovered' = (IF Cardinality(uncovered) >= MaxTracked THEN {} ELSE uncovered)
                        \cup {wtile[w]}
    /\ Bump
    /\ UNCHANGED <<shutdown, manifest, pending, cooling, gate, slots, callerVars, faults>>

AnnounceDownload(w) ==
    /\ Move(w, "downloaded", "waiting")
    /\ Bump
    /\ UNCHANGED <<shutdown, manifest, pending, cooling, gate, uncovered, slots,
                   callerVars, faults>>

\* acquire_until: one successful poll of the processing slots.
AcquireProcessing(w) ==
    /\ ~shutdown /\ procActive < ProcLimit
    /\ Move(w, "waiting", "dequeue")
    /\ procActive' = procActive + 1
    /\ UNCHANGED <<shared, downActive, stagingActive, callerVars, faults>>

\* drop(staged) and the bump behind it.
DropStaged(w) ==
    /\ Move(w, "dequeue", "dequeued")
    /\ stagingActive' = stagingActive - 1
    /\ UNCHANGED <<shared, procActive, downActive, callerVars, faults>>
AnnounceDequeue(w) ==
    /\ Move(w, "dequeued", "contour")
    /\ Bump
    /\ UNCHANGED <<shutdown, manifest, pending, cooling, gate, uncovered, slots,
                   callerVars, faults>>

\* gdal_contour and the one transaction of import_tile_into_cache_clipped.
\* A tile whose source has no contour line commits a row with count 0.
Commit(w) ==
    /\ Move(w, "contour", "committed")
    /\ manifest' = [manifest EXCEPT ![wtile[w]] =
                        IF wtile[w] \in FlatTiles THEN "empty" ELSE "lines"]
    /\ UNCHANGED <<shutdown, pending, cooling, gate, uncovered, fresh, slots, callerVars, faults>>

\* The build function returns Some: a remote build drops its processing permit.
ReturnBuilt(w) ==
    /\ Move(w, "committed", "built")
    /\ procActive' = IF wtile[w] \in RemoteTiles THEN procActive - 1 ELSE procActive
    /\ UNCHANGED <<shared, downActive, stagingActive, callerVars, faults>>
AnnounceBuilt_Silent(w) ==   \* mutant
    /\ Move(w, "built", "succeeded")
    /\ UNCHANGED <<shared, slots, callerVars, faults>>
AnnounceBuilt(w) ==
    /\ Move(w, "built", "succeeded")
    /\ Bump
    /\ UNCHANGED <<shutdown, manifest, pending, cooling, gate, uncovered, slots,
                   callerVars, faults>>
\* The tile's backoff and the gate have a lock each.  One action clears both: a
\* selection between the two is refused by the gate, as before either.
ClearFailure(w) ==
    /\ Move(w, "succeeded", "finishing")
    /\ cooling' = cooling \ {wtile[w]}
    /\ gate' = gate \ {Body(wtile[w])}
    /\ UNCHANGED <<shutdown, manifest, pending, uncovered, fresh, slots, callerVars, faults>>

DropRemotePermits_Always(w) ==   \* mutant: the download permit is dropped twice
    /\ procActive' = IF wtile[w] \in RemoteTiles /\ HoldsProc(w) THEN procActive - 1 ELSE procActive
    /\ downActive' = IF wtile[w] \in RemoteTiles THEN downActive - 1 ELSE downActive
    /\ stagingActive' = IF HoldsStaging(w) THEN stagingActive - 1 ELSE stagingActive

\* Leaving the build function early (or unwinding out of it) drops the permits
\* that function owns.
DropRemotePermits(w) ==
    /\ procActive' = IF wtile[w] \in RemoteTiles /\ HoldsProc(w) THEN procActive - 1 ELSE procActive
    /\ downActive' = IF HoldsDown(w) THEN downActive - 1 ELSE downActive
    /\ stagingActive' = IF HoldsStaging(w) THEN stagingActive - 1 ELSE stagingActive

ReturnFailed_SkipsCleanup(w) ==   \* mutant: an early return past pending.remove
    /\ wstage[w] \in {"absent", "start", "source", "download", "contour"}
    /\ faults < FaultBudget
    /\ faults' = faults + 1
    /\ wstage' = [wstage EXCEPT ![w] = "idle"]
    /\ wtile' = [wtile EXCEPT ![w] = NoTile]
    /\ procActive' = IF HoldsProc(w) THEN procActive - 1 ELSE procActive
    /\ downActive' = IF HoldsDown(w) THEN downActive - 1 ELSE downActive
    /\ stagingActive' = IF HoldsStaging(w) THEN stagingActive - 1 ELSE stagingActive
    /\ UNCHANGED <<shared, callerVars>>
ReturnFailed_WaitsOnExit(w) ==   \* mutant: acquire_until ignores the shutdown flag
    /\ \/ wstage[w] = "absent" /\ UNCHANGED faults
       \/ /\ wstage[w] \in {"start", "source", "download", "contour"}
          /\ shutdown
          /\ UNCHANGED faults
    /\ wstage' = [wstage EXCEPT ![w] = "failed"]
    /\ DropRemotePermits(w)
    /\ UNCHANGED <<shared, callerVars, wtile>>
\* The build function returns None: no coverage, shutdown seen by a check, by
\* acquire_until or by a running command, or a stage that failed.
ReturnFailed(w) ==
    /\ \/ wstage[w] = "absent" /\ UNCHANGED faults
       \/ /\ wstage[w] \in {"start", "source", "download", "waiting", "contour"}
          /\ shutdown
          /\ UNCHANGED faults
       \/ /\ wstage[w] \in {"start", "source", "download", "contour"}
          /\ faults < FaultBudget
          /\ faults' = faults + 1
    /\ wstage' = [wstage EXCEPT ![w] = "failed"]
    /\ DropRemotePermits(w)
    /\ UNCHANGED <<shared, callerVars, wtile>>
\* Both records again in one action: a selection between them finds this tile
\* refused, as after both, and the others allowed, as before.
RecordFailure(w) ==
    /\ Move(w, "failed", "finishing")
    /\ cooling' = cooling \cup {wtile[w]}
    /\ gate' = gate \cup {Body(wtile[w])}
    /\ UNCHANGED <<shutdown, manifest, pending, uncovered, fresh, slots, callerVars, faults>>

LeavePending_BeforeBump(w) ==   \* mutant: pending is cleared before the revision moves
    /\ wstage[w] \in {"built", "finishing"}
    /\ pending' = pending \ {wtile[w]}
    /\ wstage' = [wstage EXCEPT ![w] =
                    IF wtile[w] \in RemoteTiles THEN "idle" ELSE "releasing"]
    /\ wtile' = [wtile EXCEPT ![w] = IF @ \in RemoteTiles THEN NoTile ELSE @]
    /\ UNCHANGED <<shutdown, manifest, cooling, gate, uncovered, fresh, slots, callerVars, faults>>
LeavePending(w) ==
    /\ wstage[w] = "finishing"
    /\ pending' = pending \ {wtile[w]}
    /\ wstage' = [wstage EXCEPT ![w] =
                    IF wtile[w] \in RemoteTiles THEN "idle" ELSE "releasing"]
    /\ wtile' = [wtile EXCEPT ![w] = IF @ \in RemoteTiles THEN NoTile ELSE @]
    /\ UNCHANGED <<shutdown, manifest, cooling, gate, uncovered, fresh, slots, callerVars, faults>>
ReleasePermit(w) ==
    /\ wstage[w] = "releasing"
    /\ procActive' = procActive - 1
    /\ wstage' = [wstage EXCEPT ![w] = "idle"]
    /\ wtile' = [wtile EXCEPT ![w] = NoTile]
    /\ UNCHANGED <<shared, downActive, stagingActive, callerVars, faults>>

\* A panic in a build function: every Permit is dropped while unwinding, but
\* nothing removes the tile from pending.
WorkerPanics(w) ==
    /\ AllowPanic /\ faults < FaultBudget
    /\ wstage[w] \in {"source", "download", "waiting", "contour", "committed"}
    /\ procActive' = IF HoldsProc(w) THEN procActive - 1 ELSE procActive
    /\ downActive' = IF HoldsDown(w) THEN downActive - 1 ELSE downActive
    /\ stagingActive' = IF HoldsStaging(w) THEN stagingActive - 1 ELSE stagingActive
    /\ wstage' = [wstage EXCEPT ![w] = "idle"]
    /\ wtile' = [wtile EXCEPT ![w] = NoTile]
    /\ faults' = faults + 1
    /\ UNCHANGED <<shared, callerVars>>

-----------------------------------------------------------------------------
(* The environment: time, the user, application exit.                      *)

CoolTile(t) ==
    /\ t \in cooling
    /\ cooling' = cooling \ {t}
    /\ UNCHANGED <<shutdown, manifest, pending, gate, uncovered, fresh, slots,
                   callerVars, workerVars, faults>>
CoolGate(b) ==
    /\ b \in gate
    /\ gate' = gate \ {b}
    /\ UNCHANGED <<shutdown, manifest, pending, cooling, uncovered, fresh, slots,
                   callerVars, workerVars, faults>>

\* clear_failed_build_backoffs: a manual cache reset.
ResetBackoffs ==
    /\ cooling \cup gate \cup uncovered # {}
    /\ cooling' = {} /\ gate' = {} /\ uncovered' = {}
    /\ UNCHANGED <<shutdown, manifest, pending, fresh, slots, callerVars, workerVars, faults>>

\* terminate_active_gdal_jobs on exit.
Shutdown ==
    /\ ~shutdown /\ faults < FaultBudget
    /\ shutdown' = TRUE
    /\ faults' = faults + 1
    /\ UNCHANGED <<manifest, pending, cooling, gate, uncovered, fresh, slots,
                   callerVars, workerVars>>

CallerStep(c) ==
    \/ Begin(c) \/ Query(c) \/ EndScan(c)
    \/ \E t \in Tiles : SkipTile(c, t) \/ PassGate(c, t)
    \/ CheckPending(c) \/ AdmitLocal(c) \/ AdmitStaging(c) \/ AdmitDownload(c)
    \/ InsertLost(c)
    \/ \E w \in Workers : InsertAndSpawn(c, w)
WorkerStep(w) ==
    \/ StartBuild(w) \/ MarkEmpty(w) \/ SourceReady(w)
    \/ DownloadDone(w) \/ NoCoverage(w) \/ AnnounceDownload(w)
    \/ AcquireProcessing(w) \/ DropStaged(w) \/ AnnounceDequeue(w)
    \/ Commit(w) \/ ReturnBuilt(w) \/ AnnounceBuilt(w) \/ ClearFailure(w)
    \/ ReturnFailed(w) \/ RecordFailure(w) \/ LeavePending(w) \/ ReleasePermit(w)
Disturbance ==
    \/ \E c \in Callers : QueryFails(c) \/ SpawnPanics(c)
    \/ \E w \in Workers : WorkerPanics(w)
    \/ ResetBackoffs \/ Shutdown
Cooldown == (\E t \in Tiles : CoolTile(t)) \/ (\E b \in Bodies : CoolGate(b))

Next ==
    \/ \E c \in Callers : CallerStep(c)
    \/ \E w \in Workers : WorkerStep(w)
    \/ Disturbance
    \/ Cooldown

Spec == Init /\ [][Next]_vars

\* The scenes repaint at least every LOCAL_MANIFEST_SNAPSHOT_TTL, every stage
\* runs under a timeout, and cooldowns are bounded by 60 seconds.
Fairness ==
    /\ \A c \in Callers : WF_vars(CallerStep(c))
    /\ \A w \in Workers : WF_vars(WorkerStep(w))
    /\ \A t \in Tiles : WF_vars(CoolTile(t))
    /\ \A b \in Bodies : WF_vars(CoolGate(b))
FairSpec == Spec /\ Fairness

-----------------------------------------------------------------------------
(* Properties.                                                             *)

ProtocolTypeOK ==
    /\ shutdown \in BOOLEAN
    /\ manifest \in [Tiles -> Rows]
    /\ pending \subseteq Tiles /\ cooling \subseteq Tiles
    /\ gate \subseteq Bodies /\ uncovered \subseteq Tiles /\ fresh \subseteq Callers
    /\ cpc \in [Callers -> CallerPcs]
    /\ ctile \in [Callers -> Tiles \cup {NoTile}]
    /\ todo \in [Callers -> SUBSET Tiles]
    /\ snap \in [Callers -> [Tiles -> Rows \cup {"unread"}]]
    /\ wstage \in [Workers -> WorkerStages]
    /\ wtile \in [Workers -> Tiles \cup {NoTile}]
    /\ faults \in Nat
CountersOK == procActive \in Nat /\ downActive \in Nat /\ stagingActive \in Nat
\* In particular no AtomicUsize of work_slots.rs is ever decremented below zero.
TypeOK == ProtocolTypeOK /\ CountersOK

\* What a program counter says about the tile its owner is on.
CallerShape ==
    \A c \in Callers :
        /\ cpc[c] \in {"gated", "admit", "staged", "insert"} => ctile[c] \in Tiles
        /\ cpc[c] = "staged" => ctile[c] \in RemoteTiles
WorkerShape ==
    \A w \in Workers :
        /\ wstage[w] = "idle" <=> wtile[w] = NoTile
        /\ wstage[w] \in BuildStages => wtile[w] \in pending
        /\ wstage[w] \in {"download", "absent", "downloaded", "waiting", "dequeue", "dequeued"}
              => wtile[w] \in RemoteTiles
        /\ wstage[w] \in {"source", "releasing"} => wtile[w] \notin RemoteTiles

\* Each counter of work_slots.rs behaves like the abstract WorkSlots: permits
\* are acquired, moved into the thread and dropped once, never lost or doubled.
SlotsImplemented == ProcSlots!Spec /\ DownSlots!Spec /\ StagingSlots!Spec

\* The three counters of work_slots.rs never pass their limits and count
\* exactly the permits somebody still owns, however a build ends: finished,
\* failed, abandoned on shutdown, lost at the insert, or unwound by a panic.
PermitAccounting ==
    /\ procActive = Cardinality(ProcHolders) /\ procActive <= ProcLimit
    /\ downActive = Cardinality(DownHolders) /\ downActive <= DownLimit
    /\ stagingActive = Cardinality(StagingHolders) /\ stagingActive <= StagingLimit

\* Two threads never build one tile at a time (they would share a progress
\* entry and import over each other), although is_pending, the permits and the
\* insert are three separate steps of each caller.
OneBuilderPerTile ==
    \A v, w \in Workers :
        v # w /\ wstage[v] \in BuildStages /\ wstage[w] \in BuildStages
            => wtile[v] # wtile[w]

Misses(c, t) ==
    c \in fresh /\ cpc[c] # "query" /\ snap[c][t] = "none" /\ manifest[t] # "none"
\* A selection whose recorded revision is still the current one misses a
\* committed tile only while the tile's builder stands between its commit and
\* its bump (or died there and left the tile pending): no wakeup is lost.
CommitIsAnnounced ==
    \A c \in Callers, t \in Tiles : Misses(c, t) =>
        /\ t \in pending
        /\ \A w \in Workers :
              wtile[w] = t /\ wstage[w] \in BuildStages => wstage[w] \in {"committed", "built"}

\* The five together are inductive.
IInv == ProtocolTypeOK /\ CallerShape /\ WorkerShape /\ OneBuilderPerTile /\ CommitIsAnnounced

\* The cap on Moon and Mars builds is checked under one lock and used under
\* another; every caller can slip in at most one build beyond it.
CapNearlyHolds ==
    \A t \in CappedTiles :
        Cardinality(pending \cap SameBody(t)) <= BodyCap + Cardinality(Callers) - 1

\* builders.rs says of the same cap that it is "always accurate regardless of
\* thread scheduling".
CapIsAccurate ==
    \A t \in CappedTiles : Cardinality(pending \cap SameBody(t)) <= BodyCap

\* Every build ends and gives its tile back, so that it can be built again.
PendingDrains == \A t \in Tiles : t \in pending ~> t \notin pending

\* Once disturbances stop, every tile with a source that a caller may build is
\* built and that caller has seen it.
Buildable(c) == (BuildWindow[c] \ SourcelessTiles) \ AbsentTiles
WindowsFill ==
    \A c \in Callers : \A t \in Buildable(c) :
        <>shutdown \/ <>[](snap[c][t] \in {"empty", "lines"})

\* Exit: no build thread outlives the shutdown flag for long, not even one
\* waiting for a processing slot or spawned by a caller that was already past
\* its shutdown check.
ShutdownDrains == shutdown ~> [](\A w \in Workers : wstage[w] = "idle")

=============================================================================
