--------------------------- MODULE TileBuildProofs ---------------------------
(***************************************************************************)
(* The safety of the terrain build scheduler, for every set of callers,    *)
(* workers and tiles and every limit: one builder per tile, no committed   *)
(* tile unannounced, and permits that are neither lost nor doubled.        *)
(***************************************************************************)
EXTENDS TileBuild, FiniteSetTheorems, TLAPS

-----------------------------------------------------------------------------
(* What each kind of step leaves alone.                                    *)

\* A caller touches neither the manifest nor a worker, except when it inserts.
LEMMA CallerFrame ==
    ASSUME NEW c \in Callers, CallerStep(c) \/ QueryFails(c)
    PROVE  \/ UNCHANGED <<manifest, pending, workerVars>>
           \/ \E w \in Workers : InsertAndSpawn(c, w)
BY DEF CallerStep, Begin, Query, QueryFails, EndScan, SkipTile, PassGate, CheckPending,
       AdmitLocal, AdmitStaging, AdmitDownload, InsertLost, shared, workerVars

\* A worker does not touch a caller.
LEMMA WorkerFrame ==
    ASSUME NEW w \in Workers, WorkerStep(w) \/ WorkerPanics(w)
    PROVE  UNCHANGED callerVars
BY DEF WorkerStep, WorkerPanics, StartBuild, MarkEmpty, SourceReady, DownloadDone,
       NoCoverage, AnnounceDownload, AcquireProcessing, DropStaged, AnnounceDequeue,
       Commit, ReturnBuilt, AnnounceBuilt, ClearFailure, ReturnFailed, RecordFailure,
       LeavePending, ReleasePermit

\* Time, a manual reset and the exit flag touch no tile, permit or thread.
LEMMA EnvironmentFrame ==
    ASSUME Cooldown \/ ResetBackoffs \/ Shutdown
    PROVE  UNCHANGED <<manifest, pending, fresh, slots, callerVars, workerVars>>
BY DEF Cooldown, CoolTile, CoolGate, ResetBackoffs, Shutdown

-----------------------------------------------------------------------------
(* The parts of IInv, one lemma each, one step per action that can disturb it. *)

\* Every step keeps the type invariant of the protocol variables.
LEMMA TypeStep ==
    ASSUME IInv, [Next]_vars
    PROVE  ProtocolTypeOK'
<1> USE DEF IInv, ProtocolTypeOK
<1>1. ASSUME NEW c \in Callers, CallerStep(c) PROVE ProtocolTypeOK'
    <2>1. CASE Begin(c)
        BY SetsAssumption, LimitsAssumption, <2>1 DEF Begin, vars, shared, slots,
           callerVars, workerVars, CallerPcs, WorkerStages, BuildStages, CallerShape,
           WorkerShape
    <2>2. CASE Query(c)
        BY SetsAssumption, LimitsAssumption, <2>2 DEF Query, vars, shared, slots,
           callerVars, workerVars, CallerPcs, WorkerStages, BuildStages, CallerShape,
           WorkerShape
    <2>3. CASE EndScan(c)
        BY SetsAssumption, LimitsAssumption, <2>3 DEF EndScan, vars, shared, slots,
           callerVars, workerVars, CallerPcs, WorkerStages, BuildStages, CallerShape,
           WorkerShape
    <2>4. ASSUME NEW t \in Tiles, SkipTile(c, t) PROVE ProtocolTypeOK'
        BY SetsAssumption, LimitsAssumption, <2>4 DEF SkipTile, vars, shared, slots,
           callerVars, workerVars, CallerShape, WorkerShape
    <2>5. ASSUME NEW t \in Tiles, PassGate(c, t) PROVE ProtocolTypeOK'
        BY SetsAssumption, LimitsAssumption, <2>5 DEF PassGate, vars, shared, slots,
           callerVars, workerVars, CallerPcs, WorkerStages, BuildStages, CallerShape,
           WorkerShape
    <2>6. CASE CheckPending(c)
        <3>1. CASE MayBuild(ctile[c])
            BY SetsAssumption, LimitsAssumption, <2>6, <3>1 DEF CheckPending, vars, shared,
               slots, callerVars, workerVars, EndTile, CallerPcs, WorkerStages, BuildStages,
               CallerShape, WorkerShape
        <3>2. CASE ~(MayBuild(ctile[c]))
            BY SetsAssumption, LimitsAssumption, <2>6, <3>2 DEF CheckPending, vars, shared,
               slots, callerVars, workerVars, EndTile, CallerPcs, WorkerStages, BuildStages,
               Rows, Tiles, CappedTiles, Bodies, CallerShape, WorkerShape
        <3> QED BY <3>1, <3>2
    <2>7. CASE AdmitLocal(c)
        <3>1. CASE procActive < ProcLimit
            BY SetsAssumption, LimitsAssumption, <2>7, <3>1 DEF AdmitLocal, vars, shared,
               slots, callerVars, workerVars, EndTile, CallerPcs, WorkerStages, BuildStages,
               CallerShape, WorkerShape
        <3>2. CASE ~(procActive < ProcLimit)
            BY SetsAssumption, LimitsAssumption, <2>7, <3>2 DEF AdmitLocal, vars, shared,
               slots, callerVars, workerVars, EndTile, CallerPcs, WorkerStages, BuildStages,
               Rows, Tiles, CappedTiles, Bodies, CallerShape, WorkerShape
        <3> QED BY <3>1, <3>2
    <2>8. CASE AdmitStaging(c)
        <3>1. CASE stagingActive < StagingLimit
            BY SetsAssumption, LimitsAssumption, <2>8, <3>1 DEF AdmitStaging, vars, shared,
               slots, callerVars, workerVars, EndTile, CallerPcs, WorkerStages, BuildStages,
               CallerShape, WorkerShape
        <3>2. CASE ~(stagingActive < StagingLimit)
            BY SetsAssumption, LimitsAssumption, <2>8, <3>2 DEF AdmitStaging, vars, shared,
               slots, callerVars, workerVars, EndTile, CallerPcs, WorkerStages, BuildStages,
               Rows, Tiles, CappedTiles, Bodies, CallerShape, WorkerShape
        <3> QED BY <3>1, <3>2
    <2>9. CASE AdmitDownload(c)
        <3>1. CASE downActive < DownLimit
            BY SetsAssumption, LimitsAssumption, <2>9, <3>1 DEF AdmitDownload, vars, shared,
               slots, callerVars, workerVars, EndTile, CallerPcs, WorkerStages, BuildStages,
               CallerShape, WorkerShape
        <3>2. CASE ~(downActive < DownLimit)
            BY SetsAssumption, LimitsAssumption, <2>9, <3>2 DEF AdmitDownload, vars, shared,
               slots, callerVars, workerVars, EndTile, CallerPcs, WorkerStages, BuildStages,
               Rows, Tiles, CappedTiles, Bodies, CallerShape, WorkerShape
        <3> QED BY <3>1, <3>2
    <2>10. CASE InsertLost(c)
        BY SetsAssumption, LimitsAssumption, <2>10 DEF InsertLost, vars, shared, slots,
           callerVars, workerVars, EndTile, DropAdmission, CallerPcs, WorkerStages,
           BuildStages, CallerShape, WorkerShape
    <2>11. ASSUME NEW w \in Workers, InsertAndSpawn(c, w) PROVE ProtocolTypeOK'
        BY SetsAssumption, LimitsAssumption, <2>11 DEF InsertAndSpawn, vars, shared, slots,
           callerVars, workerVars, EndTile, CallerPcs, WorkerStages, BuildStages,
           CallerShape, WorkerShape
    <2> QED
        BY <2>1, <2>2, <2>3, <2>4, <2>5, <2>6, <2>7, <2>8, <2>9, <2>10, <2>11, <1>1 DEF
           CallerStep
<1>2. ASSUME NEW w \in Workers, WorkerStep(w) PROVE ProtocolTypeOK'
    <2>1. CASE StartBuild(w)
        BY SetsAssumption, LimitsAssumption, <2>1 DEF StartBuild, vars, shared, slots,
           callerVars, workerVars, Move, CallerPcs, WorkerStages, BuildStages, CallerShape,
           WorkerShape
    <2>2. CASE MarkEmpty(w)
        BY SetsAssumption, LimitsAssumption, <2>2 DEF MarkEmpty, vars, shared, slots,
           callerVars, workerVars, Move, CallerPcs, WorkerStages, BuildStages, Rows, Tiles,
           CappedTiles, Bodies, CallerShape, WorkerShape
    <2>3. CASE SourceReady(w)
        BY SetsAssumption, LimitsAssumption, <2>3 DEF SourceReady, vars, shared, slots,
           callerVars, workerVars, Move, CallerPcs, WorkerStages, BuildStages, CallerShape,
           WorkerShape
    <2>4. CASE DownloadDone(w)
        BY SetsAssumption, LimitsAssumption, <2>4 DEF DownloadDone, vars, shared, slots,
           callerVars, workerVars, Move, CallerPcs, WorkerStages, BuildStages, CallerShape,
           WorkerShape
    <2>5. CASE NoCoverage(w)
        BY SetsAssumption, LimitsAssumption, <2>5 DEF NoCoverage, vars, shared, slots,
           callerVars, workerVars, Move, Bump, CallerPcs, WorkerStages, BuildStages,
           CallerShape, WorkerShape
    <2>6. CASE AnnounceDownload(w)
        BY SetsAssumption, LimitsAssumption, <2>6 DEF AnnounceDownload, vars, shared, slots,
           callerVars, workerVars, Move, Bump, CallerPcs, WorkerStages, BuildStages,
           CallerShape, WorkerShape
    <2>7. CASE AcquireProcessing(w)
        BY SetsAssumption, LimitsAssumption, <2>7 DEF AcquireProcessing, vars, shared,
           slots, callerVars, workerVars, Move, CallerPcs, WorkerStages, BuildStages,
           CallerShape, WorkerShape
    <2>8. CASE DropStaged(w)
        BY SetsAssumption, LimitsAssumption, <2>8 DEF DropStaged, vars, shared, slots,
           callerVars, workerVars, Move, CallerPcs, WorkerStages, BuildStages, CallerShape,
           WorkerShape
    <2>9. CASE AnnounceDequeue(w)
        BY SetsAssumption, LimitsAssumption, <2>9 DEF AnnounceDequeue, vars, shared, slots,
           callerVars, workerVars, Move, Bump, CallerPcs, WorkerStages, BuildStages,
           CallerShape, WorkerShape
    <2>10. CASE Commit(w)
        BY SetsAssumption, LimitsAssumption, <2>10 DEF Commit, vars, shared, slots,
           callerVars, workerVars, Move, CallerPcs, WorkerStages, BuildStages, Rows, Tiles,
           CappedTiles, Bodies, CallerShape, WorkerShape
    <2>11. CASE ReturnBuilt(w)
        BY SetsAssumption, LimitsAssumption, <2>11 DEF ReturnBuilt, vars, shared, slots,
           callerVars, workerVars, Move, CallerPcs, WorkerStages, BuildStages, CallerShape,
           WorkerShape
    <2>12. CASE AnnounceBuilt(w)
        BY SetsAssumption, LimitsAssumption, <2>12 DEF AnnounceBuilt, vars, shared, slots,
           callerVars, workerVars, Move, Bump, CallerPcs, WorkerStages, BuildStages,
           CallerShape, WorkerShape
    <2>13. CASE ClearFailure(w)
        BY SetsAssumption, LimitsAssumption, <2>13 DEF ClearFailure, vars, shared, slots,
           callerVars, workerVars, Move, CallerPcs, WorkerStages, BuildStages, CallerShape,
           WorkerShape
    <2>14. CASE ReturnFailed(w)
        BY SetsAssumption, LimitsAssumption, <2>14 DEF ReturnFailed, vars, shared, slots,
           callerVars, workerVars, DropRemotePermits, CallerPcs, WorkerStages, BuildStages,
           CallerShape, WorkerShape
    <2>15. CASE RecordFailure(w)
        BY SetsAssumption, LimitsAssumption, <2>15 DEF RecordFailure, vars, shared, slots,
           callerVars, workerVars, Move, CallerPcs, WorkerStages, BuildStages, Rows, Tiles,
           CappedTiles, Bodies, Body, CallerShape, WorkerShape
    <2>16. CASE LeavePending(w)
        BY SetsAssumption, LimitsAssumption, <2>16 DEF LeavePending, vars, shared, slots,
           callerVars, workerVars, CallerPcs, WorkerStages, BuildStages, CallerShape,
           WorkerShape
    <2>17. CASE ReleasePermit(w)
        BY SetsAssumption, LimitsAssumption, <2>17 DEF ReleasePermit, vars, shared, slots,
           callerVars, workerVars, CallerPcs, WorkerStages, BuildStages, CallerShape,
           WorkerShape
    <2> QED
        BY <2>1, <2>2, <2>3, <2>4, <2>5, <2>6, <2>7, <2>8, <2>9, <2>10, <2>11, <2>12, <2>13,
           <2>14, <2>15, <2>16, <2>17, <1>2 DEF WorkerStep
<1>3. CASE Disturbance
    <2>1. ASSUME NEW c \in Callers, QueryFails(c) PROVE ProtocolTypeOK'
        BY SetsAssumption, LimitsAssumption, <2>1 DEF QueryFails, vars, shared, slots,
           callerVars, workerVars, CallerPcs, WorkerStages, BuildStages, CallerShape,
           WorkerShape
    <2>2. ASSUME NEW c \in Callers, SpawnPanics(c) PROVE ProtocolTypeOK'
        BY SetsAssumption, LimitsAssumption, <2>2 DEF SpawnPanics, vars, shared, slots,
           callerVars, workerVars, DropAdmission, CallerPcs, WorkerStages, BuildStages,
           CallerShape, WorkerShape
    <2>3. ASSUME NEW w \in Workers, WorkerPanics(w) PROVE ProtocolTypeOK'
        BY SetsAssumption, LimitsAssumption, <2>3 DEF WorkerPanics, vars, shared, slots,
           callerVars, workerVars, CallerPcs, WorkerStages, BuildStages, CallerShape,
           WorkerShape
    <2>4. CASE ResetBackoffs
        BY SetsAssumption, LimitsAssumption, <2>4 DEF ResetBackoffs, vars, shared, slots,
           callerVars, workerVars, CallerShape, WorkerShape
    <2>5. CASE Shutdown
        BY SetsAssumption, LimitsAssumption, <2>5 DEF Shutdown, vars, shared, slots,
           callerVars, workerVars, CallerShape, WorkerShape
    <2> QED BY <1>3, <2>1, <2>2, <2>3, <2>4, <2>5 DEF Disturbance
<1>4. CASE Cooldown
    BY SetsAssumption, LimitsAssumption, <1>4 DEF Cooldown, CoolTile, CoolGate, vars,
       shared, slots, callerVars, workerVars, CallerShape, WorkerShape
<1>5. CASE UNCHANGED vars
    BY SetsAssumption, LimitsAssumption, <1>5 DEF vars, shared, slots, callerVars,
       workerVars, CallerShape, WorkerShape
<1> QED BY <1>1, <1>2, <1>3, <1>4, <1>5 DEF Next

\* A caller past the gate is on a tile, and on a remote one while it is staged.
LEMMA CallerShapeStep ==
    ASSUME IInv, [Next]_vars
    PROVE  CallerShape'
<1> USE DEF IInv, ProtocolTypeOK, CallerShape
<1>1. ASSUME NEW c \in Callers, CallerStep(c) PROVE CallerShape'
    <2>1. CASE Begin(c)
        BY SetsAssumption, <2>1 DEF Begin, vars, shared, slots, callerVars, workerVars
    <2>2. CASE Query(c)
        BY SetsAssumption, <2>2 DEF Query, vars, shared, slots, callerVars, workerVars
    <2>3. CASE EndScan(c)
        BY SetsAssumption, <2>3 DEF EndScan, vars, shared, slots, callerVars, workerVars
    <2>4. ASSUME NEW t \in Tiles, SkipTile(c, t) PROVE CallerShape'
        BY SetsAssumption, <2>4 DEF SkipTile, vars, shared, slots, callerVars, workerVars
    <2>5. ASSUME NEW t \in Tiles, PassGate(c, t) PROVE CallerShape'
        BY SetsAssumption, <2>5 DEF PassGate, vars, shared, slots, callerVars, workerVars
    <2>6. CASE CheckPending(c)
        <3>1. CASE MayBuild(ctile[c])
            BY SetsAssumption, <2>6, <3>1 DEF CheckPending, vars, shared, slots, callerVars,
               workerVars, EndTile
        <3>2. CASE ~(MayBuild(ctile[c]))
            BY SetsAssumption, <2>6, <3>2 DEF CheckPending, vars, shared, slots, callerVars,
               workerVars, EndTile
        <3> QED BY <3>1, <3>2
    <2>7. CASE AdmitLocal(c)
        <3>1. CASE procActive < ProcLimit
            BY SetsAssumption, <2>7, <3>1 DEF AdmitLocal, vars, shared, slots, callerVars,
               workerVars, EndTile
        <3>2. CASE ~(procActive < ProcLimit)
            BY SetsAssumption, <2>7, <3>2 DEF AdmitLocal, vars, shared, slots, callerVars,
               workerVars, EndTile
        <3> QED BY <3>1, <3>2
    <2>8. CASE AdmitStaging(c)
        <3>1. CASE stagingActive < StagingLimit
            BY SetsAssumption, <2>8, <3>1 DEF AdmitStaging, vars, shared, slots, callerVars,
               workerVars, EndTile
        <3>2. CASE ~(stagingActive < StagingLimit)
            BY SetsAssumption, <2>8, <3>2 DEF AdmitStaging, vars, shared, slots, callerVars,
               workerVars, EndTile
        <3> QED BY <3>1, <3>2
    <2>9. CASE AdmitDownload(c)
        <3>1. CASE downActive < DownLimit
            BY SetsAssumption, <2>9, <3>1 DEF AdmitDownload, vars, shared, slots,
               callerVars, workerVars, EndTile
        <3>2. CASE ~(downActive < DownLimit)
            BY SetsAssumption, <2>9, <3>2 DEF AdmitDownload, vars, shared, slots,
               callerVars, workerVars, EndTile
        <3> QED BY <3>1, <3>2
    <2>10. CASE InsertLost(c)
        BY SetsAssumption, <2>10 DEF InsertLost, vars, shared, slots, callerVars,
           workerVars, EndTile, DropAdmission
    <2>11. ASSUME NEW w \in Workers, InsertAndSpawn(c, w) PROVE CallerShape'
        BY SetsAssumption, <2>11 DEF InsertAndSpawn, vars, shared, slots, callerVars,
           workerVars, EndTile
    <2> QED
        BY <2>1, <2>2, <2>3, <2>4, <2>5, <2>6, <2>7, <2>8, <2>9, <2>10, <2>11, <1>1 DEF
           CallerStep
<1>2. ASSUME NEW w \in Workers, WorkerStep(w) PROVE CallerShape'
    BY SetsAssumption, <1>2, WorkerFrame DEF callerVars, vars, shared, slots, workerVars
<1>3. CASE Disturbance
    <2>1. ASSUME NEW c \in Callers, QueryFails(c) PROVE CallerShape'
        BY SetsAssumption, <2>1 DEF QueryFails, vars, shared, slots, callerVars, workerVars
    <2>2. ASSUME NEW c \in Callers, SpawnPanics(c) PROVE CallerShape'
        BY SetsAssumption, <2>2 DEF SpawnPanics, vars, shared, slots, callerVars,
           workerVars, DropAdmission
    <2>3. ASSUME NEW w \in Workers, WorkerPanics(w) PROVE CallerShape'
        BY SetsAssumption, <2>3 DEF WorkerPanics, vars, shared, slots, callerVars,
           workerVars
    <2>4. CASE ResetBackoffs \/ Shutdown
        BY SetsAssumption, <2>4, EnvironmentFrame DEF vars, shared, slots, callerVars,
           workerVars
    <2> QED BY <1>3, <2>1, <2>2, <2>3, <2>4 DEF Disturbance
<1>4. CASE Cooldown
    BY SetsAssumption, <1>4, EnvironmentFrame DEF vars, shared, slots, callerVars,
       workerVars
<1>5. CASE UNCHANGED vars
    BY SetsAssumption, <1>5 DEF vars, shared, slots, callerVars, workerVars
<1> QED BY <1>1, <1>2, <1>3, <1>4, <1>5 DEF Next

\* A worker is on a tile, and that tile stays pending until the worker has left it.
LEMMA WorkerShapeStep ==
    ASSUME IInv, [Next]_vars
    PROVE  WorkerShape'
<1> USE DEF IInv, ProtocolTypeOK, WorkerShape
<1>1. ASSUME NEW c \in Callers, CallerStep(c) PROVE WorkerShape'
    <2>1. ASSUME NEW w \in Workers, InsertAndSpawn(c, w) PROVE WorkerShape'
        BY SetsAssumption, <2>1 DEF InsertAndSpawn, vars, shared, slots, callerVars,
           workerVars, EndTile, OneBuilderPerTile, CallerShape
    <2>2. CASE UNCHANGED <<manifest, pending, workerVars>>
        BY SetsAssumption, <2>2 DEF vars, shared, slots, callerVars, workerVars,
           OneBuilderPerTile, CallerShape
    <2> QED BY <2>1, <2>2, <1>1, CallerFrame DEF CallerStep
<1>2. ASSUME NEW w \in Workers, WorkerStep(w) PROVE WorkerShape'
    <2>1. CASE StartBuild(w)
        BY SetsAssumption, <2>1 DEF StartBuild, vars, shared, slots, callerVars, workerVars,
           Move, CallerPcs, WorkerStages, BuildStages, OneBuilderPerTile, CallerShape
    <2>2. CASE MarkEmpty(w)
        BY SetsAssumption, <2>2 DEF MarkEmpty, vars, shared, slots, callerVars, workerVars,
           Move, CallerPcs, WorkerStages, BuildStages, OneBuilderPerTile, CallerShape
    <2>3. CASE SourceReady(w)
        BY SetsAssumption, <2>3 DEF SourceReady, vars, shared, slots, callerVars,
           workerVars, Move, CallerPcs, WorkerStages, BuildStages, OneBuilderPerTile,
           CallerShape
    <2>4. CASE DownloadDone(w)
        BY SetsAssumption, <2>4 DEF DownloadDone, vars, shared, slots, callerVars,
           workerVars, Move, CallerPcs, WorkerStages, BuildStages, OneBuilderPerTile,
           CallerShape
    <2>5. CASE NoCoverage(w)
        BY SetsAssumption, <2>5 DEF NoCoverage, vars, shared, slots, callerVars, workerVars,
           Move, Bump, CallerPcs, WorkerStages, BuildStages, OneBuilderPerTile, CallerShape
    <2>6. CASE AnnounceDownload(w)
        BY SetsAssumption, <2>6 DEF AnnounceDownload, vars, shared, slots, callerVars,
           workerVars, Move, Bump, CallerPcs, WorkerStages, BuildStages, OneBuilderPerTile,
           CallerShape
    <2>7. CASE AcquireProcessing(w)
        BY SetsAssumption, <2>7 DEF AcquireProcessing, vars, shared, slots, callerVars,
           workerVars, Move, CallerPcs, WorkerStages, BuildStages, OneBuilderPerTile,
           CallerShape
    <2>8. CASE DropStaged(w)
        BY SetsAssumption, <2>8 DEF DropStaged, vars, shared, slots, callerVars, workerVars,
           Move, CallerPcs, WorkerStages, BuildStages, OneBuilderPerTile, CallerShape
    <2>9. CASE AnnounceDequeue(w)
        BY SetsAssumption, <2>9 DEF AnnounceDequeue, vars, shared, slots, callerVars,
           workerVars, Move, Bump, CallerPcs, WorkerStages, BuildStages, OneBuilderPerTile,
           CallerShape
    <2>10. CASE Commit(w)
        BY SetsAssumption, <2>10 DEF Commit, vars, shared, slots, callerVars, workerVars,
           Move, CallerPcs, WorkerStages, BuildStages, OneBuilderPerTile, CallerShape
    <2>11. CASE ReturnBuilt(w)
        BY SetsAssumption, <2>11 DEF ReturnBuilt, vars, shared, slots, callerVars,
           workerVars, Move, CallerPcs, WorkerStages, BuildStages, OneBuilderPerTile,
           CallerShape
    <2>12. CASE AnnounceBuilt(w)
        BY SetsAssumption, <2>12 DEF AnnounceBuilt, vars, shared, slots, callerVars,
           workerVars, Move, Bump, CallerPcs, WorkerStages, BuildStages, OneBuilderPerTile,
           CallerShape
    <2>13. CASE ClearFailure(w)
        BY SetsAssumption, <2>13 DEF ClearFailure, vars, shared, slots, callerVars,
           workerVars, Move, CallerPcs, WorkerStages, BuildStages, OneBuilderPerTile,
           CallerShape
    <2>14. CASE ReturnFailed(w)
        BY SetsAssumption, <2>14 DEF ReturnFailed, vars, shared, slots, callerVars,
           workerVars, DropRemotePermits, CallerPcs, WorkerStages, BuildStages,
           OneBuilderPerTile, CallerShape
    <2>15. CASE RecordFailure(w)
        BY SetsAssumption, <2>15 DEF RecordFailure, vars, shared, slots, callerVars,
           workerVars, Move, CallerPcs, WorkerStages, BuildStages, OneBuilderPerTile,
           CallerShape
    <2>16. CASE LeavePending(w)
        BY SetsAssumption, <2>16 DEF LeavePending, vars, shared, slots, callerVars,
           workerVars, CallerPcs, WorkerStages, BuildStages, OneBuilderPerTile, CallerShape
    <2>17. CASE ReleasePermit(w)
        BY SetsAssumption, <2>17 DEF ReleasePermit, vars, shared, slots, callerVars,
           workerVars, CallerPcs, WorkerStages, BuildStages, OneBuilderPerTile, CallerShape
    <2> QED
        BY <2>1, <2>2, <2>3, <2>4, <2>5, <2>6, <2>7, <2>8, <2>9, <2>10, <2>11, <2>12, <2>13,
           <2>14, <2>15, <2>16, <2>17, <1>2 DEF WorkerStep
<1>3. CASE Disturbance
    <2>1. ASSUME NEW c \in Callers, QueryFails(c) PROVE WorkerShape'
        BY SetsAssumption, <2>1 DEF QueryFails, vars, shared, slots, callerVars, workerVars,
           OneBuilderPerTile, CallerShape
    <2>2. ASSUME NEW c \in Callers, SpawnPanics(c) PROVE WorkerShape'
        BY SetsAssumption, <2>2 DEF SpawnPanics, vars, shared, slots, callerVars,
           workerVars, DropAdmission, OneBuilderPerTile, CallerShape
    <2>3. ASSUME NEW w \in Workers, WorkerPanics(w) PROVE WorkerShape'
        BY SetsAssumption, <2>3 DEF WorkerPanics, vars, shared, slots, callerVars,
           workerVars, CallerPcs, WorkerStages, BuildStages, OneBuilderPerTile, CallerShape
    <2>4. CASE ResetBackoffs \/ Shutdown
        BY SetsAssumption, <2>4, EnvironmentFrame DEF vars, shared, slots, callerVars,
           workerVars, OneBuilderPerTile, CallerShape
    <2> QED BY <1>3, <2>1, <2>2, <2>3, <2>4 DEF Disturbance
<1>4. CASE Cooldown
    BY SetsAssumption, <1>4, EnvironmentFrame DEF vars, shared, slots, callerVars,
       workerVars, OneBuilderPerTile, CallerShape
<1>5. CASE UNCHANGED vars
    BY SetsAssumption, <1>5 DEF vars, shared, slots, callerVars, workerVars,
       OneBuilderPerTile, CallerShape
<1> QED BY <1>1, <1>2, <1>3, <1>4, <1>5 DEF Next

\* A tile that is being built is pending, so nobody inserts it a second time.
LEMMA OneBuilderStep ==
    ASSUME IInv, [Next]_vars
    PROVE  OneBuilderPerTile'
<1> USE DEF IInv, ProtocolTypeOK, OneBuilderPerTile
<1>1. ASSUME NEW c \in Callers, CallerStep(c) PROVE OneBuilderPerTile'
    <2>1. ASSUME NEW w \in Workers, InsertAndSpawn(c, w) PROVE OneBuilderPerTile'
        BY <2>1 DEF InsertAndSpawn, vars, shared, slots, callerVars, workerVars, EndTile,
           WorkerShape
    <2>2. CASE UNCHANGED <<manifest, pending, workerVars>>
        BY <2>2 DEF vars, shared, slots, callerVars, workerVars, WorkerShape
    <2> QED BY <2>1, <2>2, <1>1, CallerFrame DEF CallerStep
<1>2. ASSUME NEW w \in Workers, WorkerStep(w) PROVE OneBuilderPerTile'
    <2>1. CASE StartBuild(w)
        BY <2>1 DEF StartBuild, vars, shared, slots, callerVars, workerVars, Move,
           CallerPcs, WorkerStages, BuildStages, WorkerShape
    <2>2. CASE MarkEmpty(w)
        BY <2>2 DEF MarkEmpty, vars, shared, slots, callerVars, workerVars, Move, CallerPcs,
           WorkerStages, BuildStages, WorkerShape
    <2>3. CASE SourceReady(w)
        BY <2>3 DEF SourceReady, vars, shared, slots, callerVars, workerVars, Move,
           CallerPcs, WorkerStages, BuildStages, WorkerShape
    <2>4. CASE DownloadDone(w)
        BY <2>4 DEF DownloadDone, vars, shared, slots, callerVars, workerVars, Move,
           CallerPcs, WorkerStages, BuildStages, WorkerShape
    <2>5. CASE NoCoverage(w)
        BY <2>5 DEF NoCoverage, vars, shared, slots, callerVars, workerVars, Move, Bump,
           CallerPcs, WorkerStages, BuildStages, WorkerShape
    <2>6. CASE AnnounceDownload(w)
        BY <2>6 DEF AnnounceDownload, vars, shared, slots, callerVars, workerVars, Move,
           Bump, CallerPcs, WorkerStages, BuildStages, WorkerShape
    <2>7. CASE AcquireProcessing(w)
        BY <2>7 DEF AcquireProcessing, vars, shared, slots, callerVars, workerVars, Move,
           CallerPcs, WorkerStages, BuildStages, WorkerShape
    <2>8. CASE DropStaged(w)
        BY <2>8 DEF DropStaged, vars, shared, slots, callerVars, workerVars, Move,
           CallerPcs, WorkerStages, BuildStages, WorkerShape
    <2>9. CASE AnnounceDequeue(w)
        BY <2>9 DEF AnnounceDequeue, vars, shared, slots, callerVars, workerVars, Move,
           Bump, CallerPcs, WorkerStages, BuildStages, WorkerShape
    <2>10. CASE Commit(w)
        BY <2>10 DEF Commit, vars, shared, slots, callerVars, workerVars, Move, CallerPcs,
           WorkerStages, BuildStages, WorkerShape
    <2>11. CASE ReturnBuilt(w)
        BY <2>11 DEF ReturnBuilt, vars, shared, slots, callerVars, workerVars, Move,
           CallerPcs, WorkerStages, BuildStages, WorkerShape
    <2>12. CASE AnnounceBuilt(w)
        BY <2>12 DEF AnnounceBuilt, vars, shared, slots, callerVars, workerVars, Move, Bump,
           CallerPcs, WorkerStages, BuildStages, WorkerShape
    <2>13. CASE ClearFailure(w)
        BY <2>13 DEF ClearFailure, vars, shared, slots, callerVars, workerVars, Move,
           CallerPcs, WorkerStages, BuildStages, WorkerShape
    <2>14. CASE ReturnFailed(w)
        BY <2>14 DEF ReturnFailed, vars, shared, slots, callerVars, workerVars,
           DropRemotePermits, CallerPcs, WorkerStages, BuildStages, WorkerShape
    <2>15. CASE RecordFailure(w)
        BY <2>15 DEF RecordFailure, vars, shared, slots, callerVars, workerVars, Move,
           CallerPcs, WorkerStages, BuildStages, WorkerShape
    <2>16. CASE LeavePending(w)
        BY <2>16 DEF LeavePending, vars, shared, slots, callerVars, workerVars, CallerPcs,
           WorkerStages, BuildStages, WorkerShape
    <2>17. CASE ReleasePermit(w)
        BY <2>17 DEF ReleasePermit, vars, shared, slots, callerVars, workerVars, CallerPcs,
           WorkerStages, BuildStages, WorkerShape
    <2> QED
        BY <2>1, <2>2, <2>3, <2>4, <2>5, <2>6, <2>7, <2>8, <2>9, <2>10, <2>11, <2>12, <2>13,
           <2>14, <2>15, <2>16, <2>17, <1>2 DEF WorkerStep
<1>3. CASE Disturbance
    <2>1. ASSUME NEW c \in Callers, QueryFails(c) PROVE OneBuilderPerTile'
        BY <2>1 DEF QueryFails, vars, shared, slots, callerVars, workerVars, WorkerShape
    <2>2. ASSUME NEW c \in Callers, SpawnPanics(c) PROVE OneBuilderPerTile'
        BY <2>2 DEF SpawnPanics, vars, shared, slots, callerVars, workerVars, DropAdmission,
           WorkerShape
    <2>3. ASSUME NEW w \in Workers, WorkerPanics(w) PROVE OneBuilderPerTile'
        BY <2>3 DEF WorkerPanics, vars, shared, slots, callerVars, workerVars, CallerPcs,
           WorkerStages, BuildStages, WorkerShape
    <2>4. CASE ResetBackoffs \/ Shutdown
        BY <2>4, EnvironmentFrame DEF vars, shared, slots, callerVars, workerVars,
           WorkerShape
    <2> QED BY <1>3, <2>1, <2>2, <2>3, <2>4 DEF Disturbance
<1>4. CASE Cooldown
    BY <1>4, EnvironmentFrame DEF vars, shared, slots, callerVars, workerVars, WorkerShape
<1>5. CASE UNCHANGED vars
    BY <1>5 DEF vars, shared, slots, callerVars, workerVars, WorkerShape
<1> QED BY <1>1, <1>2, <1>3, <1>4, <1>5 DEF Next

\* A snapshot that misses a committed tile is outdated by the builder's next bump.
LEMMA AnnouncedStep ==
    ASSUME IInv, [Next]_vars
    PROVE  CommitIsAnnounced'
<1> USE DEF IInv, ProtocolTypeOK, CommitIsAnnounced, Misses
<1>1. ASSUME NEW c \in Callers, CallerStep(c) PROVE CommitIsAnnounced'
    <2>1. CASE Begin(c)
        BY <2>1 DEF Begin, vars, shared, slots, callerVars, workerVars, WorkerShape,
           OneBuilderPerTile
    <2>2. CASE Query(c)
        BY <2>2 DEF Query, vars, shared, slots, callerVars, workerVars, WorkerShape,
           OneBuilderPerTile
    <2>3. CASE EndScan(c)
        BY <2>3 DEF EndScan, vars, shared, slots, callerVars, workerVars, WorkerShape,
           OneBuilderPerTile
    <2>4. ASSUME NEW t \in Tiles, SkipTile(c, t) PROVE CommitIsAnnounced'
        BY <2>4 DEF SkipTile, vars, shared, slots, callerVars, workerVars, WorkerShape,
           OneBuilderPerTile
    <2>5. ASSUME NEW t \in Tiles, PassGate(c, t) PROVE CommitIsAnnounced'
        BY <2>5 DEF PassGate, vars, shared, slots, callerVars, workerVars, WorkerShape,
           OneBuilderPerTile
    <2>6. CASE CheckPending(c)
        <3>1. CASE MayBuild(ctile[c])
            BY <2>6, <3>1 DEF CheckPending, vars, shared, slots, callerVars, workerVars,
               EndTile, WorkerShape, OneBuilderPerTile
        <3>2. CASE ~(MayBuild(ctile[c]))
            BY <2>6, <3>2 DEF CheckPending, vars, shared, slots, callerVars, workerVars,
               EndTile, WorkerShape, OneBuilderPerTile
        <3> QED BY <3>1, <3>2
    <2>7. CASE AdmitLocal(c)
        <3>1. CASE procActive < ProcLimit
            BY <2>7, <3>1 DEF AdmitLocal, vars, shared, slots, callerVars, workerVars,
               EndTile, WorkerShape, OneBuilderPerTile
        <3>2. CASE ~(procActive < ProcLimit)
            BY <2>7, <3>2 DEF AdmitLocal, vars, shared, slots, callerVars, workerVars,
               EndTile, WorkerShape, OneBuilderPerTile
        <3> QED BY <3>1, <3>2
    <2>8. CASE AdmitStaging(c)
        <3>1. CASE stagingActive < StagingLimit
            BY <2>8, <3>1 DEF AdmitStaging, vars, shared, slots, callerVars, workerVars,
               EndTile, WorkerShape, OneBuilderPerTile
        <3>2. CASE ~(stagingActive < StagingLimit)
            BY <2>8, <3>2 DEF AdmitStaging, vars, shared, slots, callerVars, workerVars,
               EndTile, WorkerShape, OneBuilderPerTile
        <3> QED BY <3>1, <3>2
    <2>9. CASE AdmitDownload(c)
        <3>1. CASE downActive < DownLimit
            BY <2>9, <3>1 DEF AdmitDownload, vars, shared, slots, callerVars, workerVars,
               EndTile, WorkerShape, OneBuilderPerTile
        <3>2. CASE ~(downActive < DownLimit)
            BY <2>9, <3>2 DEF AdmitDownload, vars, shared, slots, callerVars, workerVars,
               EndTile, WorkerShape, OneBuilderPerTile
        <3> QED BY <3>1, <3>2
    <2>10. CASE InsertLost(c)
        BY <2>10 DEF InsertLost, vars, shared, slots, callerVars, workerVars, EndTile,
           DropAdmission, WorkerShape, OneBuilderPerTile
    <2>11. ASSUME NEW w \in Workers, InsertAndSpawn(c, w) PROVE CommitIsAnnounced'
        BY <2>11 DEF InsertAndSpawn, vars, shared, slots, callerVars, workerVars, EndTile,
           WorkerShape, OneBuilderPerTile
    <2> QED
        BY <2>1, <2>2, <2>3, <2>4, <2>5, <2>6, <2>7, <2>8, <2>9, <2>10, <2>11, <1>1 DEF
           CallerStep
<1>2. ASSUME NEW w \in Workers, WorkerStep(w) PROVE CommitIsAnnounced'
    <2>1. CASE StartBuild(w)
        BY <2>1 DEF StartBuild, vars, shared, slots, callerVars, workerVars, Move,
           CallerPcs, WorkerStages, BuildStages, WorkerShape, OneBuilderPerTile
    <2>2. CASE MarkEmpty(w)
        BY <2>2 DEF MarkEmpty, vars, shared, slots, callerVars, workerVars, Move, CallerPcs,
           WorkerStages, BuildStages, WorkerShape, OneBuilderPerTile
    <2>3. CASE SourceReady(w)
        BY <2>3 DEF SourceReady, vars, shared, slots, callerVars, workerVars, Move,
           CallerPcs, WorkerStages, BuildStages, WorkerShape, OneBuilderPerTile
    <2>4. CASE DownloadDone(w)
        BY <2>4 DEF DownloadDone, vars, shared, slots, callerVars, workerVars, Move,
           CallerPcs, WorkerStages, BuildStages, WorkerShape, OneBuilderPerTile
    <2>5. CASE NoCoverage(w)
        BY <2>5 DEF NoCoverage, vars, shared, slots, callerVars, workerVars, Move, Bump,
           WorkerShape, OneBuilderPerTile
    <2>6. CASE AnnounceDownload(w)
        BY <2>6 DEF AnnounceDownload, vars, shared, slots, callerVars, workerVars, Move,
           Bump, WorkerShape, OneBuilderPerTile
    <2>7. CASE AcquireProcessing(w)
        BY <2>7 DEF AcquireProcessing, vars, shared, slots, callerVars, workerVars, Move,
           CallerPcs, WorkerStages, BuildStages, WorkerShape, OneBuilderPerTile
    <2>8. CASE DropStaged(w)
        BY <2>8 DEF DropStaged, vars, shared, slots, callerVars, workerVars, Move,
           CallerPcs, WorkerStages, BuildStages, WorkerShape, OneBuilderPerTile
    <2>9. CASE AnnounceDequeue(w)
        BY <2>9 DEF AnnounceDequeue, vars, shared, slots, callerVars, workerVars, Move,
           Bump, WorkerShape, OneBuilderPerTile
    <2>10. CASE Commit(w)
        BY <2>10 DEF Commit, vars, shared, slots, callerVars, workerVars, Move, CallerPcs,
           WorkerStages, BuildStages, WorkerShape, OneBuilderPerTile
    <2>11. CASE ReturnBuilt(w)
        BY <2>11 DEF ReturnBuilt, vars, shared, slots, callerVars, workerVars, Move,
           WorkerShape, OneBuilderPerTile
    <2>12. CASE AnnounceBuilt(w)
        BY <2>12 DEF AnnounceBuilt, vars, shared, slots, callerVars, workerVars, Move, Bump,
           WorkerShape, OneBuilderPerTile
    <2>13. CASE ClearFailure(w)
        BY <2>13 DEF ClearFailure, vars, shared, slots, callerVars, workerVars, Move,
           CallerPcs, WorkerStages, BuildStages, WorkerShape, OneBuilderPerTile
    <2>14. CASE ReturnFailed(w)
        BY <2>14 DEF ReturnFailed, vars, shared, slots, callerVars, workerVars,
           DropRemotePermits, CallerPcs, WorkerStages, BuildStages, WorkerShape,
           OneBuilderPerTile
    <2>15. CASE RecordFailure(w)
        BY <2>15 DEF RecordFailure, vars, shared, slots, callerVars, workerVars, Move,
           CallerPcs, WorkerStages, BuildStages, WorkerShape, OneBuilderPerTile
    <2>16. CASE LeavePending(w)
        BY <2>16 DEF LeavePending, vars, shared, slots, callerVars, workerVars, CallerPcs,
           WorkerStages, BuildStages, WorkerShape, OneBuilderPerTile
    <2>17. CASE ReleasePermit(w)
        BY <2>17 DEF ReleasePermit, vars, shared, slots, callerVars, workerVars, CallerPcs,
           WorkerStages, BuildStages, WorkerShape, OneBuilderPerTile
    <2> QED
        BY <2>1, <2>2, <2>3, <2>4, <2>5, <2>6, <2>7, <2>8, <2>9, <2>10, <2>11, <2>12, <2>13,
           <2>14, <2>15, <2>16, <2>17, <1>2 DEF WorkerStep
<1>3. CASE Disturbance
    <2>1. ASSUME NEW c \in Callers, QueryFails(c) PROVE CommitIsAnnounced'
        BY <2>1 DEF QueryFails, vars, shared, slots, callerVars, workerVars, WorkerShape,
           OneBuilderPerTile
    <2>2. ASSUME NEW c \in Callers, SpawnPanics(c) PROVE CommitIsAnnounced'
        BY <2>2 DEF SpawnPanics, vars, shared, slots, callerVars, workerVars, DropAdmission,
           WorkerShape, OneBuilderPerTile
    <2>3. ASSUME NEW w \in Workers, WorkerPanics(w) PROVE CommitIsAnnounced'
        BY <2>3 DEF WorkerPanics, vars, shared, slots, callerVars, workerVars, CallerPcs,
           WorkerStages, BuildStages, WorkerShape, OneBuilderPerTile
    <2>4. CASE ResetBackoffs \/ Shutdown
        BY <2>4, EnvironmentFrame DEF vars, shared, slots, callerVars, workerVars,
           WorkerShape, OneBuilderPerTile
    <2> QED BY <1>3, <2>1, <2>2, <2>3, <2>4 DEF Disturbance
<1>4. CASE Cooldown
    BY <1>4, EnvironmentFrame DEF vars, shared, slots, callerVars, workerVars, WorkerShape,
       OneBuilderPerTile
<1>5. CASE UNCHANGED vars
    BY <1>5 DEF vars, shared, slots, callerVars, workerVars, WorkerShape, OneBuilderPerTile
<1> QED BY <1>1, <1>2, <1>3, <1>4, <1>5 DEF Next

\* The initial state satisfies every part of the invariant.
LEMMA IInvInit ==
    ASSUME Init
    PROVE  IInv
BY SetsAssumption DEF Init, IInv, ProtocolTypeOK, CallerShape, WorkerShape,
   OneBuilderPerTile, CommitIsAnnounced, Misses, Rows, CallerPcs, WorkerStages, BuildStages

\* The five parts of IInv hold in every reachable state, for all sets and limits.
THEOREM Inductive == Spec => []IInv
<1>1. IInv /\ [Next]_vars => IInv'
    BY TypeStep, CallerShapeStep, WorkerShapeStep, OneBuilderStep, AnnouncedStep DEF IInv
<1> QED BY <1>1, IInvInit, PTL DEF Spec

\* Two build threads are never on the same tile.
THEOREM OneBuilder == Spec => []OneBuilderPerTile
<1>1. IInv => OneBuilderPerTile
    BY DEF IInv
<1> QED BY <1>1, Inductive, PTL

\* Only a builder that is about to bump the revision, or died before it could, hides
\* a committed tile from a selection whose revision is current.
THEOREM Announced == Spec => []CommitIsAnnounced
<1>1. IInv => CommitIsAnnounced
    BY DEF IInv
<1> QED BY <1>1, Inductive, PTL

-----------------------------------------------------------------------------
(* The permits of work_slots.rs.                                           *)

\* No permit changes hands.
PermitsUnchanged == UNCHANGED <<slots, ProcHolders, DownHolders, StagingHolders>>

\* The caller steps outside admission and insertion touch no permit.
LEMMA QuietCallerStep ==
    ASSUME IInv, NEW c \in Callers,
           \/ Begin(c) \/ Query(c) \/ QueryFails(c) \/ EndScan(c) \/ CheckPending(c)
           \/ \E t \in Tiles : SkipTile(c, t) \/ PassGate(c, t)
    PROVE  PermitsUnchanged
<1> USE DEF PermitsUnchanged
<1>1. CASE Begin(c)
    BY <1>1 DEF Begin, IInv, ProcHolders, DownHolders, StagingHolders, HoldsProc, HoldsDown,
       HoldsStaging, slots, workerVars, ProtocolTypeOK, CallerShape, WorkerShape
<1>2. CASE Query(c)
    BY <1>2 DEF Query, IInv, ProcHolders, DownHolders, StagingHolders, HoldsProc, HoldsDown,
       HoldsStaging, shared, slots, workerVars, ProtocolTypeOK, CallerShape, WorkerShape
<1>3. CASE EndScan(c)
    BY <1>3 DEF EndScan, IInv, ProcHolders, DownHolders, StagingHolders, HoldsProc,
       HoldsDown, HoldsStaging, shared, slots, workerVars, ProtocolTypeOK, CallerShape,
       WorkerShape
<1>4. ASSUME NEW t \in Tiles, SkipTile(c, t) PROVE PermitsUnchanged
    BY <1>4 DEF SkipTile, IInv, ProcHolders, DownHolders, StagingHolders, HoldsProc,
       HoldsDown, HoldsStaging, slots, workerVars, ProtocolTypeOK, CallerShape, WorkerShape
<1>5. ASSUME NEW t \in Tiles, PassGate(c, t) PROVE PermitsUnchanged
    BY <1>5 DEF PassGate, IInv, ProcHolders, DownHolders, StagingHolders, HoldsProc,
       HoldsDown, HoldsStaging, shared, slots, workerVars, ProtocolTypeOK, CallerShape,
       WorkerShape
<1>6. CASE CheckPending(c)
    BY <1>6 DEF CheckPending, IInv, ProcHolders, DownHolders, StagingHolders, HoldsProc,
       HoldsDown, HoldsStaging, shared, slots, workerVars, EndTile, ProtocolTypeOK,
       CallerShape, WorkerShape
<1>7. CASE QueryFails(c)
    BY <1>7 DEF QueryFails, IInv, ProcHolders, DownHolders, StagingHolders, HoldsProc,
       HoldsDown, HoldsStaging, shared, slots, workerVars, ProtocolTypeOK, CallerShape,
       WorkerShape
<1> QED BY <1>1, <1>2, <1>3, <1>4, <1>5, <1>6, <1>7

\* Nor do the worker steps that announce, record or compute.
LEMMA QuietWorkerStep ==
    ASSUME IInv, NEW w \in Workers,
           \/ StartBuild(w) \/ MarkEmpty(w) \/ SourceReady(w) \/ NoCoverage(w)
           \/ AnnounceDownload(w) \/ AnnounceDequeue(w) \/ Commit(w) \/ AnnounceBuilt(w)
           \/ ClearFailure(w) \/ RecordFailure(w) \/ LeavePending(w)
    PROVE  PermitsUnchanged
<1> USE DEF PermitsUnchanged
<1>1. CASE StartBuild(w)
    BY <1>1 DEF StartBuild, IInv, ProcHolders, DownHolders, StagingHolders, HoldsProc,
       HoldsDown, HoldsStaging, shared, slots, callerVars, Move, ProtocolTypeOK,
       CallerShape, WorkerShape
<1>2. CASE MarkEmpty(w)
    BY <1>2 DEF MarkEmpty, IInv, ProcHolders, DownHolders, StagingHolders, HoldsProc,
       HoldsDown, HoldsStaging, slots, callerVars, Move, ProtocolTypeOK, CallerShape,
       WorkerShape
<1>3. CASE SourceReady(w)
    BY <1>3 DEF SourceReady, IInv, ProcHolders, DownHolders, StagingHolders, HoldsProc,
       HoldsDown, HoldsStaging, shared, slots, callerVars, Move, ProtocolTypeOK,
       CallerShape, WorkerShape
<1>4. CASE NoCoverage(w)
    BY <1>4 DEF NoCoverage, IInv, ProcHolders, DownHolders, StagingHolders, HoldsProc,
       HoldsDown, HoldsStaging, slots, callerVars, Move, Bump, ProtocolTypeOK, CallerShape,
       WorkerShape
<1>5. CASE AnnounceDownload(w)
    BY <1>5 DEF AnnounceDownload, IInv, ProcHolders, DownHolders, StagingHolders, HoldsProc,
       HoldsDown, HoldsStaging, slots, callerVars, Move, Bump, ProtocolTypeOK, CallerShape,
       WorkerShape
<1>6. CASE AnnounceDequeue(w)
    BY <1>6 DEF AnnounceDequeue, IInv, ProcHolders, DownHolders, StagingHolders, HoldsProc,
       HoldsDown, HoldsStaging, slots, callerVars, Move, Bump, ProtocolTypeOK, CallerShape,
       WorkerShape
<1>7. CASE Commit(w)
    BY <1>7 DEF Commit, IInv, ProcHolders, DownHolders, StagingHolders, HoldsProc,
       HoldsDown, HoldsStaging, slots, callerVars, Move, ProtocolTypeOK, CallerShape,
       WorkerShape
<1>8. CASE AnnounceBuilt(w)
    BY <1>8 DEF AnnounceBuilt, IInv, ProcHolders, DownHolders, StagingHolders, HoldsProc,
       HoldsDown, HoldsStaging, slots, callerVars, Move, Bump, ProtocolTypeOK, CallerShape,
       WorkerShape
<1>9. CASE ClearFailure(w)
    BY <1>9 DEF ClearFailure, IInv, ProcHolders, DownHolders, StagingHolders, HoldsProc,
       HoldsDown, HoldsStaging, slots, callerVars, Move, ProtocolTypeOK, CallerShape,
       WorkerShape
<1>10. CASE RecordFailure(w)
    BY <1>10 DEF RecordFailure, IInv, ProcHolders, DownHolders, StagingHolders, HoldsProc,
       HoldsDown, HoldsStaging, slots, callerVars, Move, ProtocolTypeOK, CallerShape,
       WorkerShape
<1>11. CASE LeavePending(w)
    BY <1>11 DEF LeavePending, IInv, ProcHolders, DownHolders, StagingHolders, HoldsProc,
       HoldsDown, HoldsStaging, slots, callerVars, ProtocolTypeOK, CallerShape, WorkerShape
<1> QED BY <1>1, <1>2, <1>3, <1>4, <1>5, <1>6, <1>7, <1>8, <1>9, <1>10, <1>11

\* Nor do time, a reset or the exit flag.
LEMMA QuietEnvironmentStep ==
    ASSUME Cooldown \/ ResetBackoffs \/ Shutdown \/ UNCHANGED vars
    PROVE  PermitsUnchanged
BY EnvironmentFrame DEF PermitsUnchanged, vars, slots, callerVars, workerVars, ProcHolders,
   DownHolders, StagingHolders, HoldsProc, HoldsDown, HoldsStaging

\* What one step of x may do to the processing slots.
ProcEffect(x) ==
    \/ UNCHANGED ProcSlots!vars
    \/ ProcSlots!TryAcquire(x)
    \/ ProcSlots!DropPermit(x)
    \/ \E y \in Workers : ProcSlots!MovePermit(x, y)

\* Every step acquires, drops or moves at most one of the permits for the processing slots.
LEMMA ProcStep ==
    ASSUME IInv, [Next]_vars
    PROVE  [ProcSlots!Next]_(ProcSlots!vars)
<1> USE DEF IInv, ProcEffect
<1>1. ASSUME NEW c \in Callers, CallerStep(c) PROVE ProcEffect(c)
    <2>1. CASE AdmitLocal(c)
        BY SetsAssumption, <2>1 DEF AdmitLocal, ProcHolders, HoldsProc, shared, workerVars,
           EndTile, ProtocolTypeOK, CallerShape, WorkerShape, ProcSlots!TryAcquire,
           ProcSlots!DropPermit, ProcSlots!MovePermit, ProcSlots!vars
    <2>2. CASE AdmitStaging(c)
        BY SetsAssumption, <2>2 DEF AdmitStaging, ProcHolders, HoldsProc, shared,
           workerVars, EndTile, ProtocolTypeOK, CallerShape, WorkerShape,
           ProcSlots!TryAcquire, ProcSlots!DropPermit, ProcSlots!MovePermit, ProcSlots!vars,
           StagingLimit
    <2>3. CASE AdmitDownload(c)
        <3>1. CASE downActive < DownLimit
            BY SetsAssumption, <2>3, <3>1 DEF AdmitDownload, ProcHolders, HoldsProc, shared,
               workerVars, EndTile, ProtocolTypeOK, CallerShape, WorkerShape,
               ProcSlots!TryAcquire, ProcSlots!DropPermit, ProcSlots!MovePermit,
               ProcSlots!vars
        <3>2. CASE ~(downActive < DownLimit)
            BY SetsAssumption, <2>3, <3>2 DEF AdmitDownload, ProcHolders, HoldsProc, shared,
               workerVars, EndTile, ProtocolTypeOK, CallerShape, WorkerShape,
               ProcSlots!TryAcquire, ProcSlots!DropPermit, ProcSlots!MovePermit,
               ProcSlots!vars
        <3> QED BY <3>1, <3>2
    <2>4. CASE InsertLost(c)
        BY SetsAssumption, <2>4 DEF InsertLost, ProcHolders, HoldsProc, shared, workerVars,
           EndTile, DropAdmission, ProtocolTypeOK, CallerShape, WorkerShape,
           ProcSlots!TryAcquire, ProcSlots!DropPermit, ProcSlots!MovePermit, ProcSlots!vars
    <2>5. ASSUME NEW w \in Workers, InsertAndSpawn(c, w) PROVE ProcEffect(c)
        BY SetsAssumption, <2>5 DEF InsertAndSpawn, ProcHolders, HoldsProc, slots, EndTile,
           ProtocolTypeOK, CallerShape, WorkerShape, ProcSlots!TryAcquire,
           ProcSlots!DropPermit, ProcSlots!MovePermit, ProcSlots!vars
    <2> QED
        BY <2>1, <2>2, <2>3, <2>4, <2>5, <1>1, QuietCallerStep DEF CallerStep,
           PermitsUnchanged, slots, ProcSlots!vars
<1>2. ASSUME NEW w \in Workers, WorkerStep(w) PROVE ProcEffect(w)
    <2>1. CASE DownloadDone(w)
        BY SetsAssumption, <2>1 DEF DownloadDone, ProcHolders, HoldsProc, shared,
           callerVars, Move, ProtocolTypeOK, CallerShape, WorkerShape, ProcSlots!TryAcquire,
           ProcSlots!DropPermit, ProcSlots!MovePermit, ProcSlots!vars
    <2>2. CASE AcquireProcessing(w)
        BY SetsAssumption, <2>2 DEF AcquireProcessing, ProcHolders, HoldsProc, shared,
           callerVars, Move, ProtocolTypeOK, CallerShape, WorkerShape, ProcSlots!TryAcquire,
           ProcSlots!DropPermit, ProcSlots!MovePermit, ProcSlots!vars
    <2>3. CASE DropStaged(w)
        BY SetsAssumption, <2>3 DEF DropStaged, ProcHolders, HoldsProc, shared, callerVars,
           Move, ProtocolTypeOK, CallerShape, WorkerShape, ProcSlots!TryAcquire,
           ProcSlots!DropPermit, ProcSlots!MovePermit, ProcSlots!vars
    <2>4. CASE ReturnBuilt(w)
        BY SetsAssumption, <2>4 DEF ReturnBuilt, ProcHolders, HoldsProc, shared, callerVars,
           Move, ProtocolTypeOK, CallerShape, WorkerShape, ProcSlots!TryAcquire,
           ProcSlots!DropPermit, ProcSlots!MovePermit, ProcSlots!vars
    <2>5. CASE ReturnFailed(w)
        BY SetsAssumption, <2>5 DEF ReturnFailed, ProcHolders, HoldsProc, HoldsDown,
           HoldsStaging, shared, callerVars, DropRemotePermits, ProtocolTypeOK, CallerShape,
           WorkerShape, ProcSlots!TryAcquire, ProcSlots!DropPermit, ProcSlots!MovePermit,
           ProcSlots!vars
    <2>6. CASE ReleasePermit(w)
        BY SetsAssumption, <2>6 DEF ReleasePermit, ProcHolders, HoldsProc, shared,
           callerVars, ProtocolTypeOK, CallerShape, WorkerShape, ProcSlots!TryAcquire,
           ProcSlots!DropPermit, ProcSlots!MovePermit, ProcSlots!vars
    <2> QED
        BY <2>1, <2>2, <2>3, <2>4, <2>5, <2>6, <1>2, QuietWorkerStep DEF WorkerStep,
           PermitsUnchanged, slots, ProcSlots!vars
<1>3. CASE Disturbance
    <2>1. ASSUME NEW c \in Callers, SpawnPanics(c) PROVE ProcEffect(c)
        BY SetsAssumption, <2>1 DEF SpawnPanics, ProcHolders, HoldsProc, workerVars,
           DropAdmission, ProtocolTypeOK, CallerShape, WorkerShape, ProcSlots!TryAcquire,
           ProcSlots!DropPermit, ProcSlots!MovePermit, ProcSlots!vars
    <2>2. ASSUME NEW w \in Workers, WorkerPanics(w) PROVE ProcEffect(w)
        BY SetsAssumption, <2>2 DEF WorkerPanics, ProcHolders, HoldsProc, HoldsDown,
           HoldsStaging, shared, callerVars, ProtocolTypeOK, CallerShape, WorkerShape,
           ProcSlots!TryAcquire, ProcSlots!DropPermit, ProcSlots!MovePermit, ProcSlots!vars
    <2> QED
        BY <1>3, <2>1, <2>2, QuietCallerStep, QuietEnvironmentStep DEF Disturbance,
           ProcSlots!Next, PermitsUnchanged, slots, ProcSlots!vars
<1>4. CASE Cooldown \/ UNCHANGED vars
    BY <1>4, QuietEnvironmentStep DEF PermitsUnchanged, slots, ProcSlots!vars
<1> QED BY <1>1, <1>2, <1>3, <1>4 DEF Next, ProcSlots!Next

\* What one step of x may do to the download slots.
DownEffect(x) ==
    \/ UNCHANGED DownSlots!vars
    \/ DownSlots!TryAcquire(x)
    \/ DownSlots!DropPermit(x)
    \/ \E y \in Workers : DownSlots!MovePermit(x, y)

\* Every step acquires, drops or moves at most one of the permits for the download slots.
LEMMA DownStep ==
    ASSUME IInv, [Next]_vars
    PROVE  [DownSlots!Next]_(DownSlots!vars)
<1> USE DEF IInv, DownEffect
<1>1. ASSUME NEW c \in Callers, CallerStep(c) PROVE DownEffect(c)
    <2>1. CASE AdmitLocal(c)
        BY SetsAssumption, <2>1 DEF AdmitLocal, DownHolders, HoldsDown, shared, workerVars,
           EndTile, ProtocolTypeOK, CallerShape, WorkerShape, DownSlots!TryAcquire,
           DownSlots!DropPermit, DownSlots!MovePermit, DownSlots!vars
    <2>2. CASE AdmitStaging(c)
        BY SetsAssumption, <2>2 DEF AdmitStaging, DownHolders, HoldsDown, shared,
           workerVars, EndTile, ProtocolTypeOK, CallerShape, WorkerShape,
           DownSlots!TryAcquire, DownSlots!DropPermit, DownSlots!MovePermit, DownSlots!vars,
           StagingLimit
    <2>3. CASE AdmitDownload(c)
        <3>1. CASE downActive < DownLimit
            BY SetsAssumption, <2>3, <3>1 DEF AdmitDownload, DownHolders, HoldsDown, shared,
               workerVars, EndTile, ProtocolTypeOK, CallerShape, WorkerShape,
               DownSlots!TryAcquire, DownSlots!DropPermit, DownSlots!MovePermit,
               DownSlots!vars
        <3>2. CASE ~(downActive < DownLimit)
            BY SetsAssumption, <2>3, <3>2 DEF AdmitDownload, EndTile, DownHolders,
               HoldsDown, workerVars, DownSlots!vars, ProtocolTypeOK, shared
        <3> QED BY <3>1, <3>2
    <2>4. CASE InsertLost(c)
        BY SetsAssumption, <2>4 DEF InsertLost, DownHolders, HoldsDown, shared, workerVars,
           EndTile, DropAdmission, ProtocolTypeOK, CallerShape, WorkerShape,
           DownSlots!TryAcquire, DownSlots!DropPermit, DownSlots!MovePermit, DownSlots!vars
    <2>5. ASSUME NEW w \in Workers, InsertAndSpawn(c, w) PROVE DownEffect(c)
        BY SetsAssumption, <2>5 DEF InsertAndSpawn, DownHolders, HoldsDown, slots, EndTile,
           BuildStages, CallerPcs, WorkerStages, ProtocolTypeOK, CallerShape, WorkerShape,
           DownSlots!TryAcquire, DownSlots!DropPermit, DownSlots!MovePermit, DownSlots!vars
    <2> QED
        BY <2>1, <2>2, <2>3, <2>4, <2>5, <1>1, QuietCallerStep DEF CallerStep,
           PermitsUnchanged, slots, DownSlots!vars
<1>2. ASSUME NEW w \in Workers, WorkerStep(w) PROVE DownEffect(w)
    <2>1. CASE DownloadDone(w)
        BY SetsAssumption, <2>1 DEF DownloadDone, DownHolders, HoldsDown, shared,
           callerVars, Move, ProtocolTypeOK, CallerShape, WorkerShape, DownSlots!TryAcquire,
           DownSlots!DropPermit, DownSlots!MovePermit, DownSlots!vars
    <2>2. CASE AcquireProcessing(w)
        BY SetsAssumption, <2>2 DEF AcquireProcessing, DownHolders, HoldsDown, shared,
           callerVars, Move, ProtocolTypeOK, CallerShape, WorkerShape, DownSlots!TryAcquire,
           DownSlots!DropPermit, DownSlots!MovePermit, DownSlots!vars
    <2>3. CASE DropStaged(w)
        BY SetsAssumption, <2>3 DEF DropStaged, DownHolders, HoldsDown, shared, callerVars,
           Move, ProtocolTypeOK, CallerShape, WorkerShape, DownSlots!TryAcquire,
           DownSlots!DropPermit, DownSlots!MovePermit, DownSlots!vars
    <2>4. CASE ReturnBuilt(w)
        BY SetsAssumption, <2>4 DEF ReturnBuilt, DownHolders, HoldsDown, shared, callerVars,
           Move, ProtocolTypeOK, CallerShape, WorkerShape, DownSlots!TryAcquire,
           DownSlots!DropPermit, DownSlots!MovePermit, DownSlots!vars
    <2>5. CASE ReturnFailed(w)
        BY SetsAssumption, <2>5 DEF ReturnFailed, DownHolders, HoldsProc, HoldsDown,
           HoldsStaging, shared, callerVars, DropRemotePermits, ProtocolTypeOK, CallerShape,
           WorkerShape, DownSlots!TryAcquire, DownSlots!DropPermit, DownSlots!MovePermit,
           DownSlots!vars
    <2>6. CASE ReleasePermit(w)
        BY SetsAssumption, <2>6 DEF ReleasePermit, DownHolders, HoldsDown, shared,
           callerVars, ProtocolTypeOK, CallerShape, WorkerShape, DownSlots!TryAcquire,
           DownSlots!DropPermit, DownSlots!MovePermit, DownSlots!vars
    <2> QED
        BY <2>1, <2>2, <2>3, <2>4, <2>5, <2>6, <1>2, QuietWorkerStep DEF WorkerStep,
           PermitsUnchanged, slots, DownSlots!vars
<1>3. CASE Disturbance
    <2>1. ASSUME NEW c \in Callers, SpawnPanics(c) PROVE DownEffect(c)
        BY SetsAssumption, <2>1 DEF SpawnPanics, DownHolders, HoldsDown, workerVars,
           DropAdmission, ProtocolTypeOK, CallerShape, WorkerShape, DownSlots!TryAcquire,
           DownSlots!DropPermit, DownSlots!MovePermit, DownSlots!vars
    <2>2. ASSUME NEW w \in Workers, WorkerPanics(w) PROVE DownEffect(w)
        BY SetsAssumption, <2>2 DEF WorkerPanics, DownHolders, HoldsProc, HoldsDown,
           HoldsStaging, shared, callerVars, ProtocolTypeOK, CallerShape, WorkerShape,
           DownSlots!TryAcquire, DownSlots!DropPermit, DownSlots!MovePermit, DownSlots!vars
    <2> QED
        BY <1>3, <2>1, <2>2, QuietCallerStep, QuietEnvironmentStep DEF Disturbance,
           DownSlots!Next, PermitsUnchanged, slots, DownSlots!vars
<1>4. CASE Cooldown \/ UNCHANGED vars
    BY <1>4, QuietEnvironmentStep DEF PermitsUnchanged, slots, DownSlots!vars
<1> QED BY <1>1, <1>2, <1>3, <1>4 DEF Next, DownSlots!Next

\* What one step of x may do to the staging slots.
StagingEffect(x) ==
    \/ UNCHANGED StagingSlots!vars
    \/ StagingSlots!TryAcquire(x)
    \/ StagingSlots!DropPermit(x)
    \/ \E y \in Workers : StagingSlots!MovePermit(x, y)

\* Every step acquires, drops or moves at most one of the permits for the staging slots.
LEMMA StagingStep ==
    ASSUME IInv, [Next]_vars
    PROVE  [StagingSlots!Next]_(StagingSlots!vars)
<1> USE DEF IInv, StagingEffect
<1>1. ASSUME NEW c \in Callers, CallerStep(c) PROVE StagingEffect(c)
    <2>1. CASE AdmitLocal(c)
        BY SetsAssumption, <2>1 DEF AdmitLocal, StagingHolders, HoldsStaging, shared,
           workerVars, EndTile, ProtocolTypeOK, CallerShape, WorkerShape,
           StagingSlots!TryAcquire, StagingSlots!DropPermit, StagingSlots!MovePermit,
           StagingSlots!vars, StagingLimit
    <2>2. CASE AdmitStaging(c)
        BY SetsAssumption, <2>2 DEF AdmitStaging, StagingHolders, HoldsStaging, shared,
           workerVars, EndTile, ProtocolTypeOK, CallerShape, WorkerShape,
           StagingSlots!TryAcquire, StagingSlots!DropPermit, StagingSlots!MovePermit,
           StagingSlots!vars, StagingLimit
    <2>3. CASE AdmitDownload(c)
        <3>1. CASE downActive < DownLimit
            BY SetsAssumption, <2>3, <3>1 DEF AdmitDownload, StagingHolders, HoldsStaging,
               shared, workerVars, EndTile, ProtocolTypeOK, CallerShape, WorkerShape,
               StagingSlots!TryAcquire, StagingSlots!DropPermit, StagingSlots!MovePermit,
               StagingSlots!vars, StagingLimit
        <3>2. CASE ~(downActive < DownLimit)
            BY SetsAssumption, <2>3, <3>2 DEF AdmitDownload, StagingHolders, HoldsStaging,
               shared, workerVars, EndTile, ProtocolTypeOK, CallerShape, WorkerShape,
               StagingSlots!TryAcquire, StagingSlots!DropPermit, StagingSlots!MovePermit,
               StagingSlots!vars, StagingLimit
        <3> QED BY <3>1, <3>2
    <2>4. CASE InsertLost(c)
        BY SetsAssumption, <2>4 DEF InsertLost, StagingHolders, HoldsStaging, shared,
           workerVars, EndTile, DropAdmission, ProtocolTypeOK, CallerShape, WorkerShape,
           StagingSlots!TryAcquire, StagingSlots!DropPermit, StagingSlots!MovePermit,
           StagingSlots!vars, StagingLimit
    <2>5. ASSUME NEW w \in Workers, InsertAndSpawn(c, w) PROVE StagingEffect(c)
        BY SetsAssumption, <2>5 DEF InsertAndSpawn, StagingHolders, HoldsStaging, slots,
           EndTile, ProtocolTypeOK, CallerShape, WorkerShape, StagingSlots!TryAcquire,
           StagingSlots!DropPermit, StagingSlots!MovePermit, StagingSlots!vars, StagingLimit
    <2> QED
        BY <2>1, <2>2, <2>3, <2>4, <2>5, <1>1, QuietCallerStep DEF CallerStep,
           PermitsUnchanged, slots, StagingSlots!vars
<1>2. ASSUME NEW w \in Workers, WorkerStep(w) PROVE StagingEffect(w)
    <2>1. CASE DownloadDone(w)
        BY SetsAssumption, <2>1 DEF DownloadDone, StagingHolders, HoldsStaging, shared,
           callerVars, Move, ProtocolTypeOK, CallerShape, WorkerShape,
           StagingSlots!TryAcquire, StagingSlots!DropPermit, StagingSlots!MovePermit,
           StagingSlots!vars, StagingLimit
    <2>2. CASE AcquireProcessing(w)
        BY SetsAssumption, <2>2 DEF AcquireProcessing, StagingHolders, HoldsStaging, shared,
           callerVars, Move, ProtocolTypeOK, CallerShape, WorkerShape,
           StagingSlots!TryAcquire, StagingSlots!DropPermit, StagingSlots!MovePermit,
           StagingSlots!vars, StagingLimit
    <2>3. CASE DropStaged(w)
        BY SetsAssumption, <2>3 DEF DropStaged, StagingHolders, HoldsStaging, shared,
           callerVars, Move, ProtocolTypeOK, CallerShape, WorkerShape,
           StagingSlots!TryAcquire, StagingSlots!DropPermit, StagingSlots!MovePermit,
           StagingSlots!vars, StagingLimit
    <2>4. CASE ReturnBuilt(w)
        BY SetsAssumption, <2>4 DEF ReturnBuilt, StagingHolders, HoldsStaging, shared,
           callerVars, Move, ProtocolTypeOK, CallerShape, WorkerShape,
           StagingSlots!TryAcquire, StagingSlots!DropPermit, StagingSlots!MovePermit,
           StagingSlots!vars, StagingLimit
    <2>5. CASE ReturnFailed(w)
        BY SetsAssumption, <2>5 DEF ReturnFailed, StagingHolders, HoldsProc, HoldsDown,
           HoldsStaging, shared, callerVars, DropRemotePermits, ProtocolTypeOK, CallerShape,
           WorkerShape, StagingSlots!TryAcquire, StagingSlots!DropPermit,
           StagingSlots!MovePermit, StagingSlots!vars, StagingLimit
    <2>6. CASE ReleasePermit(w)
        BY SetsAssumption, <2>6 DEF ReleasePermit, StagingHolders, HoldsStaging, shared,
           callerVars, ProtocolTypeOK, CallerShape, WorkerShape, StagingSlots!TryAcquire,
           StagingSlots!DropPermit, StagingSlots!MovePermit, StagingSlots!vars, StagingLimit
    <2> QED
        BY <2>1, <2>2, <2>3, <2>4, <2>5, <2>6, <1>2, QuietWorkerStep DEF WorkerStep,
           PermitsUnchanged, slots, StagingSlots!vars
<1>3. CASE Disturbance
    <2>1. ASSUME NEW c \in Callers, SpawnPanics(c) PROVE StagingEffect(c)
        BY SetsAssumption, <2>1 DEF SpawnPanics, StagingHolders, HoldsStaging, workerVars,
           DropAdmission, ProtocolTypeOK, CallerShape, WorkerShape, StagingSlots!TryAcquire,
           StagingSlots!DropPermit, StagingSlots!MovePermit, StagingSlots!vars, StagingLimit
    <2>2. ASSUME NEW w \in Workers, WorkerPanics(w) PROVE StagingEffect(w)
        BY SetsAssumption, <2>2 DEF WorkerPanics, StagingHolders, HoldsProc, HoldsDown,
           HoldsStaging, shared, callerVars, ProtocolTypeOK, CallerShape, WorkerShape,
           StagingSlots!TryAcquire, StagingSlots!DropPermit, StagingSlots!MovePermit,
           StagingSlots!vars, StagingLimit
    <2> QED
        BY <1>3, <2>1, <2>2, QuietCallerStep, QuietEnvironmentStep DEF Disturbance,
           StagingSlots!Next, PermitsUnchanged, slots, StagingSlots!vars
<1>4. CASE Cooldown \/ UNCHANGED vars
    BY <1>4, QuietEnvironmentStep DEF PermitsUnchanged, slots, StagingSlots!vars
<1> QED BY <1>1, <1>2, <1>3, <1>4 DEF Next, StagingSlots!Next

\* The counter instances measure sets as FiniteSets does.
LEMMA SameMeasure ==
    ASSUME NEW S
    PROVE  /\ ProcSlots!IsFiniteSet(S) <=> IsFiniteSet(S)
           /\ DownSlots!IsFiniteSet(S) <=> IsFiniteSet(S)
           /\ StagingSlots!IsFiniteSet(S) <=> IsFiniteSet(S)
           /\ ProcSlots!Cardinality(S) = Cardinality(S)
           /\ DownSlots!Cardinality(S) = Cardinality(S)
           /\ StagingSlots!Cardinality(S) = Cardinality(S)
BY DEF IsFiniteSet, Cardinality, ProcSlots!IsFiniteSet, ProcSlots!Cardinality,
       DownSlots!IsFiniteSet, DownSlots!Cardinality, StagingSlots!IsFiniteSet,
       StagingSlots!Cardinality

\* Nobody holds a permit when the application starts.
LEMMA SlotsInit ==
    ASSUME Init
    PROVE  ProcSlots!Init /\ DownSlots!Init /\ StagingSlots!Init
BY DEF Init, ProcSlots!Init, DownSlots!Init, StagingSlots!Init, ProcHolders, DownHolders,
       StagingHolders, HoldsProc, HoldsDown, HoldsStaging

\* Each of the three counters implements the abstract permit counter.
THEOREM PermitsImplemented == Spec => SlotsImplemented
<1>1. IInv /\ [Next]_vars =>
         /\ [ProcSlots!Next]_(ProcSlots!vars)
         /\ [DownSlots!Next]_(DownSlots!vars)
         /\ [StagingSlots!Next]_(StagingSlots!vars)
    BY ProcStep, DownStep, StagingStep
<1> QED BY <1>1, SlotsInit, Inductive, PTL
        DEF Spec, SlotsImplemented, ProcSlots!Spec, DownSlots!Spec, StagingSlots!Spec

\* Every operation of Slots and Permit keeps the counter exact and bounded: held and
\* active before it, kept and count after it.
LEMMA CountedStep ==
    ASSUME NEW limit \in Nat, NEW held, NEW active, NEW kept, NEW count,
           IsFiniteSet(held), active = Cardinality(held), active <= limit,
           \/ kept = held /\ count = active
           \/ \E x : x \notin held /\ active < limit /\ count = active + 1 /\ kept = held \cup {x}
           \/ \E x : x \in held /\ count = active - 1 /\ kept = held \ {x}
           \/ \E x, y : x \in held /\ y \notin held /\ count = active /\ kept = (held \ {x}) \cup {y}
    PROVE  IsFiniteSet(kept) /\ count = Cardinality(kept) /\ count <= limit
<1>1. Cardinality(held) \in Nat
    BY FS_CardinalityType
<1>2. CASE \E x : x \notin held /\ active < limit /\ count = active + 1 /\ kept = held \cup {x}
    BY <1>1, <1>2, FS_AddElement
<1>3. CASE \E x : x \in held /\ count = active - 1 /\ kept = held \ {x}
    BY <1>1, <1>3, FS_RemoveElement
<1>4. ASSUME NEW x \in held, NEW y, y \notin held, count = active, kept = (held \ {x}) \cup {y}
      PROVE  IsFiniteSet(kept) /\ count = Cardinality(kept) /\ count <= limit
    <2>1. IsFiniteSet(held \ {x}) /\ Cardinality(held \ {x}) = Cardinality(held) - 1
        BY FS_RemoveElement
    <2>2. /\ IsFiniteSet((held \ {x}) \cup {y})
          /\ Cardinality((held \ {x}) \cup {y}) = Cardinality(held \ {x}) + 1
        BY <1>4, <2>1, FS_AddElement
    <2> QED BY <1>1, <1>4, <2>1, <2>2
<1> QED BY <1>2, <1>3, <1>4

\* The permit counter of the processing slots is exact and bounded in every behaviour.
LEMMA ProcCounted == ProcSlots!Spec => []ProcSlots!Counted
<1>1. ASSUME ProcSlots!Counted, [ProcSlots!Next]_(ProcSlots!vars)
      PROVE  ProcSlots!Counted'
    <2>1. ProcLimit \in Nat
        BY LimitsAssumption DEF StagingLimit
    <2>2. /\ IsFiniteSet(ProcHolders) /\ procActive = Cardinality(ProcHolders) /\ procActive <= ProcLimit
        BY <1>1, SameMeasure DEF ProcSlots!Counted
    <2>3. \/ ProcHolders' = ProcHolders /\ procActive' = procActive
          \/ \E x : /\ x \notin ProcHolders /\ procActive < ProcLimit /\ procActive' = procActive + 1
                   /\ ProcHolders' = ProcHolders \cup {x}
          \/ \E x : x \in ProcHolders /\ procActive' = procActive - 1 /\ ProcHolders' = ProcHolders \ {x}
          \/ \E x, y : /\ x \in ProcHolders /\ y \notin ProcHolders /\ procActive' = procActive
                      /\ ProcHolders' = (ProcHolders \ {x}) \cup {y}
        BY <1>1 DEF ProcSlots!Next, ProcSlots!vars, ProcSlots!TryAcquire, ProcSlots!DropPermit, ProcSlots!MovePermit
    <2>4. IsFiniteSet(ProcHolders') /\ procActive' = Cardinality(ProcHolders') /\ procActive' <= ProcLimit
        BY <2>1, <2>2, <2>3, CountedStep
    <2> QED BY <2>4, SameMeasure DEF ProcSlots!Counted
<1>2. ASSUME ProcSlots!Init
      PROVE  ProcSlots!Counted
    <2>1. IsFiniteSet({}) /\ Cardinality({}) = 0
        BY FS_EmptySet
    <2>2. 0 <= ProcLimit
        BY LimitsAssumption DEF StagingLimit
    <2> QED BY <1>2, <2>1, <2>2, SameMeasure DEF ProcSlots!Init, ProcSlots!Counted
<1> QED BY <1>1, <1>2, PTL DEF ProcSlots!Spec

\* The permit counter of the download slots is exact and bounded in every behaviour.
LEMMA DownCounted == DownSlots!Spec => []DownSlots!Counted
<1>1. ASSUME DownSlots!Counted, [DownSlots!Next]_(DownSlots!vars)
      PROVE  DownSlots!Counted'
    <2>1. DownLimit \in Nat
        BY LimitsAssumption DEF StagingLimit
    <2>2. /\ IsFiniteSet(DownHolders) /\ downActive = Cardinality(DownHolders) /\ downActive <= DownLimit
        BY <1>1, SameMeasure DEF DownSlots!Counted
    <2>3. \/ DownHolders' = DownHolders /\ downActive' = downActive
          \/ \E x : /\ x \notin DownHolders /\ downActive < DownLimit /\ downActive' = downActive + 1
                   /\ DownHolders' = DownHolders \cup {x}
          \/ \E x : x \in DownHolders /\ downActive' = downActive - 1 /\ DownHolders' = DownHolders \ {x}
          \/ \E x, y : /\ x \in DownHolders /\ y \notin DownHolders /\ downActive' = downActive
                      /\ DownHolders' = (DownHolders \ {x}) \cup {y}
        BY <1>1 DEF DownSlots!Next, DownSlots!vars, DownSlots!TryAcquire, DownSlots!DropPermit, DownSlots!MovePermit
    <2>4. IsFiniteSet(DownHolders') /\ downActive' = Cardinality(DownHolders') /\ downActive' <= DownLimit
        BY <2>1, <2>2, <2>3, CountedStep
    <2> QED BY <2>4, SameMeasure DEF DownSlots!Counted
<1>2. ASSUME DownSlots!Init
      PROVE  DownSlots!Counted
    <2>1. IsFiniteSet({}) /\ Cardinality({}) = 0
        BY FS_EmptySet
    <2>2. 0 <= DownLimit
        BY LimitsAssumption DEF StagingLimit
    <2> QED BY <1>2, <2>1, <2>2, SameMeasure DEF DownSlots!Init, DownSlots!Counted
<1> QED BY <1>1, <1>2, PTL DEF DownSlots!Spec

\* The permit counter of the staging slots is exact and bounded in every behaviour.
LEMMA StagingCounted == StagingSlots!Spec => []StagingSlots!Counted
<1>1. ASSUME StagingSlots!Counted, [StagingSlots!Next]_(StagingSlots!vars)
      PROVE  StagingSlots!Counted'
    <2>1. StagingLimit \in Nat
        BY LimitsAssumption DEF StagingLimit
    <2>2. /\ IsFiniteSet(StagingHolders) /\ stagingActive = Cardinality(StagingHolders) /\ stagingActive <= StagingLimit
        BY <1>1, SameMeasure DEF StagingSlots!Counted
    <2>3. \/ StagingHolders' = StagingHolders /\ stagingActive' = stagingActive
          \/ \E x : /\ x \notin StagingHolders /\ stagingActive < StagingLimit /\ stagingActive' = stagingActive + 1
                   /\ StagingHolders' = StagingHolders \cup {x}
          \/ \E x : x \in StagingHolders /\ stagingActive' = stagingActive - 1 /\ StagingHolders' = StagingHolders \ {x}
          \/ \E x, y : /\ x \in StagingHolders /\ y \notin StagingHolders /\ stagingActive' = stagingActive
                      /\ StagingHolders' = (StagingHolders \ {x}) \cup {y}
        BY <1>1 DEF StagingSlots!Next, StagingSlots!vars, StagingSlots!TryAcquire, StagingSlots!DropPermit, StagingSlots!MovePermit
    <2>4. IsFiniteSet(StagingHolders') /\ stagingActive' = Cardinality(StagingHolders') /\ stagingActive' <= StagingLimit
        BY <2>1, <2>2, <2>3, CountedStep
    <2> QED BY <2>4, SameMeasure DEF StagingSlots!Counted
<1>2. ASSUME StagingSlots!Init
      PROVE  StagingSlots!Counted
    <2>1. IsFiniteSet({}) /\ Cardinality({}) = 0
        BY FS_EmptySet
    <2>2. 0 <= StagingLimit
        BY LimitsAssumption DEF StagingLimit
    <2> QED BY <1>2, <2>1, <2>2, SameMeasure DEF StagingSlots!Init, StagingSlots!Counted
<1> QED BY <1>1, <1>2, PTL DEF StagingSlots!Spec

\* The number of live permits never passes a limit and no counter ever drifts from it:
\* what WorkSlots promises of each of its instances.
THEOREM SlotsCounted ==
    /\ ProcSlots!Spec => []ProcSlots!Counted
    /\ DownSlots!Spec => []DownSlots!Counted
    /\ StagingSlots!Spec => []StagingSlots!Counted
BY ProcCounted, DownCounted, StagingCounted

\* The three counters are exact and bounded.
Accounted == ProcSlots!Counted /\ DownSlots!Counted /\ StagingSlots!Counted

\* In every reachable state, because they implement WorkSlots.
LEMMA AccountedAlways == Spec => []Accounted
<1>1. ProcSlots!Counted /\ DownSlots!Counted /\ StagingSlots!Counted => Accounted
    BY DEF Accounted
<1> QED BY <1>1, PermitsImplemented, ProcCounted, DownCounted, StagingCounted, PTL DEF SlotsImplemented

\* Every permit is counted exactly once and no limit of work_slots.rs is passed,
\* however the builds end.
THEOREM PermitsAccounted == Spec => []PermitAccounting
<1>1. Accounted => PermitAccounting
    BY SameMeasure DEF Accounted, PermitAccounting, ProcSlots!Counted, DownSlots!Counted,
       StagingSlots!Counted
<1> QED BY <1>1, AccountedAlways, PTL

\* Type correctness of every variable, the three counters included.
THEOREM TypeCorrect == Spec => []TypeOK
<1>1. IInv /\ Accounted => TypeOK
    <2> SUFFICES ASSUME IInv, Accounted PROVE CountersOK
        BY DEF IInv, TypeOK
    <2>1. /\ Cardinality(ProcHolders) \in Nat
          /\ Cardinality(DownHolders) \in Nat
          /\ Cardinality(StagingHolders) \in Nat
        BY FS_CardinalityType, SameMeasure DEF Accounted, ProcSlots!Counted, DownSlots!Counted, StagingSlots!Counted
    <2> QED BY <2>1, SameMeasure DEF CountersOK, Accounted, ProcSlots!Counted, DownSlots!Counted, StagingSlots!Counted
<1> QED BY <1>1, AccountedAlways, Inductive, PTL

-----------------------------------------------------------------------------
(* The cap on Moon and Mars builds.                                        *)

\* Callers that have read the size of the pending set of t's body, and may still
\* add to it.
Admitted(t) ==
    {c \in Callers : cpc[c] \in {"admit", "staged", "insert"} /\ ctile[c] \in SameBody(t)}

\* CapNearlyHolds is not inductive: a caller inserts without looking again.  Each
\* of those that may still insert is counted with what is pending.
CapBudget ==
    /\ IsFiniteSet(pending)
    /\ \A t \in CappedTiles :
         Cardinality(pending \cap SameBody(t)) + Cardinality(Admitted(t))
            <= BodyCap + Cardinality(Callers) - 1

\* Both sets are finite; the callers that may insert are callers.
LEMMA CapCounts ==
    ASSUME IsFiniteSet(pending)
    PROVE  /\ Cardinality(Callers) \in Nat /\ BodyCap \in Nat
           /\ \A t : /\ IsFiniteSet(pending \cap SameBody(t)) /\ IsFiniteSet(Admitted(t))
                    /\ Cardinality(pending \cap SameBody(t)) \in Nat
                    /\ Cardinality(Admitted(t)) \in Nat
                    /\ Cardinality(Admitted(t)) <= Cardinality(Callers)
<1> SUFFICES ASSUME NEW t
             PROVE  /\ Cardinality(Callers) \in Nat /\ BodyCap \in Nat
                    /\ IsFiniteSet(pending \cap SameBody(t)) /\ IsFiniteSet(Admitted(t))
                    /\ Cardinality(pending \cap SameBody(t)) \in Nat
                    /\ Cardinality(Admitted(t)) \in Nat
                    /\ Cardinality(Admitted(t)) <= Cardinality(Callers)
    OBVIOUS
<1>1. Admitted(t) \in SUBSET Callers
    BY DEF Admitted
<1>2. IsFiniteSet(Admitted(t)) /\ Cardinality(Admitted(t)) <= Cardinality(Callers)
    BY <1>1, SetsAssumption, FS_Subset
<1>3. IsFiniteSet(pending \cap SameBody(t))
    BY FS_Intersection
<1> QED
    BY <1>2, <1>3, SetsAssumption, LimitsAssumption, FS_CardinalityType

\* A step that adds no pending tile and lets no caller in.
LEMMA CapKept ==
    ASSUME CapBudget, pending' \subseteq pending,
           \A c \in Callers : cpc'[c] \in {"admit", "staged", "insert"} =>
              cpc[c] \in {"admit", "staged", "insert"} /\ ctile'[c] = ctile[c]
    PROVE  CapBudget'
<1>1. IsFiniteSet(pending')
    BY FS_Subset DEF CapBudget
<1>2. ASSUME NEW t \in CappedTiles
      PROVE  Cardinality(pending' \cap SameBody(t)) + Cardinality(Admitted(t)')
                <= BodyCap + Cardinality(Callers) - 1
    <2> DEFINE P == pending \cap SameBody(t)
               Q == pending' \cap SameBody(t)
               A == Admitted(t)
               B == Admitted(t)'
    <2>1. Q \in SUBSET P /\ B \in SUBSET A
        BY DEF Admitted
    <2>2. /\ IsFiniteSet(P) /\ IsFiniteSet(A) /\ Cardinality(P) \in Nat /\ Cardinality(A) \in Nat
          /\ Cardinality(Callers) \in Nat /\ BodyCap \in Nat
          /\ Cardinality(P) + Cardinality(A) <= BodyCap + Cardinality(Callers) - 1
        BY CapCounts DEF CapBudget
    <2> HIDE DEF P, Q, A, B
    <2>3. /\ Cardinality(Q) <= Cardinality(P) /\ Cardinality(B) <= Cardinality(A)
          /\ Cardinality(Q) \in Nat /\ Cardinality(B) \in Nat
        BY <2>1, <2>2, FS_Subset, FS_CardinalityType
    <2>4. Cardinality(Q) + Cardinality(B) <= BodyCap + Cardinality(Callers) - 1
        BY <2>2, <2>3
    <2> QED
        BY <2>4 DEF Q, B
<1> QED
    BY <1>1, <1>2 DEF CapBudget, SameBody

\* A caller that may insert does: the tile takes its place in the sum.
LEMMA CapUsed ==
    ASSUME IInv, CapBudget, NEW c \in Callers, cpc[c] = "insert", ctile[c] \notin pending,
           pending' = pending \cup {ctile[c]}, cpc'[c] \in {"idle", "scan"},
           \A d \in Callers \ {c} : cpc'[d] = cpc[d] /\ ctile'[d] = ctile[d]
    PROVE  CapBudget'
<1> DEFINE u == ctile[c]
<1>1. IsFiniteSet(pending')
    BY FS_AddElement DEF CapBudget
<1>2. ASSUME NEW t \in CappedTiles
      PROVE  Cardinality(pending' \cap SameBody(t)) + Cardinality(Admitted(t)')
                <= BodyCap + Cardinality(Callers) - 1
    <2> DEFINE P == pending \cap SameBody(t)
               Q == pending' \cap SameBody(t)
               A == Admitted(t)
               B == Admitted(t)'
    <2>1. /\ IsFiniteSet(P) /\ IsFiniteSet(A) /\ Cardinality(P) \in Nat /\ Cardinality(A) \in Nat
          /\ Cardinality(Callers) \in Nat /\ BodyCap \in Nat
          /\ Cardinality(P) + Cardinality(A) <= BodyCap + Cardinality(Callers) - 1
        BY CapCounts DEF CapBudget
    <2>2. CASE u \in SameBody(t)
        <3>1. Q = P \cup {u} /\ u \notin P
            BY <2>2
        <3>2. B = A \ {c} /\ c \in A
            BY <2>2 DEF Admitted
        <3> HIDE DEF P, Q, A, B, u
        <3>3. Cardinality(Q) = Cardinality(P) + 1 /\ Cardinality(B) = Cardinality(A) - 1
            BY <2>1, <3>1, <3>2, FS_AddElement, FS_RemoveElement
        <3>4. Cardinality(Q) + Cardinality(B) <= BodyCap + Cardinality(Callers) - 1
            BY <2>1, <3>3
        <3> QED
            BY <3>4 DEF Q, B
    <2>3. CASE u \notin SameBody(t)
        <3>1. Q = P /\ B = A
            BY <2>3 DEF Admitted
        <3> QED
            BY <2>1, <3>1
    <2> QED
        BY <2>2, <2>3
<1> QED
    BY <1>1, <1>2 DEF CapBudget, SameBody

\* A caller is let in while there is room, whatever the others may still insert.
LEMMA CapChecked ==
    ASSUME IInv, CapBudget, NEW c \in Callers, MayBuild(ctile[c]), ctile[c] \in Tiles,
           UNCHANGED <<pending, ctile>>, \A d \in Callers \ {c} : cpc'[d] = cpc[d]
    PROVE  CapBudget'
<1> DEFINE u == ctile[c]
<1>1. ASSUME NEW t \in CappedTiles
      PROVE  Cardinality(pending \cap SameBody(t)) + Cardinality(Admitted(t)')
                <= BodyCap + Cardinality(Callers) - 1
    <2> DEFINE P == pending \cap SameBody(t)
               A == Admitted(t)
               B == Admitted(t)'
    <2>1. /\ IsFiniteSet(P) /\ IsFiniteSet(A) /\ Cardinality(P) \in Nat /\ Cardinality(A) \in Nat
          /\ Cardinality(Callers) \in Nat /\ BodyCap \in Nat
          /\ Cardinality(P) + Cardinality(A) <= BodyCap + Cardinality(Callers) - 1
        BY CapCounts DEF CapBudget
    <2>2. CASE u \in SameBody(t)
        <3>1. u \in CappedTiles /\ SameBody(u) = SameBody(t)
            BY <1>1, <2>2, DisjointAssumption DEF SameBody, Body, CappedTiles
        <3>2. Cardinality(P) < BodyCap
            BY <3>1 DEF MayBuild
        <3>3. B \in SUBSET Callers
            BY DEF Admitted
        <3> HIDE DEF P, A, B, u
        <3>4. Cardinality(B) <= Cardinality(Callers) /\ Cardinality(B) \in Nat
            BY <3>3, SetsAssumption, FS_Subset, FS_CardinalityType
        <3>5. Cardinality(P) + Cardinality(B) <= BodyCap + Cardinality(Callers) - 1
            BY <2>1, <3>2, <3>4
        <3> QED
            BY <3>5 DEF P, B
    <2>3. CASE u \notin SameBody(t)
        <3>1. B = A
            BY <2>3 DEF Admitted
        <3> QED
            BY <2>1, <3>1
    <2> QED
        BY <2>2, <2>3
<1> QED
    BY <1>1 DEF CapBudget, SameBody

\* Every step keeps the budget: admission needs room, insertion uses the admission.
LEMMA CapStep ==
    ASSUME IInv, CapBudget, [Next]_vars
    PROVE  CapBudget'
<1>0. /\ cpc \in [Callers -> CallerPcs] /\ ctile \in [Callers -> Tiles \cup {NoTile}]
    BY DEF IInv, ProtocolTypeOK
<1>1. ASSUME NEW c \in Callers, CallerStep(c) \/ QueryFails(c) \/ SpawnPanics(c)
      PROVE  CapBudget'
    <2>1. CASE CheckPending(c)
        <3>1. CASE MayBuild(ctile[c])
            <4>1. /\ cpc' = [cpc EXCEPT ![c] = "admit"] /\ UNCHANGED <<pending, ctile>>
                  /\ ctile[c] \in Tiles
                BY <2>1, <3>1 DEF CheckPending, shared, IInv, CallerShape
            <4> QED
                BY <1>0, <3>1, <4>1, CapChecked
        <3>2. CASE ~MayBuild(ctile[c])
            BY <1>0, <2>1, <3>2, CapKept DEF CheckPending, EndTile, shared
        <3> QED
            BY <3>1, <3>2
    <2>2. CASE SpawnPanics(c) \/ \E w \in Workers : InsertAndSpawn(c, w)
        BY <1>0, <2>2, CapUsed DEF SpawnPanics, InsertAndSpawn, EndTile
    <2>3. CASE \E t \in Tiles : SkipTile(c, t) \/ PassGate(c, t)
        BY <1>0, <2>3, CapKept DEF SkipTile, PassGate, shared
    <2>4. CASE Begin(c) \/ Query(c) \/ QueryFails(c) \/ EndScan(c)
        BY <1>0, <2>4, CapKept DEF Begin, Query, QueryFails, EndScan, shared
    <2>5. CASE AdmitLocal(c) \/ AdmitStaging(c) \/ AdmitDownload(c) \/ InsertLost(c)
        <3>1. /\ pending' = pending
              /\ \/ cpc' = [cpc EXCEPT ![c] = "insert"] /\ ctile' = ctile
                 \/ cpc' = [cpc EXCEPT ![c] = "staged"] /\ ctile' = ctile
                 \/ cpc' = [cpc EXCEPT ![c] = "scan"] /\ ctile' = [ctile EXCEPT ![c] = NoTile]
            BY <2>5 DEF AdmitLocal, AdmitStaging, AdmitDownload, InsertLost, EndTile, shared
        <3>2. \/ cpc[c] \in {"admit", "staged", "insert"}
              \/ cpc'[c] = "scan"
            BY <2>5 DEF AdmitLocal, AdmitStaging, AdmitDownload, InsertLost
        <3>3. \A d \in Callers : cpc'[d] \in {"admit", "staged", "insert"} =>
                 cpc[d] \in {"admit", "staged", "insert"} /\ ctile'[d] = ctile[d]
            BY <1>0, <3>1, <3>2
        <3> QED
            BY <3>1, <3>3, CapKept
    <2> QED
        BY <1>1, <2>1, <2>2, <2>3, <2>4, <2>5 DEF CallerStep
<1>2. ASSUME NEW w \in Workers, WorkerStep(w) \/ WorkerPanics(w)
      PROVE  CapBudget'
    <2>1. UNCHANGED <<cpc, ctile>>
        BY <1>2, WorkerFrame DEF callerVars
    <2>2. pending' \subseteq pending
        BY <1>2 DEF WorkerStep, WorkerPanics, StartBuild, MarkEmpty, SourceReady, DownloadDone,
           NoCoverage, AnnounceDownload, AcquireProcessing, DropStaged, AnnounceDequeue,
           Commit, ReturnBuilt, AnnounceBuilt, ClearFailure, ReturnFailed, RecordFailure,
           LeavePending, ReleasePermit, shared
    <2> QED
        BY <2>1, <2>2, CapKept
<1>3. ASSUME Cooldown \/ ResetBackoffs \/ Shutdown \/ UNCHANGED vars
      PROVE  CapBudget'
    <2>1. UNCHANGED <<pending, cpc, ctile>>
        BY <1>3, EnvironmentFrame DEF callerVars, vars, shared
    <2> QED
        BY <2>1, CapKept
<1> QED
    BY <1>1, <1>2, <1>3 DEF Next, Disturbance

\* The cap on Moon and Mars builds is passed by at most one build for every caller
\* but one, however many callers check it before the first of them inserts
\* (builders.rs: MAX_CONCURRENT_LUNAR_BUILDS).
THEOREM CapHoldsNearly == Spec => []CapNearlyHolds
<1>1. ASSUME Init
      PROVE  CapBudget
    <2>1. pending = {} /\ \A t : Admitted(t) = {} /\ pending \cap SameBody(t) = {}
        BY <1>1 DEF Init, Admitted
    <2>2. IsFiniteSet({}) /\ Cardinality({}) = 0 /\ Cardinality(Callers) \in Nat
        BY FS_EmptySet, FS_CardinalityType, SetsAssumption
    <2>3. 0 <= BodyCap + Cardinality(Callers) - 1
        BY <2>2, LimitsAssumption, ProgressAssumption
    <2>4. IsFiniteSet(pending)
        BY <2>1, <2>2
    <2>5. ASSUME NEW t \in CappedTiles
          PROVE  Cardinality(pending \cap SameBody(t)) + Cardinality(Admitted(t))
                    <= BodyCap + Cardinality(Callers) - 1
        <3>1. Cardinality(pending \cap SameBody(t)) = 0 /\ Cardinality(Admitted(t)) = 0
            BY <2>1, <2>2
        <3> QED
            BY <2>3, <3>1
    <2> QED
        BY <2>4, <2>5 DEF CapBudget
<1>2. CapBudget => CapNearlyHolds
    <2> SUFFICES ASSUME CapBudget, NEW t \in CappedTiles
                 PROVE  Cardinality(pending \cap SameBody(t)) <= BodyCap + Cardinality(Callers) - 1
        BY DEF CapNearlyHolds
    <2> DEFINE p == Cardinality(pending \cap SameBody(t))
               a == Cardinality(Admitted(t))
    <2>1. /\ p \in Nat /\ a \in Nat /\ Cardinality(Callers) \in Nat /\ BodyCap \in Nat
          /\ p + a <= BodyCap + Cardinality(Callers) - 1
        BY CapCounts DEF CapBudget
    <2> HIDE DEF p, a
    <2>2. p <= BodyCap + Cardinality(Callers) - 1
        BY <2>1
    <2> QED
        BY <2>2 DEF p
<1> QED
    BY <1>1, <1>2, Inductive, CapStep, PTL DEF Spec

=============================================================================
