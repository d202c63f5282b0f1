---------------------------- MODULE GdalJobsProofs ----------------------------
(***************************************************************************)
(* The safety of the GDAL processes and of the lunar and GEBCO builds that *)
(* run them, for any number of threads, chunks and faults, exit included.  *)
(***************************************************************************)
EXTENDS GdalJobs, FiniteSetTheorems, TLAPS

ProcessInv == ProcessTypeOK /\ ProcessShape /\ CommandsSucceed(LunarThreads)
LunarInv == LunarTypeOK /\ LunarCommands /\ ClaimsAreExclusive /\ UndisturbedShape
GebcoInv == GebcoTypeOK /\ GebcoCommands /\ (OneLayer => OneBuild)

-----------------------------------------------------------------------------
(* The processes.                                                          *)

\* What a step of a client does to the processes: it begins or ends a command, or
\* something of its own goes wrong.
ClientStep ==
    /\ UnchangedProcesses
    /\ \/ cmd' = cmd
       \/ \E t \in Threads : cmd[t] \in {"idle", "ok", "failed"} /\ (Call(t) \/ Return(t))
    /\ faults' = faults \/ Fault

\* No step takes back that something went wrong or that exit was requested.
NothingUndone == (faults' = 0 => faults = 0) /\ (shutdown => shutdown')

\* Nobody else begins a command of a thread or revives one that panicked.
Untouched(threads) ==
    \A t \in threads : cmd[t] \in {"idle", "panicked"} => cmd'[t] = cmd[t]

\* Faults only add up.
LEMMA FaultCounts ==
    ASSUME faults \in 0..FaultBudget, Fault
    PROVE  faults' \in 0..FaultBudget /\ faults' # 0
BY BudgetAssumption DEF Fault

\* A client cannot bring registry, commands and processes apart.
LEMMA ClientKeeps ==
    ASSUME ProcessInv, ClientStep
    PROVE  ProcessInv' /\ NothingUndone
<1> USE LunarAssumption DEF ProcessInv, ProcessTypeOK, ProcessShape, CommandsSucceed, UnchangedProcesses
<1>1. faults' \in 0..FaultBudget /\ (faults' = 0 => faults = 0)
    BY FaultCounts DEF ClientStep
<1>2. CASE cmd' = cmd
    BY <1>1, <1>2 DEF ClientStep, NothingUndone
<1>3. ASSUME NEW t \in Threads, cmd[t] \in {"idle", "ok", "failed"}, Call(t) \/ Return(t)
      PROVE  ProcessInv' /\ NothingUndone
    <2>1. cmd' \in [Threads -> CmdStates]
        BY <1>3 DEF Call, Return, CmdStates
    <2>2. cmd'[t] \in {"start", "idle"} /\ \A u \in Threads \ {t} : cmd'[u] = cmd[u]
        BY <1>3 DEF Call, Return
    <2> QED
        BY <1>1, <1>3, <2>1, <2>2 DEF ClientStep, NothingUndone
<1> QED
    BY <1>2, <1>3 DEF ClientStep

\* Neither can a thread inside run.
LEMMA RunKeeps ==
    ASSUME ProcessInv, NEW t \in Threads, RunStep(t)
    PROVE  ProcessInv' /\ NothingUndone /\ Untouched(Threads)
<1> USE LunarAssumption DEF ProcessInv, ProcessTypeOK, ProcessShape, CommandsSucceed, NothingUndone, Untouched, CmdStates, ChildStates
<1>1. CASE CheckShutdown(t)
    BY <1>1 DEF CheckShutdown
<1>2. CASE Spawn(t)
    BY <1>2, FaultCounts DEF Spawn
<1>3. CASE Register(t)
    BY <1>3, FaultCounts DEF Register
<1>4. CASE Watch(t)
    BY <1>4 DEF Watch
<1>5. CASE Unregister(t)
    BY <1>5 DEF Unregister
<1> QED
    BY <1>1, <1>2, <1>3, <1>4, <1>5 DEF RunStep

\* A process that ends or breaks by itself.  As long as nothing goes wrong there is no
\* torn chunk to fail over.
LEMMA ChildKeeps ==
    ASSUME ProcessInv, LunarInv, NEW t \in Threads,
           ProcessEnds(t) \/ ProcessBreaks(t)
    PROVE  ProcessInv' /\ NothingUndone /\ Untouched(Threads)
<1> USE LunarAssumption, GebcoAssumption
    DEF ProcessInv, ProcessTypeOK, ProcessShape, CommandsSucceed, NothingUndone, Untouched, ChildStates
<1>1. CASE ProcessEnds(t) /\ ~InputTorn(t)
    BY <1>1 DEF ProcessEnds, ChildEnds
<1>2. CASE ProcessEnds(t) /\ InputTorn(t)
    <2>1. t \in LunarThreads => faults # 0 \/ shutdown
        BY <1>2, ThreadsAssumption DEF InputTorn, CropFails, LunarInv, UndisturbedShape
    <2> QED
        BY <1>2, <2>1 DEF ProcessEnds, ChildRejects
<1>3. CASE ProcessBreaks(t)
    BY <1>3, FaultCounts DEF ProcessBreaks, ChildBreaks
<1> QED
    BY <1>1, <1>2, <1>3

\* Exit signals processes and ends no command.
LEMMA ExitKeeps ==
    ASSUME ProcessInv, RequestExit \/ TerminateActiveGdalJobs \/ ProgramEnds
    PROVE  ProcessInv' /\ NothingUndone /\ Untouched(Threads)
<1> USE DEF ProcessInv, ProcessTypeOK, ProcessShape, CommandsSucceed, NothingUndone, Untouched, ExitStates
<1>1. CASE RequestExit
    BY <1>1 DEF RequestExit
<1>2. CASE CollectChildren
    BY <1>2 DEF CollectChildren
<1>3. ASSUME NEW victims \in SUBSET Threads, Killed(victims)
      PROVE  /\ child' \in [Threads -> ChildStates]
             /\ \A t \in Threads : child'[t] = "none" <=> child[t] = "none"
    BY <1>3 DEF Killed, Alive, ChildStates
<1>4. CASE SignalTerm
    BY <1>3, <1>4 DEF SignalTerm
<1>5. CASE SignalKill
    BY <1>3, <1>5 DEF SignalKill
<1>6. CASE ProgramEnds
    BY <1>6 DEF ProgramEnds
<1> QED
    BY <1>1, <1>2, <1>4, <1>5, <1>6 DEF TerminateActiveGdalJobs

-----------------------------------------------------------------------------
(* The lunar builds.                                                       *)

\* Lunar builds use the processes as clients do.
LEMMA LunarIsClient ==
    ASSUME ProcessTypeOK, LunarTypeOK, LunarCommands, NEW t \in LunarThreads, LunarStep(t)
    PROVE  ClientStep /\ Untouched(GebcoThreads)
<1>t. t \in Threads /\ t \notin GebcoThreads /\ cmd \in [Threads -> CmdStates] /\ GebcoThreads \subseteq Threads
    BY LunarAssumption, ThreadsAssumption, GebcoAssumption DEF ProcessTypeOK
<1> USE <1>t DEF ClientStep, Untouched, UnchangedProcesses, LunarCommands, processVars
<1>1. CASE ClaimChunk(t)
    BY <1>1 DEF ClaimChunk, Call
<1>2. CASE Extracted(t)
    BY <1>2 DEF Extracted, Return
<1>3. CASE CropTile(t)
    BY <1>3 DEF CropTile, Call
<1>4. CASE TileBuilt(t)
    BY <1>4 DEF TileBuilt, Return
<1>5. CASE PersistTempFile(t) \/ CopyEnds(t) \/ WaitTimesOut(t)
    BY <1>5 DEF PersistTempFile, CopyEnds, WaitTimesOut
<1>6. CASE \/ BuildLunarContourTile(t) \/ EnsureLunarSourceChunk(t) \/ ReleaseChunk(t)
           \/ WaitForFile(t) \/ WaitForOwner(t) \/ LastLook(t) \/ LunarUnwinds(t)
    BY <1>6 DEF BuildLunarContourTile, EnsureLunarSourceChunk, ReleaseChunk, WaitForFile,
                WaitForOwner, LastLook, LunarUnwinds
<1> QED
    BY <1>1, <1>2, <1>3, <1>4, <1>5, <1>6 DEF LunarStep

\* Steps of others leave what the lunar builds rely on.
LEMMA LunarKept ==
    ASSUME LunarInv, UNCHANGED lunarVars, NothingUndone, Untouched(LunarThreads)
    PROVE  LunarInv'
<1> USE DEF LunarInv, lunarVars
<1>1. LunarTypeOK' /\ ClaimsAreExclusive'
    BY DEF LunarTypeOK, ClaimsAreExclusive, Claims
<1>2. LunarCommands'
    BY DEF LunarCommands, Untouched
<1>3. UndisturbedShape'
    BY DEF UndisturbedShape, NothingUndone
<1> QED
    BY <1>1, <1>2, <1>3

\* A lunar step moves one thread, and at most the file and the mark of its chunk.
LEMMA LunarTypes ==
    ASSUME LunarTypeOK, NEW t \in LunarThreads, LunarStep(t)
    PROVE  /\ LunarTypeOK' /\ ChunkOf[t] \in Chunks
           /\ \A u \in LunarThreads \ {t} : lpc'[u] = lpc[u]
           /\ \A c \in Chunks \ {ChunkOf[t]} :
                  file'[c] = file[c] /\ (c \in pending' <=> c \in pending)
<1> USE LunarAssumption DEF LunarTypeOK, LunarPcs, OwningPcs, Goto, SetFile
<1>1. CASE BuildLunarContourTile(t) \/ EnsureLunarSourceChunk(t) \/ Extracted(t)
    BY <1>1 DEF BuildLunarContourTile, EnsureLunarSourceChunk, Extracted
<1>4. CASE ClaimChunk(t)
    <2>1. \E pc \in {"extract", "wait"} : lpc' = [lpc EXCEPT ![t] = pc]
        BY <1>4 DEF ClaimChunk
    <2>2. /\ ChunkOf[t] \in Chunks /\ file' = file
          /\ pending' = pending \/ pending' = pending \cup {ChunkOf[t]}
        BY <1>4 DEF ClaimChunk
    <2> QED
        BY <2>1, <2>2
<1>2. CASE PersistTempFile(t) \/ CopyEnds(t) \/ ReleaseChunk(t)
    BY <1>2 DEF PersistTempFile, CopyEnds, ReleaseChunk
<1>3. CASE \/ WaitForFile(t) \/ WaitForOwner(t) \/ WaitTimesOut(t) \/ LastLook(t)
           \/ CropTile(t) \/ TileBuilt(t) \/ LunarUnwinds(t)
    BY <1>3 DEF WaitForFile, WaitForOwner, WaitTimesOut, LastLook, CropTile, TileBuilt, LunarUnwinds
<1> QED
    BY <1>1, <1>2, <1>3, <1>4 DEF LunarStep

\* A thread has a command exactly where it waits for one.
LEMMA LunarCommandsStep ==
    ASSUME ProcessTypeOK, LunarTypeOK, LunarCommands, NEW t \in LunarThreads, LunarStep(t)
    PROVE  LunarCommands'
<1>t. /\ t \in Threads /\ cmd \in [Threads -> CmdStates] /\ LunarThreads \subseteq Threads
      /\ lpc \in [LunarThreads -> LunarPcs]
    BY LunarAssumption DEF ProcessTypeOK, LunarTypeOK
<1> USE <1>t DEF LunarCommands, Goto, UnchangedProcesses, processVars
<1>1. CASE ClaimChunk(t)
    BY <1>1 DEF ClaimChunk, Call
<1>2. CASE Extracted(t)
    BY <1>2 DEF Extracted, Return
<1>3. CASE CropTile(t)
    BY <1>3 DEF CropTile, Call
<1>4. CASE TileBuilt(t)
    BY <1>4 DEF TileBuilt, Return
<1>5. CASE LunarUnwinds(t)
    BY <1>5 DEF LunarUnwinds
<1>6. CASE PersistTempFile(t) \/ CopyEnds(t) \/ ReleaseChunk(t)
    BY <1>6 DEF PersistTempFile, CopyEnds, ReleaseChunk
<1>7. CASE \/ BuildLunarContourTile(t) \/ EnsureLunarSourceChunk(t) \/ WaitForFile(t)
           \/ WaitForOwner(t) \/ WaitTimesOut(t) \/ LastLook(t)
    BY <1>7 DEF BuildLunarContourTile, EnsureLunarSourceChunk, WaitForFile, WaitForOwner,
                WaitTimesOut, LastLook
<1> QED
    BY <1>1, <1>2, <1>3, <1>4, <1>5, <1>6, <1>7 DEF LunarStep

\* Whoever inserts a chunk owns it until it removes it again.
LEMMA ClaimsStep ==
    ASSUME LunarTypeOK, ClaimsAreExclusive, NEW t \in LunarThreads, LunarStep(t)
    PROVE  ClaimsAreExclusive'
<1>t. /\ lpc \in [LunarThreads -> LunarPcs] /\ ChunkOf \in [LunarThreads -> Chunks]
      /\ \A u \in LunarThreads \ {t} : Claims(u)' <=> Claims(u)
    BY LunarAssumption, LunarTypes DEF LunarTypeOK, Claims
<1>1. ASSUME Claims(t)' <=> Claims(t), pending' = pending PROVE ClaimsAreExclusive'
    BY <1>t, <1>1 DEF ClaimsAreExclusive
<1>2. CASE ClaimChunk(t)
    <2>1. CASE ChunkOf[t] \notin pending
        <3>1. ~Claims(t) /\ Claims(t)' /\ pending' = pending \cup {ChunkOf[t]}
            BY <1>t, <1>2, <2>1 DEF ClaimChunk, Goto, Claims, OwningPcs
        <3> QED
            BY <1>t, <2>1, <3>1 DEF ClaimsAreExclusive
    <2>2. CASE ChunkOf[t] \in pending
        <3>1. ~Claims(t) /\ ~Claims(t)' /\ pending' = pending
            BY <1>t, <1>2, <2>2 DEF ClaimChunk, Goto, Claims, OwningPcs
        <3> QED
            BY <1>1, <3>1
    <2> QED
        BY <2>1, <2>2
<1>3. CASE ReleaseChunk(t)
    <2>1. Claims(t) /\ ~Claims(t)' /\ pending' = pending \ {ChunkOf[t]}
        BY <1>t, <1>3 DEF ReleaseChunk, Goto, Claims, OwningPcs
    <2> QED
        BY <1>t, <2>1 DEF ClaimsAreExclusive
<1>4. CASE \/ Extracted(t) \/ PersistTempFile(t) \/ CopyEnds(t) \/ LunarUnwinds(t)
    <2>1. Claims(t)' <=> Claims(t)
        BY <1>t, <1>4 DEF Extracted, PersistTempFile, CopyEnds, LunarUnwinds, Goto, Claims, OwningPcs
    <2>2. pending' = pending
        BY <1>4 DEF Extracted, PersistTempFile, CopyEnds, LunarUnwinds
    <2> QED
        BY <1>1, <2>1, <2>2
<1>5. CASE \/ BuildLunarContourTile(t) \/ EnsureLunarSourceChunk(t) \/ WaitForFile(t)
           \/ WaitForOwner(t) \/ WaitTimesOut(t) \/ LastLook(t) \/ CropTile(t) \/ TileBuilt(t)
    <2>1. ~Claims(t) /\ ~Claims(t)'
        BY <1>t, <1>5 DEF BuildLunarContourTile, EnsureLunarSourceChunk, WaitForFile, WaitForOwner,
                          WaitTimesOut, LastLook, CropTile, TileBuilt, Goto, Claims, OwningPcs
    <2>2. pending' = pending
        BY <1>5 DEF BuildLunarContourTile, EnsureLunarSourceChunk, WaitForFile, WaitForOwner,
                    WaitTimesOut, LastLook, CropTile, TileBuilt
    <2> QED
        BY <1>1, <2>1, <2>2
<1> QED
    BY <1>2, <1>3, <1>4, <1>5 DEF LunarStep

\* If nothing has gone wrong, a step of an owner completes the chunk before it lets
\* go, and a waiter finds what it waited for.
LEMMA UndisturbedStep ==
    ASSUME ProcessInv, LunarInv, NEW t \in LunarThreads, LunarStep(t)
    PROVE  UndisturbedShape'
<1> SUFFICES ASSUME faults' = 0, ~shutdown'
             PROVE  UndisturbedShape'
    BY DEF UndisturbedShape
<1>1. ClientStep /\ NothingUndone
    BY LunarIsClient, ClientKeeps DEF ProcessInv, LunarInv
<1>2. faults = 0 /\ ~shutdown /\ ~Fault
    BY <1>1, FaultCounts DEF NothingUndone, ProcessInv, ProcessTypeOK
<1>3. cmd[t] \notin {"reaped failed", "failed", "panicked"}
    BY <1>2, LunarAssumption DEF ProcessInv, CommandsSucceed
<1>4. /\ lpc \in [LunarThreads -> LunarPcs] /\ ChunkOf \in [LunarThreads -> Chunks]
      /\ file \in [Chunks -> {"absent", "part", "whole"}] /\ UndisturbedShape
    BY LunarAssumption DEF LunarInv, LunarTypeOK
<1>5. \A u \in LunarThreads \ {t} : lpc'[u] = lpc[u]
    BY LunarTypes DEF LunarInv
<1> USE <1>2, <1>3, <1>4, <1>5 DEF UndisturbedShape, Goto, SetFile, Exists
<1>6. CASE BuildLunarContourTile(t) \/ EnsureLunarSourceChunk(t)
    BY <1>6 DEF BuildLunarContourTile, EnsureLunarSourceChunk
<1>7. CASE ClaimChunk(t)
    BY <1>7 DEF ClaimChunk
<1>8. CASE Extracted(t) \/ LunarUnwinds(t)
    BY <1>8 DEF Extracted, LunarUnwinds
<1>9. CASE PersistTempFile(t) \/ CopyEnds(t)
    BY <1>9 DEF PersistTempFile, CopyEnds
<1>10. CASE ReleaseChunk(t)
    BY <1>10 DEF ReleaseChunk
<1>11. CASE WaitForFile(t) \/ WaitForOwner(t) \/ LastLook(t)
    BY <1>11 DEF WaitForFile, WaitForOwner, LastLook
<1>12. CASE WaitTimesOut(t)
    <2>1. ChunkOf[t] \in pending
        BY <1>12 DEF WaitTimesOut
    <2>2. PICK u \in LunarThreads : Claims(u) /\ ChunkOf[u] = ChunkOf[t]
        BY <2>1 DEF LunarInv, ClaimsAreExclusive
    <2>3. u \in Owners(ChunkOf[t])
        BY <2>2 DEF Claims, Owners
    <2> QED
        BY <1>12, <2>3 DEF WaitTimesOut
<1>13. CASE CropTile(t) \/ TileBuilt(t)
    BY <1>13 DEF CropTile, TileBuilt
<1> QED
    BY <1>6, <1>7, <1>8, <1>9, <1>10, <1>11, <1>12, <1>13 DEF LunarStep

\* What the pending set says of the extractors, by number.
LEMMA OneExtractorEach ==
    ASSUME ClaimsAreExclusive
    PROVE  OneExtractor
<1> SUFFICES ASSUME NEW c \in Chunks
             PROVE  Cardinality(Owners(c) \cup
                        {t \in LunarThreads : ChunkOf[t] = c /\ lpc[t] = "died owning"})
                      = (IF c \in pending THEN 1 ELSE 0)
    BY DEF OneExtractor
<1> DEFINE claimants == {t \in LunarThreads : ChunkOf[t] = c /\ Claims(t)}
<1>1. Owners(c) \cup {t \in LunarThreads : ChunkOf[t] = c /\ lpc[t] = "died owning"} = claimants
    BY DEF Owners, Claims
<1>2. CASE c \in pending
    <2>1. PICK t \in LunarThreads : Claims(t) /\ ChunkOf[t] = c
        BY <1>2 DEF ClaimsAreExclusive
    <2>2. claimants = {t}
        BY <2>1 DEF ClaimsAreExclusive
    <2> QED
        BY <1>1, <1>2, <2>2, FS_Singleton
<1>3. CASE c \notin pending
    <2>1. claimants = {}
        BY <1>3 DEF ClaimsAreExclusive
    <2> QED
        BY <1>1, <1>3, <2>1, FS_EmptySet
<1> QED
    BY <1>2, <1>3

-----------------------------------------------------------------------------
(* The GEBCO build.                                                        *)

\* GEBCO builds use the processes as clients do.
LEMMA GebcoIsClient ==
    ASSUME ProcessTypeOK, GebcoTypeOK, GebcoCommands, NEW g \in GebcoThreads, GebcoStep(g)
    PROVE  ClientStep /\ Untouched(LunarThreads)
<1>t. g \in Threads /\ g \notin LunarThreads /\ cmd \in [Threads -> CmdStates] /\ LunarThreads \subseteq Threads
    BY LunarAssumption, ThreadsAssumption, GebcoAssumption DEF ProcessTypeOK
<1> USE <1>t DEF ClientStep, Untouched, UnchangedProcesses, GebcoCommands, processVars
<1>1. CASE BeginAsset(g)
    BY <1>1 DEF BeginAsset, Call
<1>2. CASE MosaicMade(g)
    BY <1>2 DEF MosaicMade, Call, Return
<1>3. CASE AssetWritten(g)
    BY <1>3 DEF AssetWritten, Return
<1>4. CASE PlaceAsset(g) \/ AssetCopied(g)
    BY <1>4 DEF PlaceAsset, AssetCopied
<1>5. CASE BuildGebcoDerived(g) \/ KeepAsset(g) \/ ClearFlag(g) \/ GebcoUnwinds(g)
    BY <1>5 DEF BuildGebcoDerived, KeepAsset, ClearFlag, GebcoUnwinds
<1> QED
    BY <1>1, <1>2, <1>3, <1>4, <1>5 DEF GebcoStep

\* Steps of others leave what the GEBCO builds rely on.
LEMMA GebcoKept ==
    ASSUME GebcoInv, UNCHANGED gebcoVars, NothingUndone, Untouched(GebcoThreads)
    PROVE  GebcoInv'
<1> USE DEF GebcoInv, gebcoVars
<1>1. GebcoTypeOK'
    BY DEF GebcoTypeOK
<1>2. GebcoCommands'
    BY DEF GebcoCommands, Untouched
<1>3. OneBuild => OneBuild'
    BY DEF OneBuild, Active, NothingUndone
<1> QED
    BY <1>1, <1>2, <1>3 DEF OneLayer

\* The types, of a layer's step and of a build's.
LEMMA LayerTypes ==
    ASSUME GebcoTypeOK, NEW l \in Layers, LayerStep(l)
    PROVE  GebcoTypeOK'
BY DEF GebcoTypeOK, LayerStep, EnsureGebcoDerived, StartBuild, To, GebcoPcs

\* A step of a GEBCO thread keeps the types and leaves other threads alone.
LEMMA GebcoTypes ==
    ASSUME GebcoTypeOK, NEW g \in GebcoThreads, GebcoStep(g)
    PROVE  GebcoTypeOK' /\ \A h \in GebcoThreads \ {g} : gpc'[h] = gpc[h] /\ stage'[h] = stage[h]
<1> USE DEF GebcoTypeOK, GebcoPcs, Assets, Preview, DepthBil, ContoursGpkg, To, Put, Temp, Present
<1>1. CASE BuildGebcoDerived(g) \/ ClearFlag(g) \/ GebcoUnwinds(g)
    BY <1>1 DEF BuildGebcoDerived, ClearFlag, GebcoUnwinds
<1>2. NextAsset(g) =>
          /\ gpc' \in [GebcoThreads -> GebcoPcs] /\ stage' \in [GebcoThreads -> Assets]
          /\ \A h \in GebcoThreads \ {g} : gpc'[h] = gpc[h] /\ stage'[h] = stage[h]
    BY DEF NextAsset
<1>3. CASE KeepAsset(g)
    BY <1>2, <1>3 DEF KeepAsset
<1>4. CASE BeginAsset(g) \/ MosaicMade(g)
    BY <1>4 DEF BeginAsset, MosaicMade
<1>5. CASE AssetWritten(g)
    BY <1>5 DEF AssetWritten, Finished
<1>6. CASE PlaceAsset(g)
    BY <1>2, <1>6 DEF PlaceAsset
<1>7. CASE AssetCopied(g)
    BY <1>2, <1>7 DEF AssetCopied
<1> QED
    BY <1>1, <1>3, <1>4, <1>5, <1>6, <1>7 DEF GebcoStep

\* A build thread has a command exactly where it waits for one.
LEMMA GebcoCommandsStep ==
    ASSUME ProcessTypeOK, GebcoTypeOK, GebcoCommands, NEW g \in GebcoThreads, GebcoStep(g)
    PROVE  GebcoCommands'
<1>t. /\ g \in Threads /\ cmd \in [Threads -> CmdStates] /\ GebcoThreads \subseteq Threads
      /\ gpc \in [GebcoThreads -> GebcoPcs]
      /\ \A h \in GebcoThreads \ {g} : gpc'[h] = gpc[h]
    BY GebcoTypes, GebcoAssumption DEF ProcessTypeOK, GebcoTypeOK
<1> USE <1>t DEF GebcoCommands, To, UnchangedProcesses, processVars
<1>1. CASE BeginAsset(g)
    BY <1>1 DEF BeginAsset, Call
<1>2. CASE MosaicMade(g)
    BY <1>2 DEF MosaicMade, Call, Return
<1>3. CASE AssetWritten(g)
    BY <1>3 DEF AssetWritten, Return
<1>4. CASE GebcoUnwinds(g)
    BY <1>4 DEF GebcoUnwinds
<1>5. CASE BuildGebcoDerived(g) \/ KeepAsset(g) \/ PlaceAsset(g) \/ AssetCopied(g) \/ ClearFlag(g)
    <2>1. gpc[g] \notin {"mosaic", "write", "died"} /\ cmd' = cmd
        BY <1>5 DEF BuildGebcoDerived, KeepAsset, PlaceAsset, AssetCopied, ClearFlag
    <2> QED
        BY <2>1
<1> QED
    BY <1>1, <1>2, <1>3, <1>4, <1>5 DEF GebcoStep

\* A layer that is alone raises the flag it has found clear.
LEMMA OneBuildLayer ==
    ASSUME GebcoTypeOK, OneLayer, OneBuild, NEW l \in Layers, LayerStep(l)
    PROVE  OneBuild'
<1> USE DEF OneBuild, Active, GebcoTypeOK, To, processVars
<1>1. CASE EnsureGebcoDerived(l)
    BY <1>1 DEF EnsureGebcoDerived
<1>2. CASE StartBuild(l)
    <2>1. asking = {l} /\ asking' = {} /\ ~building
        BY <1>2 DEF StartBuild, OneLayer
    <2>2. PICK g \in GebcoThreads : gpc[g] = "idle" /\ gpc' = [gpc EXCEPT ![g] = "start"]
        BY <1>2 DEF StartBuild
    <2> QED
        BY <1>2, <2>1, <2>2 DEF StartBuild
<1> QED
    BY <1>1, <1>2 DEF LayerStep

\* A build that is alone has its temporary files for itself: what it puts in place
\* it has written to the end, unless a rename or a copy fails.
LEMMA OneBuildStep ==
    ASSUME ProcessInv, GebcoInv, OneBuild, NEW g \in GebcoThreads, GebcoStep(g)
    PROVE  OneBuild'
<1>1. ClientStep /\ NothingUndone
    BY GebcoIsClient, ClientKeeps DEF ProcessInv, GebcoInv
<1>2. /\ gpc \in [GebcoThreads -> GebcoPcs] /\ stage \in [GebcoThreads -> Assets]
      /\ out \in [Assets -> {"absent", "part", "whole"}]
      /\ tmp \in [Assets -> {"absent", "part", "whole"}]
      /\ \A h \in GebcoThreads \ {g} : gpc'[h] = gpc[h] /\ stage'[h] = stage[h]
      /\ GebcoTypeOK'
    BY GebcoTypes DEF GebcoInv, GebcoTypeOK
<1>3. faults' = 0 => faults = 0 /\ ~Fault
    BY <1>1, FaultCounts DEF NothingUndone, ProcessInv, ProcessTypeOK
<1>4. gpc[g] \notin {"idle", "died"}
    BY DEF GebcoStep, BuildGebcoDerived, KeepAsset, BeginAsset, MosaicMade, AssetWritten, PlaceAsset,
           AssetCopied, ClearFlag, GebcoUnwinds
<1>5. building /\ asking = {} /\ \A h \in GebcoThreads \ {g} : gpc[h] \in {"idle", "died"}
    BY <1>4 DEF OneBuild, Active
<1>6. asking' = {}
    BY <1>5 DEF GebcoStep, BuildGebcoDerived, KeepAsset, BeginAsset, MosaicMade, AssetWritten, PlaceAsset,
           AssetCopied, ClearFlag, GebcoUnwinds
<1>7. Active(g)' => building'
    BY <1>2, <1>5 DEF GebcoStep, BuildGebcoDerived, KeepAsset, BeginAsset, MosaicMade, AssetWritten, PlaceAsset,
           AssetCopied, ClearFlag, GebcoUnwinds, Active, To
<1>8. SUFFICES /\ gpc'[g] = "mosaic" => stage'[g] = Preview
               /\ gpc'[g] = "write" => tmp'[stage'[g]] = "part"
               /\ gpc'[g] \in {"checked", "copy"} => tmp'[stage'[g]] = "whole"
               /\ faults' = 0 => \A a \in Assets : out'[a] # "part"
    BY <1>2, <1>5, <1>6, <1>7 DEF OneBuild, Active
<1> USE <1>2, <1>3, <1>5 DEF OneBuild, To, Put, Temp, Present
<1>9. NextAsset(g) => gpc'[g] \in {"clear", "asset"}
    BY DEF NextAsset
<1>10. CASE BuildGebcoDerived(g) \/ ClearFlag(g) \/ GebcoUnwinds(g)
    <2>1. gpc'[g] \in {"clear", "asset", "idle", "died"} /\ out' = out
        BY <1>10 DEF BuildGebcoDerived, ClearFlag, GebcoUnwinds
    <2> QED
        BY <2>1
<1>11. CASE KeepAsset(g)
    BY <1>9, <1>11 DEF KeepAsset
<1>12. CASE BeginAsset(g)
    BY <1>12 DEF BeginAsset
<1>16. CASE MosaicMade(g)
    BY <1>16 DEF MosaicMade, Assets
<1>13. CASE AssetWritten(g)
    <2>1. Writers(stage[g]) = {g} /\ tmp[stage[g]] = "part"
        BY <1>13 DEF AssetWritten, Writers
    <2> QED
        BY <1>13, <2>1 DEF AssetWritten, Finished
<1>14. CASE PlaceAsset(g)
    BY <1>9, <1>14 DEF PlaceAsset
<1>15. CASE AssetCopied(g)
    BY <1>9, <1>15 DEF AssetCopied
<1> QED
    BY <1>10, <1>11, <1>12, <1>13, <1>14, <1>15, <1>16 DEF GebcoStep

-----------------------------------------------------------------------------
(* All together.                                                           *)

SafeInv == ProcessInv /\ LunarInv /\ GebcoInv

\* Nothing runs at first.
LEMMA InitHolds == Init => SafeInv
<1> SUFFICES ASSUME Init
             PROVE  SafeInv
    OBVIOUS
<1> USE DEF Init
<1>1. ProcessInv
    <2>1. faults \in 0..FaultBudget
        BY BudgetAssumption DEF ProcessInit
    <2>2. ProcessTypeOK
        BY <2>1 DEF ProcessInit, ProcessTypeOK, ChildStates, CmdStates, ExitStates
    <2>3. ProcessShape /\ CommandsSucceed(LunarThreads)
        BY LunarAssumption DEF ProcessInit, ProcessShape, CommandsSucceed
    <2> QED
        BY <2>2, <2>3 DEF ProcessInv
<1>2. LunarInv
    <2>1. LunarTypeOK
        BY DEF LunarInit, LunarTypeOK, LunarPcs
    <2>2. \A t \in LunarThreads : lpc[t] = "idle" /\ ~Claims(t) /\ cmd[t] = "idle"
        BY LunarAssumption DEF LunarInit, ProcessInit, Claims, OwningPcs
    <2>3. LunarCommands /\ ClaimsAreExclusive
        BY <2>2 DEF LunarCommands, ClaimsAreExclusive, LunarInit
    <2>4. UndisturbedShape
        BY <2>2 DEF UndisturbedShape, LunarInit
    <2> QED
        BY <2>1, <2>3, <2>4 DEF LunarInv
<1>3. GebcoInv
    <2>1. GebcoTypeOK
        BY DEF GebcoInit, GebcoTypeOK, GebcoPcs, Assets, Preview
    <2>2. \A g \in GebcoThreads : gpc[g] = "idle" /\ cmd[g] = "idle"
        BY GebcoAssumption DEF GebcoInit, ProcessInit
    <2>3. GebcoCommands /\ OneBuild
        BY <2>2 DEF GebcoCommands, OneBuild, Active, GebcoInit
    <2> QED
        BY <2>1, <2>3 DEF GebcoInv
<1> QED
    BY <1>1, <1>2, <1>3 DEF SafeInv

\* One step per component: its own lemmas, and that the others are left alone.
LEMMA StepHolds == SafeInv /\ [Next]_vars => SafeInv'
<1> SUFFICES ASSUME SafeInv, [Next]_vars
             PROVE  SafeInv'
    OBVIOUS
<1> USE DEF SafeInv
<1>s. LunarThreads \subseteq Threads /\ GebcoThreads \subseteq Threads
    BY LunarAssumption, GebcoAssumption
<1>1. ASSUME NothingUndone, Untouched(Threads), UNCHANGED <<lunarVars, gebcoVars>>
      PROVE  LunarInv' /\ GebcoInv'
    BY <1>1, <1>s, LunarKept, GebcoKept DEF Untouched
<1>2. ASSUME NEW t \in Threads, RunCommand(t)
      PROVE  SafeInv'
    BY <1>1, <1>2, RunKeeps DEF RunCommand
<1>3. ASSUME NEW t \in Threads, ProcessEnds(t) \/ ProcessBreaks(t)
      PROVE  SafeInv'
    BY <1>1, <1>3, ChildKeeps DEF ProcessEnds, ProcessBreaks
<1>4. CASE Exit
    BY <1>1, <1>4, ExitKeeps DEF Exit
<1>5. ASSUME NEW t \in LunarThreads, LunarJob(t)
      PROVE  SafeInv'
    <2>1. LunarStep(t) /\ UNCHANGED gebcoVars
        BY <1>5 DEF LunarJob
    <2>2. ClientStep /\ Untouched(GebcoThreads)
        BY <2>1, LunarIsClient DEF ProcessInv, LunarInv
    <2>3. ProcessInv' /\ NothingUndone
        BY <2>2, ClientKeeps
    <2>4. LunarInv'
        BY <2>1, LunarTypes, LunarCommandsStep, ClaimsStep, UndisturbedStep DEF ProcessInv, LunarInv
    <2> QED
        BY <2>1, <2>2, <2>3, <2>4, GebcoKept
<1>6. ASSUME NEW l \in Layers, LayerJob(l)
      PROVE  SafeInv'
    <2>1. LayerStep(l) /\ UNCHANGED lunarVars
        BY <1>6 DEF LayerJob
    <2>2. UNCHANGED processVars
        BY <2>1 DEF LayerStep, EnsureGebcoDerived, StartBuild
    <2>3. ClientStep /\ Untouched(Threads)
        BY <2>2 DEF ClientStep, UnchangedProcesses, processVars, Untouched
    <2>4. ProcessInv' /\ NothingUndone
        BY <2>3, ClientKeeps
    <2>5. LunarInv'
        BY <1>s, <2>1, <2>3, <2>4, LunarKept DEF Untouched
    <2>6. GebcoTypeOK' /\ (OneLayer => OneBuild')
        BY <2>1, LayerTypes, OneBuildLayer DEF GebcoInv
    <2>7. GebcoCommands'
        <3>1. \A g \in GebcoThreads : gpc'[g] \notin {"mosaic", "write", "died"} =>
                  gpc[g] \notin {"mosaic", "write", "died"}
            BY <2>1 DEF LayerStep, EnsureGebcoDerived, StartBuild, To, GebcoInv, GebcoTypeOK
        <3> QED
            BY <2>2, <3>1 DEF GebcoInv, GebcoCommands, processVars
    <2> QED
        BY <2>4, <2>5, <2>6, <2>7 DEF GebcoInv, OneLayer
<1>7. ASSUME NEW g \in GebcoThreads, GebcoJob(g)
      PROVE  SafeInv'
    <2>1. GebcoStep(g) /\ UNCHANGED lunarVars
        BY <1>7 DEF GebcoJob
    <2>2. ClientStep /\ Untouched(LunarThreads)
        BY <2>1, GebcoIsClient DEF ProcessInv, GebcoInv
    <2>3. ProcessInv' /\ NothingUndone
        BY <2>2, ClientKeeps
    <2>4. GebcoTypeOK' /\ GebcoCommands' /\ (OneLayer => OneBuild')
        BY <2>1, GebcoTypes, GebcoCommandsStep, OneBuildStep DEF ProcessInv, GebcoInv
    <2> QED
        BY <2>1, <2>2, <2>3, <2>4, LunarKept DEF GebcoInv, OneLayer
<1>8. CASE UNCHANGED vars
    <2>1. UNCHANGED <<processVars, lunarVars, gebcoVars>>
        BY <1>8 DEF vars
    <2>2. ClientStep /\ Untouched(Threads)
        BY <2>1 DEF ClientStep, UnchangedProcesses, processVars, Untouched
    <2> QED
        BY <1>1, <2>1, <2>2, ClientKeeps
<1> QED
    BY <1>2, <1>3, <1>4, <1>5, <1>6, <1>7, <1>8 DEF Next, Exited

\* The strengthened invariant holds always.
LEMMA SafeAlways == Spec => []SafeInv
BY InitHolds, StepHolds, PTL DEF Spec

\* Every chunk that is pending has exactly one thread that extracts it or died over
\* it, any other has none, whatever breaks and whenever the program exits.
THEOREM ChunksInvariant == Spec => []IInv
<1>1. SafeInv => IInv
    BY OneExtractorEach DEF SafeInv, ProcessInv, LunarInv, GebcoInv, IInv, TypeOK
<1> QED
    BY <1>1, SafeAlways, PTL

\* What makes it inductive: a process is watched only after it was registered, so exit
\* copies it; and once exit has copied the registry, whoever has still to register was
\* missed.
Registered ==
    exit \in {"no", "collect"} =>
        missed = {} /\ \A t \in Threads : cmd[t] = "watch" => t \in active
Unmissed ==
    exit \notin {"no", "collect"} => \A t \in Threads :
        /\ cmd[t] \in {"checked", "spawned"} => t \in missed
        /\ cmd[t] = "watch" /\ Alive(t) => t \in taken \cup missed
AccountInv == Registered /\ Unmissed /\ ChildIsAccountable

\* A process that is alive has its thread inside run, or was left by a panic.
LEMMA AliveInRun ==
    ASSUME ProcessInv, NEW t \in Threads, Alive(t)
    PROVE  cmd[t] \in {"spawned", "watch", "panicked"}
BY DEF ProcessInv, ProcessTypeOK, ProcessShape, Alive

\* A thread lets go of a process only after it was reaped, and a client calls only
\* when nothing runs; exit takes over the ids it removes from the registry, and whoever
\* is not among them stood before its registration at that moment.
LEMMA AccountableStep ==
    ASSUME SafeInv, AccountInv, [Next]_vars
    PROVE  AccountInv'
<1>t. /\ cmd \in [Threads -> CmdStates] /\ child \in [Threads -> ChildStates]
      /\ active \subseteq Threads /\ taken \subseteq Threads /\ missed \subseteq Threads
      /\ ProcessShape /\ \A t \in Threads : Alive(t) => cmd[t] \in {"spawned", "watch", "panicked"}
    BY AliveInRun DEF SafeInv, ProcessInv, ProcessTypeOK
<1> USE <1>t DEF AccountInv, ChildIsAccountable, WillBeStopped, Alive, Registered, Unmissed
<1>1. ASSUME ClientStep
      PROVE  AccountInv'
    <2>1. \A t \in Threads : cmd'[t] = cmd[t] \/ (cmd[t] \in {"idle", "ok", "failed"}
                                              /\ cmd'[t] \in {"start", "idle"})
        BY <1>1 DEF ClientStep, Call, Return
    <2> QED
        BY <1>1, <2>1 DEF ClientStep, UnchangedProcesses
<1>2. ASSUME NEW t \in Threads, RunStep(t), Running
      PROVE  AccountInv'
    <2> USE <1>2 DEF Running
    <2>1. CASE CheckShutdown(t)
        BY <2>1 DEF CheckShutdown, ProcessShape
    <2>2. CASE Spawn(t)
        BY <2>2 DEF Spawn
    <2>3. CASE Register(t)
        BY <2>3 DEF Register
    <2>4. CASE Watch(t)
        BY <2>4 DEF Watch
    <2>5. CASE Unregister(t)
        BY <2>5 DEF Unregister, ProcessShape
    <2> QED
        BY <1>2, <2>1, <2>2, <2>3, <2>4, <2>5 DEF RunStep
<1>3. ASSUME NEW t \in Threads, ChildEnds(t) \/ ChildRejects(t) \/ ChildBreaks(t)
      PROVE  AccountInv'
    BY <1>3 DEF ChildEnds, ChildRejects, ChildBreaks
<1>4. CASE RequestExit \/ TerminateActiveGdalJobs \/ ProgramEnds
    <2>1. CASE RequestExit
        BY <2>1 DEF RequestExit
    <2>2. CASE CollectChildren
        <3>1. /\ exit = "collect" /\ exit' = "term" /\ taken' = active /\ child' = child /\ cmd' = cmd
              /\ \A t \in Threads : t \in missed' <=> cmd[t] \in {"checked", "spawned"}
            BY <2>2 DEF CollectChildren
        <3>2. \A t \in Threads : Alive(t) => cmd[t] = "spawned" \/ t \in active
            BY <3>1
        <3>3. \A t \in Threads : cmd[t] = "watch" => t \in active
            BY <3>1
        <3>4. Registered' /\ Unmissed'
            BY <3>1, <3>3
        <3>5. ChildIsAccountable'
            BY <3>1, <3>2
        <3> QED
            BY <3>4, <3>5
    <2>3. CASE SignalTerm
        BY <2>3 DEF SignalTerm, Killed
    <2>4. CASE SignalKill
        BY <2>4 DEF SignalKill, Killed
    <2>5. CASE ProgramEnds
        BY <2>5 DEF ProgramEnds, ProcessShape
    <2> QED
        BY <1>4, <2>1, <2>2, <2>3, <2>4, <2>5 DEF TerminateActiveGdalJobs
<1>5. ASSUME UNCHANGED processVars
      PROVE  ClientStep
    BY <1>5 DEF ClientStep, UnchangedProcesses, processVars
<1>6. CASE UNCHANGED vars
    BY <1>1, <1>5, <1>6 DEF vars
<1>7. ASSUME NEW t \in LunarThreads, LunarJob(t)
      PROVE  ClientStep
    BY <1>7, LunarIsClient DEF LunarJob, SafeInv, ProcessInv, LunarInv
<1>8. ASSUME NEW l \in Layers, LayerJob(l)
      PROVE  ClientStep
    BY <1>5, <1>8 DEF LayerJob, LayerStep, EnsureGebcoDerived, StartBuild
<1>9. ASSUME NEW g \in GebcoThreads, GebcoJob(g)
      PROVE  ClientStep
    BY <1>9, GebcoIsClient DEF GebcoJob, SafeInv, ProcessInv, GebcoInv
<1> QED
    BY <1>1, <1>2, <1>3, <1>4, <1>6, <1>7, <1>8, <1>9
    DEF Next, RunCommand, ProcessEnds, ProcessBreaks, Exit, Exited

\* Every process that is alive will be stopped by a thread that watches it, by the
\* registry that exit has still to read, or by the exit that is signalling it, also when
\* the watching thread panicked, unless its thread stood between check and registration
\* when exit copied the registry.
THEOREM NoDetachedChild == Spec => []ChildIsAccountable
<1>1. Init => AccountInv
    BY DEF Init, ProcessInit, AccountInv, Registered, Unmissed, ChildIsAccountable, Alive
<1>2. SafeInv /\ AccountInv /\ [Next]_vars => AccountInv'
    BY AccountableStep
<1>3. AccountInv => ChildIsAccountable
    BY DEF AccountInv
<1> QED
    BY <1>1, <1>2, <1>3, SafeAlways, PTL DEF Spec

\* As long as nothing goes wrong no tile fails, and none is cropped from a chunk
\* that is being copied.
THEOREM UndisturbedBuilds == Spec => []UndisturbedTilesSucceed
<1>1. SafeInv => UndisturbedTilesSucceed
    BY DEF SafeInv, LunarInv, UndisturbedShape, UndisturbedTilesSucceed
<1> QED
    BY <1>1, SafeAlways, PTL

\* One layer alone never gets a file that is still being written; with two layers
\* the flag does not keep the builds apart.
THEOREM OneLayerGetsWholeFiles ==
    ASSUME OneLayer
    PROVE  Spec => []HandedOutWhenComplete
<1>1. SafeInv => HandedOutWhenComplete
    BY DEF SafeInv, GebcoInv, OneBuild, HandedOutWhenComplete
<1> QED
    BY <1>1, SafeAlways, PTL

=============================================================================
