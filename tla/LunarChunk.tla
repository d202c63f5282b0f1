----------------------------- MODULE LunarChunk ------------------------------
(***************************************************************************)
(* Lunar build threads of srtm_focus_cache/gdal.rs: tiles are cropped from *)
(* source chunks, which are extracted once from the 22 GB mosaic and kept. *)
(* The thread that inserts a chunk into the pending set extracts it, the   *)
(* others poll for the file.                                               *)
(*                                                                         *)
(* A thread stands for a tile: the scheduler gives each tile one build at  *)
(* a time (TileBuild), and builds it again when it has failed.             *)
(***************************************************************************)
EXTENDS GdalProcess

CONSTANTS
    LunarThreads,
    Chunks,
    ChunkOf        \* lunar_source_chunk_for_bounds

ASSUME LunarAssumption ==
    /\ LunarThreads \subseteq Threads
    /\ ChunkOf \in [LunarThreads -> Chunks]

VARIABLES
    lpc,       \* where each build is
    file,      \* each chunk file: absent, part (being copied in place) or whole
    pending    \* lunar_source_chunk_pending()

lunarVars == <<lpc, file, pending>>

\* Between its insert and its removal a thread owns the chunk.
OwningPcs == {"extract", "persist", "copy", "release whole", "release failed"}
LunarPcs == OwningPcs \cup {"idle", "ask", "claim", "wait", "recheck", "last",
                            "crop", "cropping", "done", "failed", "died owning", "died"}

LunarInit ==
    /\ lpc = [t \in LunarThreads |-> "idle"]
    /\ file = [c \in Chunks |-> "absent"]
    /\ pending = {}

Exists(t) == file[ChunkOf[t]] # "absent"
Goto(t, pc) == lpc' = [lpc EXCEPT ![t] = pc]
SetFile(t, s) == file' = [file EXCEPT ![ChunkOf[t]] = s]

-----------------------------------------------------------------------------

\* build_lunar_contour_tile up to the chunk, scheduled for the first time or
\* again after a failure.
BuildLunarContourTile(t) ==
    /\ lpc[t] \in {"idle", "failed"} /\ ~shutdown
    /\ Goto(t, "ask")
    /\ UNCHANGED <<file, pending, processVars>>

\* ensure_lunar_source_chunk: the file is looked for before the lock is taken.
EnsureLunarSourceChunk(t) ==
    /\ lpc[t] = "ask"
    /\ Goto(t, IF Exists(t) THEN "crop" ELSE "claim")
    /\ UNCHANGED <<file, pending, processVars>>

ClaimChunk_Unchecked(t) ==   \* mutant: the result of the insert is ignored
    /\ lpc[t] = "claim"
    /\ pending' = pending \cup {ChunkOf[t]}
    /\ Goto(t, "extract") /\ Call(t)
    /\ UNCHANGED <<file, faults>> /\ UnchangedProcesses

ClaimChunk(t) ==
    /\ lpc[t] = "claim"
    /\ \/ /\ ChunkOf[t] \notin pending
          /\ pending' = pending \cup {ChunkOf[t]}
          /\ Goto(t, "extract") /\ Call(t)   \* gdal_translate into a unique temporary file
       \/ /\ ChunkOf[t] \in pending
          /\ Goto(t, "wait")
          /\ UNCHANGED <<pending, cmd>>
    /\ UNCHANGED <<file, faults>> /\ UnchangedProcesses

Extracted(t) ==
    /\ lpc[t] = "extract" /\ cmd[t] \in {"ok", "failed"}
    /\ Goto(t, IF cmd[t] = "ok" THEN "persist" ELSE "release failed")
    /\ Return(t)
    /\ UNCHANGED <<file, pending, faults>> /\ UnchangedProcesses

\* The rename, or when it fails the start of a copy to the final path.
PersistTempFile(t) ==
    /\ lpc[t] = "persist"
    /\ \/ SetFile(t, "whole") /\ Goto(t, "release whole") /\ UNCHANGED faults
       \/ SetFile(t, "part") /\ Goto(t, "copy") /\ Fault
    /\ UNCHANGED <<pending, cmd>> /\ UnchangedProcesses

CopyEnds(t) ==
    /\ lpc[t] = "copy"
    /\ \/ SetFile(t, "whole") /\ Goto(t, "release whole") /\ UNCHANGED faults
       \/ \* the volume is full; or it is copied, but the temporary file stays
          \E s \in {"part", "whole"} : SetFile(t, s) /\ Goto(t, "release failed") /\ Fault
    /\ UNCHANGED <<pending, cmd>> /\ UnchangedProcesses

ReleaseChunk_OnSuccess(t) ==   \* mutant: a failed extraction returns early and stays pending
    /\ lpc[t] \in {"release whole", "release failed"}
    /\ pending' = IF lpc[t] = "release whole" THEN pending \ {ChunkOf[t]} ELSE pending
    /\ Goto(t, IF lpc[t] = "release whole" THEN "crop" ELSE "failed")
    /\ UNCHANGED <<file, processVars>>

ReleaseChunk(t) ==
    /\ lpc[t] \in {"release whole", "release failed"}
    /\ pending' = pending \ {ChunkOf[t]}
    /\ Goto(t, IF lpc[t] = "release whole" THEN "crop" ELSE "failed")
    /\ UNCHANGED <<file, processVars>>

-----------------------------------------------------------------------------
(* wait_for_lunar_source_chunk.                                            *)

WaitForFile(t) ==
    /\ lpc[t] = "wait"
    /\ Goto(t, IF Exists(t) THEN "crop" ELSE "recheck")
    /\ UNCHANGED <<file, pending, processVars>>

Owners(c) == {t \in LunarThreads : ChunkOf[t] = c /\ lpc[t] \in OwningPcs}

WaitForOwner_NoLastLook(t) ==   \* mutant: a chunk that is no longer pending has failed
    /\ lpc[t] = "recheck"
    /\ Goto(t, IF shutdown \/ ChunkOf[t] \notin pending THEN "failed" ELSE "wait")
    /\ UNCHANGED <<file, pending, processVars>>

\* The owner removes the chunk only after it has put the file in place, so a
\* waiter that finds it removed looks for the file once more.  It also does so
\* when 120 s have passed, while an owner may take 600 s.
WaitForOwner(t) ==
    /\ lpc[t] = "recheck"
    /\ \/ shutdown /\ Goto(t, "failed")
       \/ ~shutdown /\ ChunkOf[t] \notin pending /\ Goto(t, "last")
       \/ ~shutdown /\ ChunkOf[t] \in pending /\ Goto(t, "wait")
    /\ UNCHANGED <<file, pending, processVars>>
WaitTimesOut(t) ==
    /\ lpc[t] = "recheck" /\ ~shutdown /\ ChunkOf[t] \in pending
    /\ IF Owners(ChunkOf[t]) = {} THEN UNCHANGED faults ELSE Fault   \* nobody comes, or too late
    /\ Goto(t, "last")
    /\ UNCHANGED <<file, pending, cmd>> /\ UnchangedProcesses
LastLook(t) ==
    /\ lpc[t] = "last"
    /\ Goto(t, IF Exists(t) THEN "crop" ELSE "failed")
    /\ UNCHANGED <<file, pending, processVars>>

-----------------------------------------------------------------------------

\* The rest of build_lunar_contour_tile.  A chunk is taken as it is: from one that is
\* not complete the crop fails (CropFails).  Contouring and import come after the crop
\* in the same way and are stages of TileBuild.
CropTile(t) ==
    /\ lpc[t] = "crop"
    /\ Goto(t, "cropping") /\ Call(t)
    /\ UNCHANGED <<file, pending, faults>> /\ UnchangedProcesses
CropFails(t) == lpc[t] = "cropping" /\ file[ChunkOf[t]] = "part"
TileBuilt(t) ==
    /\ lpc[t] = "cropping" /\ cmd[t] \in {"ok", "failed"}
    /\ Goto(t, IF cmd[t] = "ok" /\ ~shutdown THEN "done" ELSE "failed")
    /\ Return(t)
    /\ UNCHANGED <<file, pending, faults>> /\ UnchangedProcesses

\* A panic in run unwinds the build: nothing removes the chunk from the set.
LunarUnwinds(t) ==
    /\ cmd[t] = "panicked" /\ lpc[t] \in {"extract", "cropping"}
    /\ Goto(t, IF lpc[t] = "extract" THEN "died owning" ELSE "died")
    /\ UNCHANGED <<file, pending, processVars>>

LunarStep(t) ==
    \/ BuildLunarContourTile(t) \/ EnsureLunarSourceChunk(t)
    \/ ClaimChunk(t) \/ Extracted(t) \/ PersistTempFile(t) \/ CopyEnds(t) \/ ReleaseChunk(t)
    \/ WaitForFile(t) \/ WaitForOwner(t) \/ WaitTimesOut(t) \/ LastLook(t)
    \/ CropTile(t) \/ TileBuilt(t) \/ LunarUnwinds(t)

-----------------------------------------------------------------------------

LunarTypeOK ==
    /\ lpc \in [LunarThreads -> LunarPcs]
    /\ file \in [Chunks -> {"absent", "part", "whole"}]
    /\ pending \subseteq Chunks

\* gdal.md: "Chunk creation is deduplicated across background tile threads".  A
\* pending chunk has exactly one thread that extracts it, or the one that died
\* over it; any other chunk has none.
OneExtractor ==
    \A c \in Chunks :
        LET dead == {t \in LunarThreads : ChunkOf[t] = c /\ lpc[t] = "died owning"}
        IN  Cardinality(Owners(c) \cup dead) = (IF c \in pending THEN 1 ELSE 0)

\* A thread has a command only where it waits for it, and keeps one it died over.
LunarCommands ==
    \A t \in LunarThreads :
        /\ lpc[t] \notin {"extract", "cropping", "died owning", "died"} => cmd[t] = "idle"
        /\ lpc[t] \in {"died owning", "died"} => cmd[t] = "panicked"

\* The pending set and its owners, one by one.
Claims(t) == lpc[t] \in OwningPcs \cup {"died owning"}
ClaimsAreExclusive ==
    /\ \A t \in LunarThreads : Claims(t) => ChunkOf[t] \in pending
    /\ \A t, u \in LunarThreads : Claims(t) /\ Claims(u) /\ ChunkOf[t] = ChunkOf[u] => t = u
    /\ \A c \in pending : \E t \in LunarThreads : Claims(t) /\ ChunkOf[t] = c

\* Why nothing fails unless something goes wrong: a waiter whose chunk is no longer
\* pending finds it whole, since the owner puts it in place first.
UndisturbedShape ==
    faults = 0 /\ ~shutdown =>
        /\ \A c \in Chunks : file[c] # "part"
        /\ \A t \in LunarThreads :
              /\ lpc[t] \notin {"failed", "release failed", "copy", "died owning", "died"}
              /\ lpc[t] \in {"release whole", "last", "crop", "cropping", "done"} =>
                    file[ChunkOf[t]] = "whole"
              /\ lpc[t] \in {"wait", "recheck"} =>
                    ChunkOf[t] \in pending \/ file[ChunkOf[t]] = "whole"

\* As long as nothing goes wrong, no tile fails and none is cropped from a
\* chunk that is not complete, in whatever order owners and waiters run.
UndisturbedTilesSucceed ==
    faults = 0 /\ ~shutdown =>
        \A t \in LunarThreads :
            /\ lpc[t] # "failed"
            /\ lpc[t] \in {"crop", "cropping", "done"} => file[ChunkOf[t]] = "whole"

\* A chunk left half copied, with nobody to complete it: its path exists, so it is
\* never extracted again.
TornChunk(c) ==
    /\ file[c] = "part"
    /\ \A t \in LunarThreads : ChunkOf[t] = c => lpc[t] # "copy"

\* Whatever goes wrong, a tile is built in the end, unless the program exits, a build
\* thread of its chunk panics, or a copy in place fails half way and leaves its chunk
\* torn for good.
TilesGetBuilt ==
    \A t \in LunarThreads :
        \/ <>(lpc[t] = "done")
        \/ <>shutdown
        \/ <>(\E u \in LunarThreads :
                ChunkOf[u] = ChunkOf[t] /\ lpc[u] \in {"died owning", "died"})
        \/ <>TornChunk(ChunkOf[t])

=============================================================================
