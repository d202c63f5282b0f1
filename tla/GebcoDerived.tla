---------------------------- MODULE GebcoDerived -----------------------------
(***************************************************************************)
(* The runtime assets derived from GEBCO (srtm_focus_cache/mod.rs and      *)
(* gdal.rs): a preview, from which a depth grid and a contour package are  *)
(* made.  Two map layers ask for them, each from the one background thread *)
(* of its layer_snapshot.rs; a flag keeps a second build from starting.    *)
(***************************************************************************)
EXTENDS GdalProcess

CONSTANTS
    Layers,           \* the layers shown: gebco_depth_fill, load_global_bathymetry
    GebcoThreads      \* build threads that may be alive at once

ASSUME GebcoAssumption == GebcoThreads \subseteq Threads

VARIABLES
    building,   \* gebco_derived_building()
    asking,     \* layers whose thread has found the flag clear
    gpc, stage, \* a build thread: where it is, and the asset it makes
    out,        \* each asset in place: absent, part or whole
    tmp         \* its temporary file, whose name is the same for every build

gebcoVars == <<building, asking, gpc, stage, out, tmp>>

Preview == 1
DepthBil == 2
ContoursGpkg == 3
Assets == {Preview, DepthBil, ContoursGpkg}
GebcoPcs == {"idle", "start", "asset", "mosaic", "write", "checked", "copy", "clear", "died"}

GebcoInit ==
    /\ building = FALSE /\ asking = {}
    /\ gpc = [g \in GebcoThreads |-> "idle"]
    /\ stage = [g \in GebcoThreads |-> Preview]
    /\ out = [a \in Assets |-> "absent"]
    /\ tmp = [a \in Assets |-> "absent"]

Present(a) == out[a] # "absent"
To(g, pc) == gpc' = [gpc EXCEPT ![g] = pc]
Put(a, s) == out' = [out EXCEPT ![a] = s]
Temp(a, s) == tmp' = [tmp EXCEPT ![a] = s]

-----------------------------------------------------------------------------
(* A layer's thread, in ensure_gebco_derived.  It comes back after a second *)
(* as long as its asset is not there.                                       *)

\* Both assets are looked for and the flag is read; between this and the next
\* step the GEBCO directory is listed.
EnsureGebcoDerived(l) ==
    /\ l \notin asking /\ ~shutdown
    /\ ~(Present(DepthBil) /\ Present(ContoursGpkg))
    /\ ~building
    /\ asking' = asking \cup {l}
    /\ UNCHANGED <<building, gpc, stage, out, tmp, processVars>>

StartBuild(l) ==
    /\ l \in asking
    /\ building' = TRUE
    /\ asking' = asking \ {l}
    /\ \E g \in GebcoThreads : gpc[g] = "idle" /\ To(g, "start")
    /\ UNCHANGED <<stage, out, tmp, processVars>>

-----------------------------------------------------------------------------
(* build_gebco_derived.                                                    *)

BuildGebcoDerived(g) ==
    /\ gpc[g] = "start"
    /\ To(g, IF shutdown THEN "clear" ELSE "asset")
    /\ stage' = [stage EXCEPT ![g] = Preview]
    /\ UNCHANGED <<building, asking, out, tmp, processVars>>

NextAsset(g) ==
    IF stage[g] = ContoursGpkg
    THEN To(g, "clear") /\ UNCHANGED stage
    ELSE To(g, "asset") /\ stage' = [stage EXCEPT ![g] = @ + 1]

\* An asset that is in place is kept, whoever has put it there and however much of it
\* there is.
KeepAsset(g) ==
    /\ gpc[g] = "asset" /\ Present(stage[g])
    /\ NextAsset(g)
    /\ UNCHANGED <<building, asking, out, tmp, processVars>>

\* The preview is translated from a mosaic, which takes a command of its own.
BeginAsset(g) ==
    /\ gpc[g] = "asset" /\ ~Present(stage[g])
    /\ Call(g)
    /\ IF stage[g] = Preview
       THEN To(g, "mosaic") /\ UNCHANGED tmp
       ELSE To(g, "write") /\ Temp(stage[g], "part")
    /\ UNCHANGED <<building, asking, stage, out, faults>> /\ UnchangedProcesses

MosaicMade(g) ==
    /\ gpc[g] = "mosaic" /\ cmd[g] \in {"ok", "failed"}
    /\ IF cmd[g] = "ok" /\ ~shutdown
       THEN To(g, "write") /\ Call(g) /\ Temp(Preview, "part")
       ELSE To(g, "clear") /\ Return(g) /\ UNCHANGED tmp
    /\ UNCHANGED <<building, asking, stage, out, faults>> /\ UnchangedProcesses

\* The depth grid and the contours are made from the preview in place: from one that is
\* not complete the command fails.
DerivationFails(g) ==
    gpc[g] = "write" /\ stage[g] # Preview /\ out[Preview] = "part"

Writers(a) == {g \in GebcoThreads : gpc[g] = "write" /\ stage[g] = a}

AssetWritten_IgnoresFailure(g) ==   \* mutant: the result of the command is not looked at
    /\ gpc[g] = "write" /\ cmd[g] \in {"ok", "failed"}
    /\ To(g, "checked") /\ UNCHANGED tmp
    /\ Return(g)
    /\ UNCHANGED <<building, asking, stage, out, faults>> /\ UnchangedProcesses

\* Its output is whole, at best, once no other build writes to the same name,
\* even if another build has put the unfinished file in place meanwhile.
Finished(g, a) ==
    IF Writers(a) # {g} THEN UNCHANGED <<tmp, out>>
    ELSE IF tmp[a] = "part" THEN Temp(a, "whole") /\ UNCHANGED out
    ELSE Put(a, IF Present(a) THEN "whole" ELSE "absent") /\ UNCHANGED tmp

AssetWritten(g) ==
    /\ gpc[g] = "write" /\ cmd[g] \in {"ok", "failed"}
    /\ \/ cmd[g] = "ok" /\ ~shutdown /\ To(g, "checked") /\ Finished(g, stage[g])
       \/ cmd[g] = "ok" /\ shutdown /\ To(g, "clear") /\ Temp(stage[g], "absent") /\ UNCHANGED out
       \/ cmd[g] = "failed" /\ To(g, "clear") /\ UNCHANGED <<tmp, out>>
    /\ Return(g)
    /\ UNCHANGED <<building, asking, stage, faults>> /\ UnchangedProcesses

\* The rename to the final name, with a copy as fallback.
PlaceAsset(g) ==
    LET a == stage[g] IN
    /\ gpc[g] = "checked"
    /\ \/ /\ tmp[a] # "absent"
          /\ Put(a, tmp[a]) /\ Temp(a, "absent") /\ NextAsset(g)
          /\ UNCHANGED faults
       \/ /\ tmp[a] # "absent" /\ Fault
          /\ Put(a, "part") /\ To(g, "copy") /\ UNCHANGED <<tmp, stage>>
       \/ /\ tmp[a] = "absent"
          /\ To(g, "clear") /\ UNCHANGED <<out, tmp, stage, faults>>
    /\ UNCHANGED <<building, asking, cmd>> /\ UnchangedProcesses

AssetCopied(g) ==
    LET a == stage[g] IN
    /\ gpc[g] = "copy"
    /\ \/ /\ Put(a, IF tmp[a] = "whole" THEN "whole" ELSE "part")
          /\ Temp(a, "absent") /\ NextAsset(g) /\ UNCHANGED faults
       \/ To(g, "clear") /\ Fault /\ UNCHANGED <<out, tmp, stage>>
    /\ UNCHANGED <<building, asking, cmd>> /\ UnchangedProcesses

ClearFlag_OnSuccess(g) ==   \* mutant: a failed build returns before it clears the flag
    /\ gpc[g] = "clear"
    /\ building' = (building /\ ~(\A a \in Assets : Present(a)))
    /\ To(g, "idle")
    /\ UNCHANGED <<asking, stage, out, tmp, processVars>>

\* The thread's closure clears the flag whatever the build returned, but not
\* when it panicked.
ClearFlag(g) ==
    /\ gpc[g] = "clear"
    /\ building' = FALSE
    /\ To(g, "idle")
    /\ UNCHANGED <<asking, stage, out, tmp, processVars>>
GebcoUnwinds(g) ==
    /\ cmd[g] = "panicked" /\ gpc[g] \in {"mosaic", "write"}
    /\ To(g, "died")
    /\ UNCHANGED <<building, asking, stage, out, tmp, processVars>>

LayerStep(l) == EnsureGebcoDerived(l) \/ StartBuild(l)
GebcoStep(g) ==
    \/ BuildGebcoDerived(g) \/ KeepAsset(g) \/ BeginAsset(g) \/ MosaicMade(g)
    \/ AssetWritten(g) \/ PlaceAsset(g) \/ AssetCopied(g) \/ ClearFlag(g) \/ GebcoUnwinds(g)

-----------------------------------------------------------------------------

GebcoTypeOK ==
    /\ building \in BOOLEAN /\ asking \subseteq Layers
    /\ gpc \in [GebcoThreads -> GebcoPcs]
    /\ stage \in [GebcoThreads -> Assets]
    /\ out \in [Assets -> {"absent", "part", "whole"}]
    /\ tmp \in [Assets -> {"absent", "part", "whole"}]

\* A build thread has a command only where it waits for it, or died over it.
GebcoCommands ==
    \A g \in GebcoThreads :
        gpc[g] \notin {"mosaic", "write", "died"} => cmd[g] = "idle"

\* With one layer there is one build at a time: the flag is up while it is on its
\* way, and the layer that found the flag clear is the only one to raise it.
OneLayer == \A l, m \in Layers : l = m
Active(g) == gpc[g] \notin {"idle", "died"}
OneBuild ==
    /\ asking # {} => ~building
    /\ \A g \in GebcoThreads : Active(g) => building
    /\ \A g, h \in GebcoThreads : Active(g) /\ Active(h) => g = h
    /\ \A g \in GebcoThreads :
          /\ gpc[g] = "mosaic" => stage[g] = Preview
          /\ gpc[g] = "write" => tmp[stage[g]] = "part"
          /\ gpc[g] \in {"checked", "copy"} => tmp[stage[g]] = "whole"
    /\ faults = 0 => \A a \in Assets : out[a] # "part"

\* mod.rs: missing files "are built in a background thread and `None` is
\* returned until complete".  A file in place is handed out, so as long as
\* nothing goes wrong it must be complete.  It is when one layer is shown; two
\* layers can both find the flag clear.
HandedOutWhenComplete ==
    faults = 0 => \A a \in Assets : out[a] # "part"

\* An asset left half copied, with nobody to complete it: its path exists, so it is
\* never made again.
TornAsset(a) ==
    /\ out[a] = "part"
    /\ \A g \in GebcoThreads : ~(gpc[g] \in {"write", "copy"} /\ stage[g] = a)

\* The assets a layer waits for are there in the end and complete, however often the
\* build fails, unless the program exits, a build panics and leaves the flag set, or a
\* copy in place fails half way and leaves one of them, or the preview, torn for good.
AssetsArrive ==
    \/ <>(out[DepthBil] = "whole" /\ out[ContoursGpkg] = "whole")
    \/ <>shutdown
    \/ <>(\E g \in GebcoThreads : gpc[g] = "died")
    \/ <>(\E a \in Assets : TornAsset(a))

=============================================================================
