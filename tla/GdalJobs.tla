------------------------------ MODULE GdalJobs -------------------------------
(***************************************************************************)
(* Lunar builds and the GEBCO build side by side.  They share the registry *)
(* of GDAL processes and the shutdown flag, and exit stops both.           *)
(***************************************************************************)
EXTENDS LunarChunk, GebcoDerived

CONSTANTS
    Moon,      \* the Moon's contours, as one of the things the map shows
    Choices    \* BOUND: what the map may show in a behaviour

VARIABLE shown

ASSUME ThreadsAssumption ==
    /\ LunarThreads \cap GebcoThreads = {}
    /\ Threads = LunarThreads \cup GebcoThreads
    /\ Choices \subseteq SUBSET (Layers \cup {Moon})

vars == <<processVars, lunarVars, gebcoVars, shown>>

Init == ProcessInit /\ LunarInit /\ GebcoInit /\ shown \in Choices

\* The input of the command that t runs is not complete.
InputTorn(t) ==
    \/ t \in LunarThreads /\ CropFails(t)
    \/ t \in GebcoThreads /\ DerivationFails(t)

Running == exit # "gone"
RunCommand(t) == Running /\ RunStep(t) /\ UNCHANGED <<lunarVars, gebcoVars, shown>>
ProcessEnds(t) ==
    /\ IF InputTorn(t) THEN ChildRejects(t) ELSE ChildEnds(t)
    /\ UNCHANGED <<lunarVars, gebcoVars, shown>>
ProcessBreaks(t) == ChildBreaks(t) /\ UNCHANGED <<lunarVars, gebcoVars, shown>>
Exit ==
    /\ RequestExit \/ TerminateActiveGdalJobs \/ ProgramEnds
    /\ UNCHANGED <<lunarVars, gebcoVars, shown>>
LunarJob(t) == Running /\ Moon \in shown /\ LunarStep(t) /\ UNCHANGED <<gebcoVars, shown>>
LayerJob(l) == Running /\ l \in shown /\ LayerStep(l) /\ UNCHANGED <<lunarVars, shown>>
GebcoJob(g) == Running /\ GebcoStep(g) /\ UNCHANGED <<lunarVars, shown>>

\* After the end of the program nothing more may happen.
Exited == ~Running /\ UNCHANGED vars

Next ==
    \/ \E t \in Threads : RunCommand(t) \/ ProcessEnds(t) \/ ProcessBreaks(t)
    \/ \E t \in LunarThreads : LunarJob(t)
    \/ \E l \in Layers : LayerJob(l)
    \/ \E g \in GebcoThreads : GebcoJob(g)
    \/ Exit
    \/ Exited

Spec == Init /\ [][Next]_vars

\* Threads are scheduled preemptively, layers poll every second while they are
\* shown, a failed tile is scheduled again after its cooldown, and processes
\* end or are killed when their time-out has passed.  Nothing makes the user
\* exit, and nothing has to go wrong.
Fairness ==
    /\ \A t \in Threads : WF_vars(RunCommand(t)) /\ WF_vars(ProcessEnds(t))
    /\ \A t \in LunarThreads : WF_vars(LunarJob(t))
    /\ \A l \in Layers : WF_vars(LayerJob(l))
    /\ \A g \in GebcoThreads : WF_vars(GebcoJob(g))
    /\ WF_vars(Exit /\ exit # "no")
FairSpec == Spec /\ Fairness

TypeOK == ProcessTypeOK /\ LunarTypeOK /\ GebcoTypeOK

\* Whatever threads and processes do beside it, a chunk has its one extractor; the
\* other parts say why.
IInv ==
    /\ TypeOK /\ ProcessShape /\ CommandsSucceed(LunarThreads) /\ LunarCommands /\ GebcoCommands
    /\ ClaimsAreExclusive /\ OneExtractor /\ UndisturbedShape
    /\ OneLayer => OneBuild

\* What a layer or the Moon waits for comes whenever it is shown.
ShownTilesGetBuilt == Moon \in shown => TilesGetBuilt
ShownAssetsArrive == shown \cap Layers # {} => AssetsArrive

=============================================================================
