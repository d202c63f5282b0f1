------------------------------ MODULE CacheBuild ------------------------------
(***************************************************************************)
(* A cache build of the builder program: the node pass, the way pass and   *)
(* the boundaries, one build at a time, started again by the user after it *)
(* stopped, failed or was killed.                                          *)
(***************************************************************************)
EXTENDS AdminPass

vars == <<planet, job, run, scene, trouble, nodeVars, wayVars, adminVars>>

\* Only a flat build that has its nodes, or a focused one, skips the first pass.
Start(j) ==
    /\ at("off") /\ Works
    /\ j \in scene.requests
    /\ job' = j
    /\ goto(IF (j.mode = "flat" /\ cp.done) \/ (j.mode = "bbox" /\ cand.complete)
            THEN "openWays" ELSE "openNodes")
    /\ UNCHANGED <<nodeVars, wayVars, adminVars>>

\* The program ends anywhere: of the nodes handed to the file some are there.
Crash ==
    /\ ~at("off") /\ Disturb /\ UNCHANGED planet /\ Stop
    /\ \/ \E c \in run.pending : CellsCut(c)
       \/ UNCHANGED <<cells, lost>>
    /\ IF job.mode = "flat" /\ run.pc \in {"readNodes", "writeNodes"}
       THEN \E n \in 0..Len(run.nodes) : nodeFile' = nodeFile \o SubSeq(run.nodes, 1, n)
       ELSE UNCHANGED nodeFile
    /\ UNCHANGED <<cp, index, cand, promised, adminVars>>

Replace ==
    /\ ReplacePlanet
    /\ UNCHANGED <<job, run, nodeVars, wayVars, adminVars>>

Build ==
    \/ NodeStep /\ UNCHANGED <<wayVars, adminVars>>
    \/ WayStep /\ UNCHANGED adminVars
    \/ AdminStep

Init == PlanetInit /\ NodeInit /\ WayInit /\ AdminInit
Next == (\E j \in scene.requests : Start(j)) \/ Build \/ Crash \/ Replace
Spec == Init /\ [][Next]_vars

\* A build runs; a user who was asked for one tries again until it is done.
Fairness == WF_vars(Build) /\ WF_vars(\E j \in scene.requests : Start(j))
FairSpec == Spec /\ Fairness

--------------------------------------------------------------------------------

TypeOK == PlanetTypeOK /\ NodeTypeOK /\ WayTypeOK /\ AdminTypeOK

\* Whatever a compact build or an import saves comes from the file of its index.
OneSource ==
    (\A j \in scene.requests : j.mode \in {"compact", "import"}) =>
        /\ \A c \in Cells : \A f \in cells[c] : f.from = index.source
        /\ \A x \in assembly.regions : x.from = index.source

\* The stages of a build: its three passes.
NodeStages == {"openNodes", "readNodes", "writeNodes", "saveNodes", "sortNodes", "markSorted",
               "markIndexed", "bind", "markComplete"}
WayStages == {"openWays", "readWays", "writeCells"}
ScanStages == {"openScan", "readScan", "saveScan", "saveScanOffset", "markScan"}
FlatStages == {"readNodes", "writeNodes", "saveNodes", "sortNodes", "markSorted"}
AdminStages == ScanStages \cup {"prepareAdmin", "openAssembly", "republish", "assemble",
                                "publish", "writeLevels", "finish"}
Indexed == {"compact", "import"}

RunShape ==
    DOMAIN run = DOMAIN NoRun /\ run.pos \in Nat /\ run.from \in Nat
PlaceShape ==
    /\ DOMAIN cp = {"offset", "count", "done", "ways"} /\ DOMAIN cand = DOMAIN NoCandidates
    /\ DOMAIN index = DOMAIN NoIndex
    /\ cp.offset \in Nat /\ cp.ways \in Nat /\ cand.offset \in Nat /\ cand.ways \in Nat
    /\ index.offset \in Nat /\ index.ways \in Nat /\ index.source \in Nat
WorldShape ==
    /\ scene \in Cases /\ planet \in Nat /\ planet > 0
    /\ job = NoJob \/ job \in scene.requests
Scanned ==
    [source : Nat, saved : [relations : SUBSET Relations, members : SUBSET Ways],
     offset : [relations : Nat, members : Nat], done : [relations : BOOLEAN, members : BOOLEAN]]
OutputShape ==
    /\ adm \in [{"bbox", "planet"} -> Scanned]
    /\ DOMAIN cells = Cells /\ DOMAIN published = Levels
    /\ promised \in [Builders -> SUBSET Ways]

\* Which build gets where, and what is known there.
StageShape ==
    /\ at("off") <=> job = NoJob
    /\ run.pc \in {"off"} \cup NodeStages \cup WayStages \cup AdminStages
    /\ run.pc \in {"saveNodes", "sortNodes", "markSorted"} => job.mode = "flat"
    /\ run.pc \in {"markIndexed", "bind"} => job.mode \in Indexed
    /\ at("markComplete") => job.mode = "bbox"
    /\ run.pc \in WayStages => job.mode # "import"
    /\ job.mode = "flat" => (cp.done <=> run.pc \in WayStages \cup AdminStages)
    /\ job.mode \in Indexed /\ ~at("openNodes") =>
          /\ index.source > 0
          /\ index.indexed <=> run.pc \in {"bind"} \cup WayStages \cup AdminStages
    /\ cp.ways > 0 => cp.done
    /\ index.ways > 0 => index.indexed
Shape == RunShape /\ PlaceShape /\ WorldShape /\ OutputShape /\ StageShape

\* Of the ways a planet build has passed, those all runs asked for are in their files,
\* or among what it holds and has still to write.
Gathered ==
    ~lost /\ run.pc \in {"readWays", "writeCells"} /\ job.mode \in {"flat", "compact"} =>
        /\ promised[job.mode] \subseteq job.layers
        /\ \A w \in WaysIn(0, run.pos) \cap promised[job.mode] :
              Cardinality(RefsOf[w] \cap Known) >= 2 =>
                  \A c \in CellsOf[w] :
                      \/ w \in Ids(cells[c])
                      \/ w \in Ids(run.features) /\ (at("writeCells") => c \in run.pending)

\* What a scan finds between two places, if it looks for everything.
Here(a, b) == IF Scan = "relations" THEN RelationsIn(a, b) ELSE WaysIn(a, b)
MembersWanted(a) == UNION {MembersOf[r] : r \in a.saved.relations}

\* A scan has stored what lies in front of its place, and nothing that is not there;
\* members are looked for when all relations are known.
ScanHolds(a) ==
    /\ RelationsIn(0, a.offset.relations) \subseteq a.saved.relations
    /\ a.saved.relations \subseteq RelationsIn(0, End)
    /\ WaysIn(0, a.offset.members) \cap MembersWanted(a) \subseteq a.saved.members
    /\ a.saved.members \subseteq WaysIn(0, End) \cap MembersWanted(a)
    /\ ~a.done.relations => ~a.done.members /\ a.saved.members = {} /\ a.offset.members = 0
    /\ a.done.relations => RelationsIn(0, End) \subseteq a.saved.relations
    /\ a.done.members => WaysIn(0, End) \cap MembersWanted(a) \subseteq a.saved.members
Scanning ==
    /\ \A s \in {"bbox", "planet"} : ScanHolds(adm[s])
    /\ run.last => run.pc \in {"writeCells", "saveScan", "markScan"}
    /\ run.pc \in ScanStages =>
        /\ Scan \in {"relations", "members"} /\ ~Adm.done[Scan]
        /\ Scan = "members" => Adm.done.relations
        /\ run.found \subseteq Here(0, End) \cap Wanted
        /\ run.pc \in {"readScan", "saveScan", "saveScanOffset"} =>
              Here(0, run.pos) \cap Wanted \subseteq Adm.saved[Scan] \cup run.found
        /\ at("saveScanOffset") => run.found = {}
        /\ at("saveScan") /\ run.last => run.pos = End
        /\ at("markScan") => Here(0, End) \cap Wanted \subseteq Adm.saved[Scan]

\* Nothing is saved under a file the reader did not have open.
Bound ==
    (\A j \in scene.requests : j.mode \in Indexed) =>
        /\ index.source <= planet
        /\ index.source = 0 =>
              assembly.regions = {} /\ run.features = {} /\ \A c \in Cells : cells[c] = {}
        /\ \A f \in run.features : f.from = index.source
        /\ run.pc \in {"readWays", "writeCells"} => index.source <= run.from /\ run.from <= planet
        /\ run.pc \in ScanStages \cup {"openAssembly", "republish", "assemble", "publish"} =>
              index.source <= Adm.source /\ Adm.source <= planet

\* The block index has the nodes in front of its place, and the batch those behind it.
Indexing ==
    /\ run.nodes \in Seq(Nat)
    /\ run.pc \notin {"readNodes", "writeNodes"} => run.nodes = <<>>
    /\ index.blocks = NodeIds(0, index.offset)
    /\ index.indexed => index.offset = End
    /\ job.mode \in Indexed =>
        /\ run.pc \in {"readNodes", "writeNodes"} =>
              index.offset <= run.pos /\ ToSet(run.nodes) = NodeIds(index.offset, run.pos)
        /\ at("markIndexed") => index.offset = End

\* All runs of a compact build ask for the same, so that what one has promised the
\* next one owes.
Bargain ==
    /\ index.done => index.indexed /\ index.source > 0
    /\ index.build = NoJob => index.ways = 0 /\ ~index.done
    /\ index.ways > 0 => index.build.layers \subseteq promised["compact"]
    /\ job.mode = "compact" /\ run.pc \in WayStages \cup AdminStages => index.build = job
    /\ job.mode = "compact" /\ run.pc \in {"readWays", "writeCells"} =>
          job.layers \subseteq promised["compact"]

\* Once the way pass of a compact build is over, its layers are in their files.
Drawing ==
    /\ at("writeCells") /\ run.last => run.pos = End
    /\ ~lost /\ (index.done \/ (job.mode = "compact" /\ run.pc \in AdminStages)) =>
          \A w \in WaysIn(0, End) \cap index.build.layers : Covered(w, index.blocks)

\* Compact builds draw a way from all its nodes.
Exact ==
    (\A j \in scene.requests : j.mode \in Indexed) =>
        \A f \in run.features \cup UNION {cells[c] : c \in Cells} :
            f.points = RefsOf[f.way] \cap NodeIds(0, End)

\* A region is put together and published.
Shown(r) ==
    /\ \E x \in assembly.regions : x.relation = r
    /\ \E x \in published[LevelOf[r]] : x.relation = r

\* The boundaries of a planet build are of no older file than its index.
Dated ==
    /\ index.source <= planet /\ adm["planet"].source <= planet
    /\ index.done /\ index.build.admin => index.source <= adm["planet"].source
    /\ job.mode \in Indexed /\ job.admin /\ run.pc \in AdminStages \ {"prepareAdmin"} =>
          index.source <= adm["planet"].source

\* A planet build puts the boundaries together and publishes them, level by level.
Assembling ==
    /\ DOMAIN assembly = {"source", "regions"}
    /\ run.pc \in AdminStages \ {"prepareAdmin", "finish"} => job.admin
    /\ at("writeLevels") => job.mode = "bbox"
    /\ run.pc \in {"openAssembly", "republish", "assemble", "publish"} =>
          job.mode # "bbox" /\ adm["planet"].done.relations
    /\ run.pc \in {"republish", "assemble", "publish"} =>
          assembly.source = adm["planet"].source /\ run.level \in Levels
    /\ run.pc \in {"assemble", "publish"} =>
          \A r \in adm["planet"].saved.relations : LevelOf[r] < run.level => Shown(r)
    /\ job.mode # "bbox" /\ job.admin /\ at("finish") =>
          assembly.source = adm["planet"].source /\ \A r \in RelationsIn(0, End) : Shown(r)

\* What a finished build has published stays so until a newer file is scanned.
Presented ==
    index.done /\ index.build.admin /\ adm["planet"].source = index.source =>
        assembly.source = index.source /\ \A r \in RelationsIn(0, End) : Shown(r)

\* What every build relies on when it resumes, whatever happened to those before it:
\* saved places are behind the output they promise, a finished scan saw everything, and
\* nothing is left of an earlier file; and what a compact build relies on for its end.
Resumes ==
    /\ Shape /\ Scanning /\ Gathered /\ OffsetCoversOutput /\ Bound
    /\ ScansAreWhole /\ OneSource
Completes == Indexing /\ Bargain /\ Drawing /\ Exact /\ Dated /\ Assembling /\ Presented
IInv == Resumes /\ Completes

\* A flat build has in its file what lies in front of its place, and holds what lies
\* behind; before it sorts the file everything is there.
Filing ==
    /\ cp.count \in Nat
    /\ job.mode = "flat" =>
        /\ run.pc \in {"readNodes", "writeNodes"} =>
              /\ cp.offset <= run.pos /\ run.nodes = NodesIn(cp.offset, run.pos)
              /\ Reorders(nodeFile, NodesIn(0, cp.offset))
        /\ at("saveNodes") => Reorders(nodeFile, NodesIn(0, run.pos))
        /\ run.pc \in {"sortNodes", "markSorted"} =>
              /\ cp.offset = End /\ cp.count = Len(nodeFile)
              /\ Reorders(nodeFile, NodesIn(0, End))
        /\ at("markSorted") => nodeFile = Sorted(NodesIn(0, End))

\* A focused build has the nodes inside its bounds, up to its place; it looks for nodes
\* as long as it does not have them all.
Choosing ==
    job.mode = "bbox" =>
        /\ run.pc \in NodeStages => ~cand.complete
        /\ run.pc \in {"readNodes", "writeNodes", "markComplete"} =>
              cand.nodes = NodeIds(0, cand.offset) \cap Bounds
        /\ run.pc \in {"readNodes", "writeNodes"} =>
              cand.offset <= run.pos /\ ToSet(run.nodes) = NodeIds(cand.offset, run.pos)
        /\ at("markComplete") => cand.offset = End

\* What is read is of a file that was there.
Dates ==
    /\ run.pc \in {"readWays", "writeCells"} => run.from > 0
    /\ run.pc \in AdminStages \ {"prepareAdmin", "finish"} => Adm.source > 0

\* The saved places of the node pass are behind their data.
NodesHold == TypeOK /\ Dates /\ NodeCheckpointsHold /\ Filing /\ Choosing

\* A compact build that says it is done left every way of its layers that can be
\* drawn, unless a write was cut short or a file that could not be read was written
\* over, with all its nodes and from the one file its
\* index is bound to, where no other kind of build has drawn it before; and every
\* boundary, until a newer file is scanned for them.
DoneIsWhole ==
    index.done =>
        /\ ~lost =>
            \A w \in WaysIn(0, End) \cap index.build.layers :
                LET points == RefsOf[w] \cap NodeIds(0, End)
                IN  Cardinality(points) >= 2 =>
                      \A c \in CellsOf[w] : \E f \in cells[c] :
                          /\ f.way = w
                          /\ (\A j \in scene.requests : j.mode \in Indexed) =>
                                f.points = points /\ f.from = index.source
        /\ index.build.admin /\ adm["planet"].source = index.source =>
              \A r \in RelationsIn(0, End) : \E x \in published[LevelOf[r]] : x.relation = r

\* A build that is asked for again whenever it failed or was killed comes to its
\* end, unless its file is replaced or its index was left half made, which is refused
\* ever after; compact builds need a file in order.
BuildsFinish ==
    (/\ Cardinality(scene.requests) = 1
     /\ Ascending(NodesIn(0, End)) \/ \A j \in scene.requests : j.mode \in {"flat", "bbox"})
        ~> (at("finish") \/ planet # 1 \/ index.broken)

=============================================================================
