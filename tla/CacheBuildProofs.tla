-------------------------- MODULE CacheBuildProofs --------------------------
(***************************************************************************)
(* Proofs about a cache build.  The records keep their fields and each     *)
(* build its stages; on that rest, one after another, what the way pass,   *)
(* the scans and the source of the data need.                              *)
(***************************************************************************)
EXTENDS CacheBuild, SequenceTheorems, WellFoundedInduction, TLAPS

-----------------------------------------------------------------------------
(* The constants and the records.                                          *)

\* A running build is one of those the user may ask for.
LEMMA JobsAreBuilds ==
    ASSUME WorldShape, job # NoJob
    PROVE  job \in [mode : Builders, layers : SUBSET Ways, admin : BOOLEAN]
BY CasesAssumption DEF WorldShape

\* The file is a sequence of blobs with ways and relations.
LEMMA BlobsAreTyped ==
    ASSUME WorldShape
    PROVE  /\ End \in Nat /\ DOMAIN Blobs = 1 .. End
           /\ \A i \in DOMAIN Blobs : /\ Blobs[i].nodes \in Seq(Nat)
                                   /\ Blobs[i].ways \subseteq Ways /\ Blobs[i].relations \subseteq Relations
<1> DEFINE B == [nodes : Seq(Nat), ways : SUBSET Ways, relations : SUBSET Relations]
<1>1. Blobs \in Seq(B)
    BY CasesAssumption DEF WorldShape, Blobs
<1>2. \A b \in B : b.nodes \in Seq(Nat) /\ b.ways \subseteq Ways /\ b.relations \subseteq Relations
    OBVIOUS
<1> HIDE DEF B
<1>3. End \in Nat /\ DOMAIN Blobs = 1 .. End /\ \A i \in DOMAIN Blobs : Blobs[i] \in B
    BY <1>1 DEF End
<1> QED
    BY <1>2, <1>3

\* Between two places lies what is between the first and one in the middle, and
\* between that and the second.
LEMMA BetweenSplits ==
    ASSUME WorldShape, NEW m \in Nat, NEW b \in Nat, m <= b
    PROVE  /\ WaysIn(0, b) = WaysIn(0, m) \cup WaysIn(m, b)
           /\ RelationsIn(0, b) = RelationsIn(0, m) \cup RelationsIn(m, b)
<1>1. Between(0, b) = Between(0, m) \cup Between(m, b)
    BY BlobsAreTyped DEF Between
<1> QED
    BY <1>1 DEF WaysIn, RelationsIn

\* The fields of a run.
LEMMA Fields ==
    /\ DOMAIN NoRun = {"pc", "from", "pos", "last", "nodes", "features", "rest", "pending",
                       "what", "found", "level"}
    /\ NoRun.pc = "off" /\ NoRun.from = 0 /\ NoRun.pos = 0
    /\ NoRun.last = FALSE /\ NoRun.features = {} /\ NoRun.pending = {} /\ NoRun.found = {}
BY DEF NoRun

\* A step that does not end the build goes on with the same file, at a known stage.
GoesOn(stages) ==
    /\ UNCHANGED <<job, planet, scene>> /\ run'.pc \in stages
    /\ DOMAIN run' = DOMAIN NoRun /\ run'.pos \in Nat /\ run'.from \in Nat
Ends == Stop /\ UNCHANGED <<planet, scene>>


\* An index is opened for the file it is bound to, if to any, or the build is over.
LEMMA IndexOpens ==
    ASSUME PlaceShape, OpenIndex
    PROVE  /\ UNCHANGED <<planet, scene, nodeFile, cp, cand>> /\ run.pc = "openNodes"
           /\ job.mode \in {"compact", "import"} /\ DOMAIN index' = DOMAIN index
           /\ UNCHANGED <<index.offset, index.blocks, index.indexed, index.build, index.done, index.ways>>
           /\ index'.source = index.source \/ (index.source = 0 /\ index'.source = planet)
           /\ \/ Stop
              \/ /\ UNCHANGED job /\ index'.source = planet
                 /\ run' = [run EXCEPT !.pc = IF index.indexed THEN "bind" ELSE "readNodes",
                                       !.from = planet, !.pos = index.offset]
<1>1. DOMAIN index = {"source", "offset", "blocks", "indexed", "build", "done", "ways", "broken"}
    BY DEF PlaceShape, NoIndex
<1>2. UNCHANGED <<planet, scene, nodeFile, cp, cand>>
    BY DEF OpenIndex, Works, Fails, Disturb
<1>3. run.pc = "openNodes" /\ job.mode \in {"compact", "import"}
    BY DEF OpenIndex, at
<1>4. \/ UNCHANGED index
      \/ index.source = 0 /\ index' = [index EXCEPT !.source = planet]
      \/ index' = [index EXCEPT !.broken = TRUE]
    BY DEF OpenIndex
<1>5. CASE Stop
    BY <1>1, <1>2, <1>3, <1>4, <1>5
<1>6. CASE ~Stop
    <2>1. SameSource(index'.source) /\ UNCHANGED job
          /\ run' = [run EXCEPT !.pc = IF index.indexed THEN "bind" ELSE "readNodes",
                                !.from = planet, !.pos = index.offset]
        BY <1>6 DEF OpenIndex, Fails
    <2>2. index'.source = planet
        BY <1>2, <1>3, <2>1 DEF SameSource
    <2> QED
        BY <1>1, <1>2, <1>3, <1>4, <2>1, <2>2
<1> QED
    BY <1>5, <1>6

\* A cell file is written, over what could not be read or not, or the build is over.
LEMMA CellWritten ==
    ASSUME NEW c, WriteCell(c)
    PROVE  /\ UNCHANGED <<planet, scene, nodeVars, promised>> /\ run.pc = "writeCells"
           /\ \/ /\ UNCHANGED job /\ run' = [run EXCEPT !.pending = @ \ {c}]
                 /\ \/ /\ cells' = [cells EXCEPT ![c] = Merged(c, {f \in run.features : c \in CellsOf[f.way]})]
                       /\ UNCHANGED lost
                    \/ /\ cells' = [cells EXCEPT ![c] = {f \in run.features : c \in CellsOf[f.way]}]
                       /\ lost' = TRUE
              \/ /\ Stop
                 /\ \/ UNCHANGED <<cells, lost>>
                    \/ cells' = [cells EXCEPT ![c] = {}] /\ lost' = TRUE
<1> DEFINE gathered == {f \in run.features : c \in CellsOf[f.way]}
           new == Merged(c, gathered)
<1>1. /\ at("writeCells") /\ UNCHANGED <<nodeVars, promised>>
      /\ \/ /\ \/ Works /\ cells' = [cells EXCEPT ![c] = new] /\ UNCHANGED lost
               \/ WrittenOver(c, gathered)
            /\ run' = [run EXCEPT !.pending = @ \ {c}] /\ UNCHANGED job
         \/ /\ Fails
            /\ UNCHANGED <<cells, lost>> \/ (cells' = [cells EXCEPT ![c] = {}] /\ lost' = TRUE)
    BY DEF WriteCell
<1> HIDE DEF new
<1>2. WrittenOver(c, gathered) =>
        UNCHANGED <<planet, scene>> /\ cells' = [cells EXCEPT ![c] = gathered] /\ lost' = TRUE
    BY DEF WrittenOver, Disturb
<1> HIDE DEF gathered
<1>3. UNCHANGED <<planet, scene>> /\ run.pc = "writeCells"
    BY <1>1, <1>2 DEF Works, Fails, Disturb, at
<1> QED
    BY <1>1, <1>2, <1>3 DEF Fails, new, gathered

\* A step of the node pass ends the build or goes on in the pass or behind it.
LEMMA NodeFlow ==
    ASSUME RunShape, PlaceShape, WorldShape, NodeStep
    PROVE  Ends \/ (GoesOn(NodeStages \cup {"openWays", "prepareAdmin"}) /\ run'.last = run.last /\ run'.features = run.features)
<1> DEFINE G == Ends \/ (GoesOn(NodeStages \cup {"openWays", "prepareAdmin"}) /\ run'.last = run.last /\ run'.features = run.features)
<1>0. /\ DOMAIN run = DOMAIN NoRun /\ run.pos \in Nat /\ run.from \in Nat /\ planet \in Nat
      /\ cp.offset \in Nat /\ index.offset \in Nat /\ cand.offset \in Nat /\ DOMAIN Blobs \subseteq Nat
      /\ DOMAIN index = DOMAIN NoIndex /\ NoCandidates.offset = 0
    BY BlobsAreTyped DEF RunShape, PlaceShape, WorldShape, NoCandidates
<1>1. CASE OpenNodeFile
    <2>1. CASE UNCHANGED job /\ run' = [run EXCEPT !.pc = "readNodes", !.from = planet, !.pos = cp.offset]
        <3>1. /\ DOMAIN run' = DOMAIN run /\ run'.from = planet /\ run'.pos = cp.offset
              /\ run'.pc = "readNodes" /\ run'.last = run.last /\ run'.features = run.features
            BY <1>0, <2>1, Fields
        <3> QED
            BY <1>0, <1>1, <2>1, <3>1 DEF OpenNodeFile, Works, GoesOn, NodeStages
    <2> QED
        BY <1>1, <2>1 DEF OpenNodeFile, Works, Ends
<1>2. CASE OpenIndex
    <2>1. UNCHANGED <<planet, scene>>
        BY <1>2, IndexOpens
    <2>2. CASE UNCHANGED job /\ run' = [run EXCEPT !.pc = IF index.indexed THEN "bind" ELSE "readNodes",
                                  !.from = planet, !.pos = index.offset]
        <3>1. /\ DOMAIN run' = DOMAIN run /\ run'.from = planet /\ run'.pos = index.offset
              /\ run'.pc \in {"bind", "readNodes"} /\ run'.last = run.last /\ run'.features = run.features
            BY <1>0, <2>2, Fields
        <3> QED
            BY <1>0, <2>1, <2>2, <3>1 DEF GoesOn, NodeStages
    <2> QED
        BY <1>2, <2>1, <2>2, IndexOpens DEF Ends
<1>3. CASE OpenCandidates
    BY <1>3, <1>0, Fields DEF OpenCandidates, GoesOn, Ends, Works, Disturb, Stop, NodeStages
<1>4. CASE EndOfNodes
    BY <1>4, <1>0, Fields DEF EndOfNodes, goto, GoesOn, Ends, Works, Disturb, Stop, NodeStages
<1>5. CASE WriteNodes
    BY <1>5, <1>0, Fields DEF WriteNodes, Fails, GoesOn, Ends, Works, Disturb, Stop, NodeStages
<1>6. CASE SaveNodeOffset
    BY <1>6, <1>0, Fields DEF SaveNodeOffset, goto, GoesOn, Ends, Works, Disturb, Stop, NodeStages
<1>7. CASE SortNodes
    BY <1>7, <1>0, Fields DEF SortNodes, Fails, goto, GoesOn, Ends, Works, Disturb, Stop, NodeStages
<1>8. CASE MarkSorted
    BY <1>8, <1>0, Fields DEF MarkSorted, goto, GoesOn, Ends, Works, Disturb, Stop, NodeStages
<1>9. CASE CommitBlocks
    <2>1. CASE Works /\ UNCHANGED job /\ run' = [run EXCEPT !.pc = "readNodes", !.nodes = <<>>]
        <3>1. /\ DOMAIN run' = DOMAIN run /\ run'.from = run.from /\ run'.pos = run.pos
              /\ run'.pc = "readNodes" /\ run'.last = run.last /\ run'.features = run.features
            BY <1>0, <2>1, Fields
        <3> QED
            BY <1>0, <2>1, <3>1 DEF GoesOn, Works, NodeStages
    <2> QED
        BY <1>9, <2>1 DEF CommitBlocks, Works, Fails, Disturb, Ends
<1>10. CASE MarkIndexed
    BY <1>10, <1>0, Fields DEF MarkIndexed, goto, GoesOn, Ends, Works, Disturb, Stop, NodeStages
<1>11. CASE BindBuild
    BY <1>11, <1>0, Fields DEF BindBuild, goto, GoesOn, Ends, Works, Disturb, Stop, NodeStages
<1>12. CASE CommitCandidates
    BY <1>12, <1>0, Fields DEF CommitCandidates, Fails, GoesOn, Ends, Works, Disturb, Stop, NodeStages
<1>13. CASE CompleteCandidates
    BY <1>13, <1>0, Fields DEF CompleteCandidates, goto, GoesOn, Ends, Works, Disturb, Stop, NodeStages
<1>14. CASE ReadNodes
    <2>1. CASE Fails
        BY <1>14, <2>1 DEF Fails, Disturb, Ends
    <2>2. CASE Works /\ Stop
        BY <1>14, <2>2 DEF Works, Ends
    <2>3. ASSUME NEW pc \in {"readNodes", "writeNodes"}, NEW nodes, Works, UNCHANGED job,
                 run' = [run EXCEPT !.pos = run.pos + 1, !.nodes = nodes, !.pc = pc]
          PROVE  G
        BY <2>3, <1>0, Fields DEF Works, GoesOn, NodeStages
    <2> QED
        BY <1>14, <2>1, <2>2, <2>3 DEF ReadNodes
<1> QED
    BY <1>1, <1>2, <1>3, <1>4, <1>5, <1>6, <1>7, <1>8, <1>9, <1>10, <1>11, <1>12, <1>13, <1>14 DEF NodeStep


\* What is saved keeps its shape, and the first pass leaves the place of the second.
LEMMA NodePlaces ==
    ASSUME RunShape, PlaceShape, WorldShape, NodeStep
    PROVE  PlaceShape' /\ cp'.ways = cp.ways /\ index'.ways = index.ways
<1> DEFINE G == PlaceShape' /\ cp'.ways = cp.ways /\ index'.ways = index.ways
<1>0. /\ PlaceShape /\ planet \in Nat /\ run.pos \in Nat
      /\ DOMAIN NoIndex = {"source", "offset", "blocks", "indexed", "build", "done", "ways", "broken"}
      /\ DOMAIN NoCandidates = {"nodes", "offset", "complete", "ways"}
      /\ NoCandidates.offset = 0 /\ NoCandidates.ways = 0
    BY DEF RunShape, WorldShape, NoIndex, NoCandidates
<1>1. CASE OpenNodeFile
    BY <1>1, <1>0 DEF OpenNodeFile, Stop, PlaceShape
<1>2. CASE OpenIndex
    BY <1>2, <1>0 DEF OpenIndex, Stop, PlaceShape
<1>3. CASE OpenCandidates
    BY <1>3, <1>0 DEF OpenCandidates, Stop, PlaceShape
<1>4. CASE EndOfNodes
    BY <1>4, <1>0 DEF EndOfNodes, goto, PlaceShape, nodeVars
<1>5. CASE WriteNodes
    BY <1>5, <1>0 DEF WriteNodes, Fails, Stop, PlaceShape
<1>6. CASE SaveNodeOffset
    BY <1>6, <1>0 DEF SaveNodeOffset, goto, PlaceShape
<1>7. CASE SortNodes
    BY <1>7, <1>0 DEF SortNodes, Fails, goto, Stop, PlaceShape
<1>8. CASE MarkSorted
    BY <1>8, <1>0 DEF MarkSorted, goto, PlaceShape
<1>9. CASE CommitBlocks
    BY <1>9, <1>0 DEF CommitBlocks, Fails, Stop, PlaceShape
<1>10. CASE MarkIndexed
    BY <1>10, <1>0 DEF MarkIndexed, goto, Stop, PlaceShape
<1>11. CASE BindBuild
    BY <1>11, <1>0 DEF BindBuild, goto, Stop, PlaceShape
<1>12. CASE CommitCandidates
    BY <1>12, <1>0 DEF CommitCandidates, Fails, Stop, PlaceShape
<1>13. CASE CompleteCandidates
    BY <1>13, <1>0 DEF CompleteCandidates, goto, PlaceShape
<1>14. CASE ReadNodes
    BY <1>14, <1>0 DEF ReadNodes, Fails, Stop, PlaceShape, nodeVars
<1> QED
    BY <1>1, <1>2, <1>3, <1>4, <1>5, <1>6, <1>7, <1>8, <1>9, <1>10, <1>11, <1>12, <1>13, <1>14 DEF NodeStep


\* A build that ends is at no stage.
LEMMA StopStaging ==
    ASSUME StageShape, Stop, UNCHANGED <<cp, index.ways, index.indexed>>
    PROVE  StageShape'
BY Fields DEF StageShape, Stop, NoJob, at, Indexed

\* Nothing is known of the nodes while they are read.
LEMMA ReadStaging ==
    ASSUME StageShape, run.pc \in {"openNodes", "readNodes", "writeNodes"},
           run'.pc \in {"readNodes", "writeNodes"},
           UNCHANGED <<job, cp.done, cp.ways, index.indexed, index.ways>>,
           at("openNodes") /\ job.mode \in Indexed => ~index.indexed,
           job.mode \in Indexed => index'.source > 0
    PROVE  StageShape'
BY DEF StageShape, NodeStages, WayStages, AdminStages, ScanStages, at

\* The first pass keeps to the stages of its kind of build.
LEMMA NodeStaging ==
    ASSUME RunShape, PlaceShape, WorldShape, StageShape, NodeStep
    PROVE  StageShape'
<1>0. /\ DOMAIN run = DOMAIN NoRun /\ DOMAIN cp = {"offset", "count", "done", "ways"}
      /\ DOMAIN index = {"source", "offset", "blocks", "indexed", "build", "done", "ways", "broken"}
      /\ planet > 0 /\ planet \in Nat /\ index.source \in Nat /\ NoJob.mode = "none"
      /\ job # NoJob => job.mode \in {"flat", "compact", "import", "bbox"}
    BY JobsAreBuilds DEF RunShape, PlaceShape, WorldShape, NoIndex, NoJob, Builders
<1>1. CASE OpenNodeFile
    <2>1. CASE Stop
        BY <1>1, <2>1, StopStaging DEF OpenNodeFile
    <2>2. CASE UNCHANGED job /\ run'.pc = "readNodes"
        BY <1>1, <2>2, ReadStaging DEF OpenNodeFile, at, Indexed
    <2> QED
        BY <1>1, <2>1, <2>2, <1>0, Fields DEF OpenNodeFile
<1>2. CASE OpenIndex
    <2>1. UNCHANGED <<cp, index.ways, index.indexed>> /\ run.pc = "openNodes"
        BY <1>2, IndexOpens
    <2>2. CASE Stop
        BY <2>1, <2>2, StopStaging
    <2>3. CASE UNCHANGED job /\ index'.source > 0 /\ index'.indexed /\ run'.pc = "bind"
        BY <1>2, <2>1, <2>3, StageShape DEF OpenIndex, StageShape, NodeStages, WayStages, Indexed, at
    <2>4. CASE UNCHANGED job /\ index'.source > 0 /\ ~index'.indexed /\ run'.pc = "readNodes"
        BY <1>2, <2>1, <2>4, ReadStaging DEF OpenIndex, at
    <2>5. CASE UNCHANGED job /\ index'.source = planet
               /\ run' = [run EXCEPT !.pc = IF index.indexed THEN "bind" ELSE "readNodes",
                                     !.from = planet, !.pos = index.offset]
        <3>1. run'.pc = IF index.indexed THEN "bind" ELSE "readNodes"
            BY <1>0, <2>5, Fields
        <3>2. index'.source > 0
            BY <1>0, <2>5
        <3> QED
            BY <2>1, <2>3, <2>4, <2>5, <3>1, <3>2
    <2> QED
        BY <1>2, <2>2, <2>5, IndexOpens
<1>3. CASE OpenCandidates
    BY <1>3, <1>0, Fields, StageShape DEF OpenCandidates, Stop, StageShape, NodeStages, WayStages, AdminStages, ScanStages, Indexed, Works, at
<1>4. CASE EndOfNodes
    BY <1>4, <1>0, Fields, StageShape DEF EndOfNodes, goto, StageShape, NodeStages, WayStages, AdminStages, ScanStages, Indexed, Works, at, nodeVars
<1>5. CASE WriteNodes
    <2>1. UNCHANGED <<cp, index>> /\ run.pc = "writeNodes" /\ job.mode = "flat"
        BY <1>5 DEF WriteNodes, at
    <2>2. CASE Stop
        BY <2>1, <2>2, StopStaging
    <2>3. CASE UNCHANGED job /\ run' = [run EXCEPT !.pc = "saveNodes", !.nodes = <<>>]
        <3>1. run'.pc = "saveNodes"
            BY <1>0, <2>3, Fields
        <3> QED
            BY <2>1, <2>3, <3>1, StageShape DEF StageShape, NodeStages, WayStages, AdminStages, ScanStages, Indexed, at
    <2> QED
        BY <1>5, <2>2, <2>3 DEF WriteNodes, Fails
<1>6. CASE SaveNodeOffset
    BY <1>6, <1>0, Fields, StageShape DEF SaveNodeOffset, goto, StageShape, NodeStages, WayStages, AdminStages, ScanStages, Indexed, Works, at
<1>7. CASE SortNodes
    BY <1>7, <1>0, Fields, StageShape DEF SortNodes, Fails, goto, Stop, StageShape, NodeStages, WayStages, AdminStages, ScanStages, Indexed, Works, at
<1>8. CASE MarkSorted
    BY <1>8, <1>0, Fields, StageShape DEF MarkSorted, goto, StageShape, NodeStages, WayStages, AdminStages, ScanStages, Indexed, Works, at
<1>9. CASE CommitBlocks
    <2>1. CASE Stop /\ UNCHANGED index
        BY <1>9, <2>1, StopStaging DEF CommitBlocks
    <2>2. CASE /\ index' = [index EXCEPT !.offset = run.pos, !.blocks = @ \cup ToSet(run.nodes)]
               /\ run' = [run EXCEPT !.pc = "readNodes", !.nodes = <<>>] /\ UNCHANGED job
        <3>1. /\ run.pc = "writeNodes" /\ run'.pc = "readNodes" /\ UNCHANGED <<job, cp>>
              /\ index'.indexed = index.indexed /\ index'.ways = index.ways /\ index'.source = index.source
            BY <1>9, <2>2, <1>0, Fields DEF CommitBlocks, at
        <3> QED
            BY <3>1, <1>0, StageShape, ReadStaging DEF StageShape, at
    <2> QED
        BY <1>9, <2>1, <2>2 DEF CommitBlocks, Fails
<1>10. CASE MarkIndexed
    BY <1>10, <1>0, Fields, StageShape DEF MarkIndexed, goto, Stop, StageShape, NodeStages, WayStages, AdminStages, ScanStages, Indexed, Works, at
<1>11. CASE BindBuild
    BY <1>11, <1>0, Fields, StageShape DEF BindBuild, goto, Stop, StageShape, NodeStages, WayStages, AdminStages, ScanStages, Indexed, Works, at
<1>12. CASE CommitCandidates
    <2>1. UNCHANGED <<cp, index>> /\ run.pc = "writeNodes" /\ job.mode = "bbox"
        BY <1>12 DEF CommitCandidates, at
    <2>2. CASE Stop
        BY <2>1, <2>2, StopStaging
    <2>3. CASE /\ UNCHANGED job
               /\ run' = [run EXCEPT !.nodes = <<>>,
                        !.pc = IF run.pos = End THEN "markComplete" ELSE "readNodes"]
        <3>1. run'.pc \in {"markComplete", "readNodes"}
            BY <1>0, <2>3, Fields
        <3> QED
            BY <2>1, <2>3, <3>1, StageShape DEF StageShape, NodeStages, WayStages, AdminStages, ScanStages, Indexed, at
    <2> QED
        BY <1>12, <2>2, <2>3 DEF CommitCandidates, Fails
<1>13. CASE CompleteCandidates
    BY <1>13, <1>0, Fields, StageShape DEF CompleteCandidates, goto, StageShape, NodeStages, WayStages, AdminStages, ScanStages, Indexed, Works, at
<1>14. CASE ReadNodes
    <2>1. CASE Stop
        BY <1>14, <2>1, StopStaging DEF ReadNodes, nodeVars
    <2>2. ASSUME NEW pc \in {"readNodes", "writeNodes"}, NEW nodes, UNCHANGED job,
                 run' = [run EXCEPT !.pos = run.pos + 1, !.nodes = nodes, !.pc = pc]
          PROVE  StageShape'
        BY <1>14, <2>2, <1>0, Fields, StageShape DEF ReadNodes, nodeVars, StageShape, NodeStages, WayStages, AdminStages, ScanStages, Indexed, Works, at
    <2> QED
        BY <1>14, <2>1, <2>2 DEF ReadNodes, Fails
<1> QED
    BY <1>1, <1>2, <1>3, <1>4, <1>5, <1>6, <1>7, <1>8, <1>9, <1>10, <1>11, <1>12, <1>13, <1>14 DEF NodeStep


-----------------------------------------------------------------------------
(* The second pass and the boundaries.                                     *)

LastShape == run.last => run.pc \in {"writeCells", "saveScan", "markScan"}

\* A step of the way pass comes from that pass, ends the build or goes on, and keeps the
\* last-flush flag in shape.
LEMMA WayFlow ==
    ASSUME RunShape, PlaceShape, WorldShape, WayStep
    PROVE  /\ run.pc \in WayStages
           /\ Ends \/ GoesOn({"readWays", "writeCells", "prepareAdmin"})
           /\ LastShape => LastShape'
<1> DEFINE G == /\ run.pc \in WayStages
                /\ Ends \/ GoesOn({"readWays", "writeCells", "prepareAdmin"})
                /\ LastShape => LastShape'
<1>0. /\ DOMAIN run = DOMAIN NoRun /\ run.pos \in Nat /\ run.from \in Nat /\ planet \in Nat
      /\ DOMAIN Blobs \subseteq Nat
    BY BlobsAreTyped DEF RunShape, PlaceShape, WorldShape
<1>1. CASE OpenWays
    <2>1. SavedPlace(job.mode) \in Nat
        BY DEF SavedPlace, PlaceShape
    <2> QED
        BY <1>1, <2>1, <1>0, Fields DEF OpenWays, goto, GoesOn, Works, WayStages, LastShape, at
<1>2. CASE ReadBlob
    <2>1. CASE Ends
        BY <1>2, <2>1, Fields DEF ReadBlob, Ends, Stop, WayStages, LastShape, at
    <2>2. CASE Works /\ UNCHANGED job /\ run' = [run EXCEPT !.pos = @ + 1,
                        !.rest = WaysIn(run.pos, run.pos + 1) \cap job.layers]
        BY <1>2, <2>2, <1>0, Fields DEF ReadBlob, GoesOn, Works, WayStages, LastShape, at
    <2> QED
        BY <1>2, <2>1, <2>2 DEF ReadBlob, Ends, Fails, Disturb
<1>3. CASE EndOfWays
    BY <1>3, <1>0, Fields DEF EndOfWays, Flushing, GoesOn, Ends, Works, Disturb, Stop, WayStages, LastShape, at
<1>4. CASE SaveWayOffset
    <2>1. run.pc = "writeCells" /\ UNCHANGED <<planet, scene>>
        BY <1>4 DEF SaveWayOffset, Works, at
    <2>2. CASE Stop
        BY <2>1, <2>2, Fields DEF Ends, Stop, WayStages, LastShape
    <2>3. CASE /\ UNCHANGED job
               /\ run' = [run EXCEPT !.features = {}, !.last = FALSE,
                                  !.pc = IF run.last THEN "prepareAdmin" ELSE "readWays"]
        <3>1. /\ DOMAIN run' = DOMAIN run /\ run'.from = run.from /\ run'.pos = run.pos
              /\ run'.pc \in {"prepareAdmin", "readWays"} /\ run'.last = FALSE
            BY <1>0, <2>3, Fields
        <3> QED
            BY <1>0, <2>1, <2>3, <3>1 DEF GoesOn, WayStages, LastShape
    <2> QED
        BY <1>4, <2>2, <2>3 DEF SaveWayOffset
<1>5. ASSUME NEW k \in DOMAIN Blobs, ReadWays(k)
      PROVE  G
    <2>1. CASE Ends
        BY <1>5, <2>1, Fields DEF ReadWays, Ends, Stop, WayStages, LastShape, at
    <2>2. ASSUME NEW features, NEW pending, NEW pc \in {"readWays", "writeCells"}, Works, UNCHANGED job,
                 run' = [run EXCEPT !.pos = k, !.features = features, !.pc = pc, !.pending = pending]
          PROVE  G
        BY <1>5, <2>2, <1>0, Fields DEF ReadWays, GoesOn, Works, WayStages, LastShape, at
    <2>3. ASSUME NEW features, Works, UNCHANGED job, run' = [run EXCEPT !.pos = k, !.features = features]
          PROVE  G
        BY <1>5, <2>3, <1>0, Fields DEF ReadWays, GoesOn, Works, WayStages, LastShape, at
    <2> QED
        BY <1>5, <2>1, <2>2, <2>3 DEF ReadWays, Flushing, Ends, Works, Fails, Disturb
<1>6. ASSUME NEW w \in run.rest, TakeWay(w)
      PROVE  G
    BY <1>6, <1>0, Fields DEF TakeWay, Flushing, GoesOn, Ends, Works, Disturb, Stop, WayStages, LastShape, at
<1>7. ASSUME NEW c \in run.pending, WriteCell(c)
      PROVE  G
    BY <1>7, <1>0, CellWritten, Fields DEF GoesOn, Ends, Stop, WayStages, LastShape
<1> QED
    BY <1>1, <1>2, <1>3, <1>4, <1>5, <1>6, <1>7 DEF WayStep

\* A step of the boundary pass comes from that pass, ends the build or goes on in it.
LEMMA AdminFlow ==
    ASSUME RunShape, PlaceShape, WorldShape, OutputShape, AdminStep, at("openScan") => Scan \in {"relations", "members"}
    PROVE  /\ run.pc \in AdminStages
           /\ Ends \/ (GoesOn(AdminStages) /\ run'.features = run.features)
           /\ LastShape => LastShape'
<1> DEFINE G == /\ run.pc \in AdminStages
                /\ Ends \/ (GoesOn(AdminStages) /\ run'.features = run.features)
                /\ LastShape => LastShape'
<1>0. /\ DOMAIN run = DOMAIN NoRun /\ run.pos \in Nat /\ run.from \in Nat /\ planet \in Nat
    BY BlobsAreTyped DEF RunShape, PlaceShape, WorldShape
<1>100. at("openScan") => Adm.offset[Scan] \in Nat
    BY DEF OutputShape, Scanned, Adm, Store
<1>1. CASE PrepareSource
    <2>1. run.pc = "prepareAdmin" /\ UNCHANGED <<planet, scene, job>>
        BY <1>1 DEF PrepareSource, Works, at
    <2>2. /\ DOMAIN run' = DOMAIN run /\ run'.from = run.from /\ run'.pos = run.pos
          /\ run'.pc \in {"finish", "openScan", "writeLevels", "openAssembly"}
          /\ run'.last = run.last /\ run'.features = run.features
        <3>1. CASE ~job.admin
            BY <1>0, <1>1, <3>1, Fields DEF PrepareSource, goto
        <3>2. CASE job.admin
            <4>1. run' = AfterScan(adm'[Store])
                BY <1>1, <3>2 DEF PrepareSource
            <4> QED
                BY <1>0, <4>1, Fields DEF AfterScan
        <3> QED
            BY <3>1, <3>2
    <2> QED
        BY <1>0, <2>1, <2>2 DEF GoesOn, AdminStages, ScanStages, LastShape
<1>2. CASE OpenScan
    BY <1>2, <1>0, <1>100, Fields DEF OpenScan, GoesOn, Ends, Works, Disturb, Stop, AdminStages, ScanStages, LastShape, at
<1>3. CASE ReadScan
    <2>1. CASE Ends
        BY <1>3, <2>1, Fields DEF ReadScan, Ends, Stop, AdminStages, ScanStages, LastShape, at
    <2>2. ASSUME NEW found, NEW pc \in {"readScan", "saveScan"}, Works, UNCHANGED job,
                 run' = [run EXCEPT !.pos = run.pos + 1, !.found = found, !.pc = pc]
          PROVE  G
        BY <1>3, <2>2, <1>0, Fields DEF ReadScan, GoesOn, Works, AdminStages, ScanStages, LastShape, at
    <2> QED
        BY <1>3, <2>1, <2>2 DEF ReadScan, Ends, Fails, Disturb
<1>4. CASE EndOfScan
    BY <1>4, <1>0, Fields DEF EndOfScan, GoesOn, Ends, Works, Disturb, Stop, AdminStages, ScanStages, LastShape, at
<1>5. CASE SaveScan
    BY <1>5, <1>0, Fields DEF SaveScan, Fails, GoesOn, Ends, Works, Disturb, Stop, AdminStages, ScanStages, LastShape, at
<1>6. CASE SaveScanOffset
    BY <1>6, <1>0, Fields DEF SaveScanOffset, Fails, goto, GoesOn, Ends, Works, Disturb, Stop, AdminStages, ScanStages, LastShape, at
<1>7. CASE MarkScan
    BY <1>7, <1>0, Fields DEF MarkScan, AfterScan, GoesOn, Ends, Works, Disturb, Stop, AdminStages, ScanStages, LastShape, at
<1>8. CASE OpenAssembly
    BY <1>8, <1>0, Fields DEF OpenAssembly, GoesOn, Ends, Works, Disturb, Stop, AdminStages, ScanStages, LastShape, at
<1>9. CASE Republish
    BY <1>9, <1>0, Fields DEF Republish, Publish, Fails, GoesOn, Ends, Works, Disturb, Stop, AdminStages, ScanStages, LastShape, at
<1>10. CASE PublishMore
    BY <1>10, <1>0, Fields DEF PublishMore, Publish, Fails, GoesOn, Ends, Works, Disturb, Stop, AdminStages, ScanStages, LastShape, at
<1>11. CASE LevelDone
    BY <1>11, <1>0, Fields DEF LevelDone, Publish, Fails, GoesOn, Ends, Works, Disturb, Stop, AdminStages, ScanStages, LastShape, at
<1>12. CASE WriteLevels
    BY <1>12, <1>0, Fields DEF WriteLevels, Fails, GoesOn, Ends, Works, Disturb, Stop, AdminStages, ScanStages, LastShape, at
<1>13. CASE Finish
    BY <1>13, <1>0, Fields DEF Finish, GoesOn, Ends, Works, Disturb, Stop, AdminStages, ScanStages, LastShape, at
<1>14. ASSUME NEW r \in Relations, SaveRegion(r)
      PROVE  G
    BY <1>14, <1>0, Fields DEF SaveRegion, Fails, goto, GoesOn, Ends, Works, Disturb, Stop, AdminStages, ScanStages, LastShape, at
<1> QED
    BY <1>1, <1>2, <1>3, <1>4, <1>5, <1>6, <1>7, <1>8, <1>9, <1>10, <1>11, <1>12, <1>13, <1>14 DEF AdminStep


\* The second pass only moves its own place; the boundaries leave the nodes and the
\* cell files alone.
LEMMA WayKeeps ==
    ASSUME PlaceShape, RunShape, WayStep
    PROVE  /\ PlaceShape' /\ UNCHANGED <<nodeFile, cand.nodes, cp.done>>
           /\ UNCHANGED <<index.source, index.blocks, index.indexed>>
           /\ cp'.ways # cp.ways => job.mode = "flat"
           /\ index'.ways # index.ways => job.mode \notin {"flat", "bbox"}
<1>1. CASE UNCHANGED nodeVars
    BY <1>1 DEF nodeVars, PlaceShape
<1>2. CASE SaveWayOffset
    <2>1. DOMAIN NoIndex = {"source", "offset", "blocks", "indexed", "build", "done", "ways", "broken"}
          /\ DOMAIN NoCandidates = {"nodes", "offset", "complete", "ways"}
        BY DEF NoIndex, NoCandidates
    <2>2. ASSUME NEW pos \in Nat, PlaceSaved(pos), UNCHANGED nodeFile
          PROVE  /\ PlaceShape' /\ UNCHANGED <<nodeFile, cand.nodes, cp.done>>
                 /\ UNCHANGED <<index.source, index.blocks, index.indexed>>
                 /\ cp'.ways # cp.ways => job.mode = "flat"
                 /\ index'.ways # index.ways => job.mode \notin {"flat", "bbox"}
        BY <2>1, <2>2 DEF PlaceSaved, PlaceShape
    <2>3. CASE UNCHANGED <<cp, index, cand>>
        BY <1>2, <2>3, <1>1 DEF SaveWayOffset, nodeVars
    <2> QED
        BY <1>2, <2>2, <2>3 DEF SaveWayOffset, RunShape
<1> QED
    BY <1>1, <1>2 DEF WayStep, OpenWays, ReadBlob, EndOfWays, ReadWays, TakeWay, WriteCell

\* The boundary pass leaves the node file, its places and the cells alone.
LEMMA AdminKeeps ==
    ASSUME PlaceShape, AdminStep
    PROVE  /\ PlaceShape' /\ UNCHANGED <<nodeFile, cp, cand, wayVars>>
           /\ UNCHANGED <<index.source, index.blocks, index.indexed, index.ways>>
<1>1. CASE UNCHANGED <<nodeVars, wayVars>>
    BY <1>1 DEF nodeVars, PlaceShape
<1>2. CASE Finish
    <2>1. DOMAIN NoIndex = {"source", "offset", "blocks", "indexed", "build", "done", "ways", "broken"}
        BY DEF NoIndex
    <2> QED
        BY <1>2, <2>1 DEF Finish, PlaceShape
<1> QED
    BY <1>1, <1>2 DEF AdminStep, PrepareSource, OpenScan, ReadScan, EndOfScan, SaveScan, SaveScanOffset,
        MarkScan, OpenAssembly, Republish, PublishMore, LevelDone, WriteLevels, SaveRegion

\* From the second pass on the nodes are there.
LEMMA WayStaging ==
    ASSUME RunShape, PlaceShape, WorldShape, StageShape, WayStep
    PROVE  StageShape'
<1>0. job # NoJob => job.mode \in {"flat", "compact", "import", "bbox"}
    BY JobsAreBuilds DEF Builders
<1>3. (cp.ways > 0 => cp.done)' /\ (index.ways > 0 => index.indexed)'
    BY <1>0, WayFlow, WayKeeps DEF StageShape, WayStages, Indexed, at
<1>1. CASE Ends
    BY <1>1, <1>3, WayFlow, WayKeeps, Fields DEF Ends, Stop, StageShape, NoJob, at, Indexed, WayStages
<1>2. CASE GoesOn({"readWays", "writeCells", "prepareAdmin"})
    BY <1>2, <1>3, WayFlow, WayKeeps
        DEF GoesOn, StageShape, at, Indexed, NodeStages, WayStages, AdminStages, ScanStages
<1> QED
    BY <1>1, <1>2, WayFlow

\* The boundary pass keeps each stage with the kind of build it belongs to.
LEMMA AdminStaging ==
    ASSUME RunShape, PlaceShape, WorldShape, OutputShape, StageShape, AdminStep,
           at("openScan") => Scan \in {"relations", "members"}
    PROVE  StageShape'
<1>1. CASE Ends
    BY <1>1, AdminFlow, AdminKeeps, Fields DEF Ends, Stop, StageShape, NoJob, at, Indexed
<1>2. CASE GoesOn(AdminStages)
    BY <1>2, AdminFlow, AdminKeeps
        DEF GoesOn, StageShape, at, Indexed, NodeStages, WayStages, AdminStages, ScanStages
<1> QED
    BY <1>1, <1>2, AdminFlow


-----------------------------------------------------------------------------
(* The scans.                                                              *)

Stores == {"bbox", "planet"}
Kinds == {"relations", "members"}
Things(k) == IF k = "relations" THEN Relations ELSE Ways

Saves(b, a, s, k, v) == v \subseteq Things(k) /\ b = [a EXCEPT ![s].saved[k] = v]
Marks(b, a, s, k, n) == b = [a EXCEPT ![s].done[k] = TRUE, ![s].offset[k] = n]

\* What writing to one scan of one store changes, and what it leaves alone.
LEMMA SavedUpdate ==
    ASSUME NEW a \in [Stores -> Scanned], NEW s \in Stores, NEW k \in Kinds,
           NEW v, NEW b, Saves(b, a, s, k, v)
    PROVE  /\ b \in [Stores -> Scanned]
           /\ b[s].source = a[s].source /\ b[s].offset = a[s].offset /\ b[s].done = a[s].done
           /\ b[s].saved[k] = v
           /\ \A j \in Kinds : j # k => b[s].saved[j] = a[s].saved[j]
           /\ \A t \in Stores : t # s => b[t] = a[t]
<1>1. a[s] \in Scanned
    OBVIOUS
<1>2. CASE k = "relations"
    BY <1>1, <1>2 DEF Saves, Scanned, Things, Kinds, Stores
<1>3. CASE k = "members"
    BY <1>1, <1>3 DEF Saves, Scanned, Things, Kinds, Stores
<1> QED
    BY <1>2, <1>3 DEF Kinds

\* Saving an offset of a scan changes that offset alone.
LEMMA OffsetUpdate ==
    ASSUME NEW a \in [Stores -> Scanned], NEW s \in Stores, NEW k \in Kinds,
           NEW n \in Nat, NEW b, b = [a EXCEPT ![s].offset[k] = n]
    PROVE  /\ b \in [Stores -> Scanned]
           /\ b[s].source = a[s].source /\ b[s].saved = a[s].saved /\ b[s].done = a[s].done
           /\ b[s].offset[k] = n
           /\ \A j \in Kinds : j # k => b[s].offset[j] = a[s].offset[j]
           /\ \A t \in Stores : t # s => b[t] = a[t]
<1>1. a[s] \in Scanned
    OBVIOUS
<1> QED
    BY <1>1 DEF Scanned, Kinds, Stores

\* Marking a scan as done changes its mark and its offset alone.
LEMMA DoneUpdate ==
    ASSUME NEW a \in [Stores -> Scanned], NEW s \in Stores, NEW k \in Kinds, NEW n \in Nat,
           NEW b, Marks(b, a, s, k, n)
    PROVE  /\ b \in [Stores -> Scanned]
           /\ b[s].source = a[s].source /\ b[s].saved = a[s].saved
           /\ b[s].done[k] /\ b[s].offset[k] = n
           /\ \A j \in Kinds : j # k =>
                 b[s].offset[j] = a[s].offset[j] /\ b[s].done[j] = a[s].done[j]
           /\ \A t \in Stores : t # s => b[t] = a[t]
<1>1. a[s] \in Scanned
    OBVIOUS
<1>2. CASE k = "relations"
    BY <1>1, <1>2 DEF Marks, Scanned, Kinds, Stores
<1>3. CASE k = "members"
    BY <1>1, <1>3 DEF Marks, Scanned, Kinds, Stores
<1> QED
    BY <1>2, <1>3 DEF Kinds

\* Nothing lies in front of the start; what lies between two places is in the file.
LEMMA PlacesInFile ==
    ASSUME WorldShape
    PROVE  /\ WaysIn(0, 0) = {} /\ RelationsIn(0, 0) = {}
           /\ WaysIn(0, End) \subseteq Ways /\ RelationsIn(0, End) \subseteq Relations
           /\ \A n \in Nat : WaysIn(0, n) \subseteq WaysIn(0, End) /\ RelationsIn(0, n) \subseteq RelationsIn(0, End)
<1>1. Between(0, 0) = {}
    BY BlobsAreTyped DEF Between
<1>2. \A n \in Nat : Between(0, n) \subseteq Between(0, End)
    BY BlobsAreTyped DEF Between
<1>3. Between(0, End) \subseteq DOMAIN Blobs
    BY DEF Between
<1> QED
    BY <1>1, <1>2, <1>3, BlobsAreTyped DEF WaysIn, RelationsIn


\* The file stays as it is.
LEMMA FileKept ==
    ASSUME UNCHANGED scene
    PROVE  /\ End' = End /\ Blobs' = Blobs
           /\ \A a, b : WaysIn(a, b)' = WaysIn(a, b) /\ RelationsIn(a, b)' = RelationsIn(a, b)
BY DEF End, Blobs, WaysIn, RelationsIn, Between

\* A step outside of the scans.
LEMMA ScansKept ==
    ASSUME Scanning, LastShape', UNCHANGED <<adm, scene>>, run'.pc \notin ScanStages
    PROVE  Scanning'
BY FileKept DEF Scanning, ScanHolds, MembersWanted, LastShape

\* The stores are typed and their scans hold what they should.
ScansHold == adm \in [Stores -> Scanned] /\ \A s \in Stores : ScanHolds(adm[s])

\* After a scan comes the next one that is not done, if any.
LEMMA NextScanStarts ==
    ASSUME DOMAIN run = DOMAIN NoRun, UNCHANGED <<job, scene>>, ScansHold', ScansHold,
           run' = [AfterScan(adm'[Store]) EXCEPT !.last = FALSE]
    PROVE  Scanning'
<1> DEFINE a == adm'[Store]
<1>0. Store \in Stores /\ Adm' = a /\ (a.done.relations \in BOOLEAN) /\ a.done.members \in BOOLEAN
    BY DEF Store, Stores, Adm, ScansHold, Scanned
<1>1. /\ run'.last = FALSE /\ run'.what = NextScan(a) /\ run'.found = {}
      /\ run'.pc = IF NextScan(a) # "none" THEN "openScan"
                   ELSE IF job.mode = "bbox" THEN "writeLevels" ELSE "openAssembly"
    BY Fields DEF AfterScan
<1>2. CASE NextScan(a) = "none"
    BY <1>1, <1>2 DEF Scanning, ScansHold, ScanStages, Stores
<1>3. CASE NextScan(a) # "none"
    <2>1. \/ NextScan(a) = "relations" /\ ~a.done.relations
          \/ NextScan(a) = "members" /\ ~a.done.members /\ a.done.relations
        BY <1>3 DEF NextScan
    <2> QED
        BY <1>0, <1>1, <1>3, <2>1 DEF Scanning, ScansHold, ScanStages, Stores, at, Scan
<1> QED
    BY <1>2, <1>3

\* Clearing or keeping the scans of a source leaves no place behind that is not that
\* source's own.
LEMMA PreparesScans ==
    ASSUME Shape, Scanning, PrepareSource
    PROVE  Scanning' /\ adm' \in [Stores -> Scanned]
<1>0. DOMAIN run = DOMAIN NoRun /\ WorldShape /\ ScansHold /\ Store \in Stores /\ run.last = FALSE
    BY DEF Shape, RunShape, OutputShape, ScansHold, Scanning, Stores, Store, PrepareSource, at
<1>1. CASE ~job.admin
    BY <1>1, <1>0, Fields, ScansKept DEF PrepareSource, goto, Works, ScanStages, LastShape, ScansHold
<1>2. CASE job.admin
    <2>1. [NoScan EXCEPT !.source = planet] \in Scanned /\ ScanHolds([NoScan EXCEPT !.source = planet])
        BY <1>0, PlacesInFile DEF NoScan, Scanned, ScanHolds, MembersWanted, WorldShape
    <2>2. adm' \in [Stores -> Scanned] /\ \A s \in Stores : ScanHolds(adm'[s])
        BY <1>0, <1>2, <2>1 DEF PrepareSource, ScansHold
    <2>3. ScansHold'
        BY <1>2, <2>2, FileKept DEF PrepareSource, Works, ScansHold, ScanHolds, MembersWanted
    <2>4. run' = [AfterScan(adm'[Store]) EXCEPT !.last = FALSE]
        <3> DEFINE what == NextScan(adm'[Store])
                   pc == IF what # "none" THEN "openScan"
                         ELSE IF job.mode = "bbox" THEN "writeLevels" ELSE "openAssembly"
        <3>1. run' = [run EXCEPT !.what = what, !.found = {}, !.pc = pc]
            BY <1>2 DEF PrepareSource, AfterScan
        <3>2. AfterScan(adm'[Store]) = [run EXCEPT !.what = what, !.found = {}, !.pc = pc]
            BY DEF AfterScan
        <3> HIDE DEF what, pc
        <3>3. [run EXCEPT !.what = what, !.found = {}, !.pc = pc]
                 = [[run EXCEPT !.what = what, !.found = {}, !.pc = pc] EXCEPT !.last = FALSE]
            BY <1>0, Fields
        <3> QED
            BY <3>1, <3>2, <3>3
    <2> QED
        BY <1>0, <1>2, <2>2, <2>3, <2>4, NextScanStarts DEF PrepareSource, Works
<1> QED
    BY <1>1, <1>2


\* What is known while a scan runs.
LEMMA ScanFacts ==
    ASSUME Shape, Scanning, run.pc \in ScanStages
    PROVE  /\ DOMAIN run = DOMAIN NoRun /\ run.pos \in Nat /\ WorldShape /\ End \in Nat
           /\ adm \in [Stores -> Scanned] /\ Store \in Stores /\ Adm = adm[Store] /\ ScansHold
           /\ Scan \in Kinds /\ ~Adm.done[Scan] /\ Adm.offset[Scan] \in Nat
           /\ Wanted \subseteq Things(Scan) /\ run.found \subseteq Things(Scan)
           /\ Scan = "relations" => Wanted = Relations
           /\ Scan = "members" => Adm.done.relations /\ Wanted = MembersWanted(Adm)
           /\ run.found \subseteq Here(0, End) \cap Wanted
<1>1. /\ DOMAIN run = DOMAIN NoRun /\ run.pos \in Nat /\ WorldShape /\ ScansHold
      /\ adm \in [Stores -> Scanned] /\ Store \in Stores /\ Adm = adm[Store]
    BY DEF Shape, RunShape, OutputShape, Stores, Store, Adm, ScansHold, Scanning
<1>2. /\ Scan \in Kinds /\ ~Adm.done[Scan]
      /\ Scan = "members" => Adm.done.relations
      /\ run.found \subseteq Here(0, End) \cap Wanted
    BY DEF Scanning, Kinds
<1>3. Adm.offset[Scan] \in Nat /\ Adm.saved.relations \subseteq Relations
    BY <1>1, <1>2 DEF Scanned, Kinds
<1>4. /\ Scan = "relations" => Wanted = Relations
      /\ Scan = "members" => Wanted = MembersWanted(Adm)
    BY DEF Wanted, MembersWanted
<1>5. MembersWanted(Adm) \subseteq Ways
    BY <1>3, PlanetAssumption DEF MembersWanted
<1> QED
    BY <1>1, <1>2, <1>3, <1>4, <1>5, BlobsAreTyped DEF Kinds, Things

\* A scan that fails leaves the stores as they are.
LEMMA FailedScan ==
    ASSUME Shape, Scanning, Fails, UNCHANGED adm
    PROVE  Scanning' /\ adm' \in [Stores -> Scanned]
BY ScansKept, Fields DEF Fails, Stop, Disturb, ScanStages, LastShape, Shape, OutputShape, Stores

\* A scan that opens has read what lies before its saved place.
LEMMA OpensScan ==
    ASSUME Shape, Scanning, OpenScan
    PROVE  Scanning' /\ adm' \in [Stores -> Scanned]
<1>1. run.pc \in ScanStages /\ run.last = FALSE
    BY DEF OpenScan, at, ScanStages, Scanning, Shape, RunShape
<1> USE <1>1, ScanFacts
<1>2. /\ UNCHANGED <<adm, job, scene, index, nodeFile, cand>>
      /\ run'.what = run.what /\ run'.found = run.found /\ run'.pos = Adm.offset[Scan]
      /\ ~run'.last /\ run'.pc = IF Wanted = {} THEN "markScan" ELSE "readScan"
    BY Fields DEF OpenScan, Works, adminVars, nodeVars
<1>3. Adm' = Adm /\ Scan' = Scan /\ Wanted' = Wanted /\ (\A s \in Stores : ScanHolds(adm[s])')
    BY <1>2, FileKept DEF Adm, Store, Scan, Wanted, ScansHold, ScanHolds, MembersWanted
<1>4. Here(0, Adm.offset[Scan]) \cap Wanted \subseteq Adm.saved[Scan]
    BY DEF ScansHold, ScanHolds, Here, Kinds
<1>5. \A n : Here(0, n)' = Here(0, n)
    BY <1>2, <1>3, FileKept DEF Here
<1>6. End' = End
    BY <1>2, FileKept
<1> QED
    BY <1>2, <1>3, <1>4, <1>5, <1>6 DEF Scanning, Stores, at, Kinds, OpenScan

\* What has to be shown of a step that gathers more.
LEMMA ScanGoesOn ==
    ASSUME \A s \in Stores : ScanHolds(adm[s])', run'.pc \in {"readScan", "saveScan"}, ~run'.last,
           Scan' \in Kinds, ~Adm'.done[Scan'], Scan' = "members" => Adm'.done.relations,
           run'.found \subseteq (Here(0, End) \cap Wanted)',
           (Here(0, run.pos) \cap Wanted)' \subseteq Adm'.saved[Scan'] \cup run'.found
    PROVE  Scanning'
BY DEF Scanning, Stores, Kinds, at

\* A blob read extends what the scan has gathered.
LEMMA ReadsScan ==
    ASSUME Shape, Scanning, ReadScan
    PROVE  Scanning' /\ adm' \in [Stores -> Scanned]
<1>1. run.pc \in ScanStages /\ run.last = FALSE /\ run.pc = "readScan"
    BY DEF ReadScan, at, ScanStages, Scanning, Shape, RunShape
<1> USE <1>1, ScanFacts
<1>2. CASE Fails
    BY <1>2, FailedScan DEF ReadScan, adminVars
<1>3. ASSUME NEW pc \in {"readScan", "saveScan"}, Works, UNCHANGED job,
             run' = [run EXCEPT !.pos = run.pos + 1,
                                !.found = @ \cup (Here(run.pos, run.pos + 1) \cap Wanted), !.pc = pc]
      PROVE  Scanning' /\ adm' \in [Stores -> Scanned]
    <2>1. /\ UNCHANGED <<adm, job, scene>>
          /\ run'.what = run.what /\ run'.pos = run.pos + 1
          /\ run'.found = run.found \cup (Here(run.pos, run.pos + 1) \cap Wanted)
          /\ ~run'.last /\ run'.pc = pc
        BY <1>3, Fields DEF ReadScan, Works, adminVars
    <2>2. Adm' = Adm /\ Scan' = Scan /\ Wanted' = Wanted /\ (\A s \in Stores : ScanHolds(adm[s])')
        BY <2>1, FileKept DEF Adm, Store, Scan, Wanted, ScansHold, ScanHolds, MembersWanted
    <2>3. \A n : Here(0, n)' = Here(0, n)
        BY <2>1, <2>2, FileKept DEF Here
    <2>4. run.pos < End
        BY DEF ReadScan
    <2>5. Here(0, run.pos + 1) = Here(0, run.pos) \cup Here(run.pos, run.pos + 1)
        BY BetweenSplits DEF Here
    <2>6. Here(0, run.pos + 1) \subseteq Here(0, End)
        BY PlacesInFile DEF Here
    <2>7. Here(0, run.pos) \cap Wanted \subseteq Adm.saved[Scan] \cup run.found
        BY DEF Scanning
    <2>8. End' = End
        BY <2>1, FileKept
    <2>9. /\ Scan \in Kinds /\ ~Adm.done[Scan] /\ (Scan = "members" => Adm.done.relations)
          /\ adm \in [Stores -> Scanned]
        OBVIOUS
    <2>10. run.found \subseteq Here(0, End) \cap Wanted
        BY DEF Scanning
    <2> HIDE <1>1, ScanFacts
    <2>11. Scan' \in Kinds /\ ~Adm'.done[Scan'] /\ (Scan' = "members" => Adm'.done.relations)
        BY <2>2, <2>9
    <2>12. Here(0, End)' \cap Wanted' = Here(0, End) \cap Wanted
        BY <2>2, <2>3, <2>8
    <2>13. run'.found \subseteq (Here(0, End) \cap Wanted)'
        BY <2>1, <2>5, <2>6, <2>10, <2>12
    <2>14. Here(0, run.pos)' = Here(0, run.pos) \cup Here(run.pos, run.pos + 1)
        BY <2>1, <2>3, <2>5
    <2>15. (Here(0, run.pos) \cap Wanted)' \subseteq Adm'.saved[Scan'] \cup run'.found
        BY <2>1, <2>2, <2>7, <2>14
    <2> QED
        BY <1>3, <2>1, <2>2, <2>9, <2>11, <2>13, <2>15, ScanGoesOn
<1> QED
    BY <1>2, <1>3 DEF ReadScan, Here

\* A scan at the end of the file has gathered all of it.
LEMMA EndsScan ==
    ASSUME Shape, Scanning, EndOfScan
    PROVE  Scanning' /\ adm' \in [Stores -> Scanned]
<1>1. run.pc \in ScanStages /\ run.pc = "readScan" /\ run.pos = End
    BY DEF EndOfScan, at, ScanStages
<1> USE <1>1, ScanFacts
<1>2. /\ UNCHANGED <<adm, job, scene>>
      /\ run'.what = run.what /\ run'.pos = run.pos /\ run'.found = run.found
      /\ run'.pc = "saveScan"
    BY Fields DEF EndOfScan, Works, adminVars
<1>3. Adm' = Adm /\ Scan' = Scan /\ Wanted' = Wanted /\ (\A s \in Stores : ScanHolds(adm[s])')
    BY <1>2, FileKept DEF Adm, Store, Scan, Wanted, ScansHold, ScanHolds, MembersWanted
<1>4. End' = End /\ \A n : Here(0, n)' = Here(0, n)
    BY <1>2, <1>3, FileKept DEF Here
<1>5. Here(0, run.pos) \cap Wanted \subseteq Adm.saved[Scan] \cup run.found
    BY DEF Scanning
<1> QED
    BY <1>2, <1>3, <1>4, <1>5 DEF Scanning, Stores, at, Kinds


\* What was found is stored ...
LEMMA SavesScan ==
    ASSUME Shape, Scanning, SaveScan
    PROVE  Scanning' /\ adm' \in [Stores -> Scanned]
<1>1. run.pc \in ScanStages /\ run.pc = "saveScan"
    BY DEF SaveScan, at, ScanStages
<1> USE <1>1, ScanFacts
<1>2. CASE Fails /\ UNCHANGED adm
    BY <1>2, FailedScan
<1>3. CASE /\ Works /\ adm' = [adm EXCEPT ![Store].saved[Scan] = @ \cup run.found]
           /\ run' = [run EXCEPT !.found = {}, !.pc = IF run.last THEN "markScan" ELSE "saveScanOffset"]
           /\ UNCHANGED job
    <2>1. /\ UNCHANGED <<job, scene>>
          /\ run'.what = run.what /\ run'.pos = run.pos /\ run'.found = {} /\ run'.last = run.last
          /\ run'.pc = IF run.last THEN "markScan" ELSE "saveScanOffset"
        BY <1>3, Fields DEF Works
    <2>2. /\ adm' \in [Stores -> Scanned]
          /\ adm'[Store].offset = Adm.offset /\ adm'[Store].done = Adm.done
          /\ adm'[Store].saved[Scan] = Adm.saved[Scan] \cup run.found
          /\ \A j \in Kinds : j # Scan => adm'[Store].saved[j] = Adm.saved[j]
          /\ \A t \in Stores : t # Store => adm'[t] = adm[t]
        <3>1. /\ adm \in [Stores -> Scanned] /\ Store \in Stores /\ Scan \in Kinds
              /\ run.found \subseteq Things(Scan) /\ Adm = adm[Store]
            OBVIOUS
        <3> HIDE <1>1, ScanFacts
        <3>2. /\ adm' = [adm EXCEPT ![Store].saved[Scan] = adm[Store].saved[Scan] \cup run.found]
              /\ adm[Store].saved[Scan] \subseteq Things(Scan)
            BY <1>3, <3>1 DEF Scanned, Kinds, Things
        <3>3. PICK v \in SUBSET Things(Scan) : v = Adm.saved[Scan] \cup run.found
            BY <3>1, <3>2
        <3>4. Saves(adm', adm, Store, Scan, v)
            BY <3>1, <3>2, <3>3 DEF Saves
        <3>5. /\ adm' \in [Stores -> Scanned]
              /\ adm'[Store].offset = adm[Store].offset /\ adm'[Store].done = adm[Store].done
              /\ adm'[Store].saved[Scan] = v
              /\ \A j \in Kinds : j # Scan => adm'[Store].saved[j] = adm[Store].saved[j]
              /\ \A t \in Stores : t # Store => adm'[t] = adm[t]
            BY <3>1, <3>4, SavedUpdate
        <3> QED
            BY <3>1, <3>3, <3>5
    <2>3. Adm' = adm'[Store] /\ Scan' = Scan /\ Store' = Store
        BY <2>1 DEF Adm, Store, Scan
    <2>4. /\ Here(0, run.pos) \cap Wanted \subseteq Adm.saved[Scan] \cup run.found
          /\ run.last => run.pos = End
        BY DEF Scanning, at
    <2>5. ScanHolds(Adm) /\ End' = End /\ \A n : Here(0, n)' = Here(0, n)
        BY <2>1, FileKept DEF ScansHold, Here, Scan
    <2>6. CASE Scan = "relations"
        <3>1. Wanted' = Wanted
            BY <2>3, <2>6 DEF Wanted
        <3>2. ScanHolds(Adm)'
            BY <2>1, <2>2, <2>3, <2>5, <2>6, FileKept, PlacesInFile DEF ScanHolds, Here, Kinds, MembersWanted
        <3>3. \A s \in Stores : ScanHolds(adm[s])'
            BY <2>1, <2>2, <2>3, <3>2, FileKept DEF ScansHold, ScanHolds, MembersWanted
        <3> QED
            BY <2>1, <2>2, <2>3, <2>4, <2>5, <3>1, <3>3 DEF Scanning, Stores, at, Kinds, ScanStages
    <2>7. CASE Scan = "members"
        <3>0. adm'[Store].saved.relations = Adm.saved.relations
            BY <2>2, <2>7 DEF Kinds
        <3>1. Wanted' = Wanted /\ MembersWanted(Adm)' = MembersWanted(Adm)
            BY <2>3, <2>7, <3>0 DEF Wanted, MembersWanted
        <3>2. ScanHolds(Adm)'
            BY <2>1, <2>2, <2>3, <2>5, <2>7, <3>0, <3>1, FileKept DEF ScanHolds, Here, Kinds
        <3>3. \A s \in Stores : ScanHolds(adm[s])'
            BY <2>1, <2>2, <2>3, <3>2, FileKept DEF ScansHold, ScanHolds, MembersWanted
        <3> QED
            BY <2>1, <2>2, <2>3, <2>4, <2>5, <2>7, <3>1, <3>3 DEF Scanning, Stores, at, Kinds, ScanStages
    <2> QED
        BY <2>6, <2>7 DEF Kinds
<1> QED
    BY <1>2, <1>3 DEF SaveScan

\* ... and then its place.
LEMMA SavesPlace ==
    ASSUME Shape, Scanning, SaveScanOffset
    PROVE  Scanning' /\ adm' \in [Stores -> Scanned]
<1>1. run.pc \in ScanStages /\ run.pc = "saveScanOffset" /\ ~run.last
    BY DEF SaveScanOffset, at, ScanStages, Scanning
<1> USE <1>1, ScanFacts
<1>2. CASE Fails /\ UNCHANGED adm
    BY <1>2, FailedScan
<1>3. CASE Works /\ adm' = [adm EXCEPT ![Store].offset[Scan] = run.pos] /\ goto("readScan") /\ UNCHANGED job
    <2>1. /\ UNCHANGED <<job, scene>>
          /\ run'.what = run.what /\ run'.pos = run.pos /\ run'.found = run.found /\ run'.last = run.last
          /\ run'.pc = "readScan"
        BY <1>3, Fields DEF Works, goto
    <2>2. /\ adm' \in [Stores -> Scanned]
          /\ adm'[Store].saved = Adm.saved /\ adm'[Store].done = Adm.done
          /\ adm'[Store].offset[Scan] = run.pos
          /\ \A j \in Kinds : j # Scan => adm'[Store].offset[j] = Adm.offset[j]
          /\ \A t \in Stores : t # Store => adm'[t] = adm[t]
        BY <1>3, OffsetUpdate
    <2>3. Adm' = adm'[Store] /\ Scan' = Scan /\ Store' = Store
        BY <2>1 DEF Adm, Store, Scan
    <2>4. Here(0, run.pos) \cap Wanted \subseteq Adm.saved[Scan] /\ run.found = {}
        BY DEF Scanning, at
    <2>5. ScanHolds(Adm) /\ End' = End /\ \A n : Here(0, n)' = Here(0, n)
        BY <2>1, FileKept DEF ScansHold, Here, Scan
    <2>6. Wanted' = Wanted /\ MembersWanted(Adm)' = MembersWanted(Adm)
        BY <2>2, <2>3 DEF Wanted, MembersWanted
    <2>7. RelationsIn(0, run.pos) \subseteq Relations
        BY PlacesInFile
    <2>8. ScanHolds(Adm)'
        BY <2>1, <2>2, <2>3, <2>4, <2>5, <2>6, <2>7, FileKept DEF ScanHolds, Here, Kinds
    <2>9. \A s \in Stores : ScanHolds(adm[s])'
        BY <2>1, <2>2, <2>3, <2>8, FileKept DEF ScansHold, ScanHolds, MembersWanted
    <2> QED
        BY <2>1, <2>2, <2>3, <2>4, <2>5, <2>6, <2>9 DEF Scanning, Stores, at, Kinds, ScanStages
<1> QED
    BY <1>2, <1>3 DEF SaveScanOffset

\* A scan is marked as done when all of it is saved.
LEMMA MarksScan ==
    ASSUME Shape, Scanning, MarkScan
    PROVE  Scanning' /\ adm' \in [Stores -> Scanned]
<1>1. run.pc \in ScanStages /\ run.pc = "markScan"
    BY DEF MarkScan, at, ScanStages
<1> USE <1>1, ScanFacts
<1>2. PICK kept \in {0, Adm.offset[Scan]} :
          adm' = [adm EXCEPT ![Store].done[Scan] = TRUE, ![Store].offset[Scan] = kept]
    BY DEF MarkScan
<1>3. /\ adm' \in [Stores -> Scanned]
      /\ adm'[Store].saved = Adm.saved /\ adm'[Store].done[Scan] /\ adm'[Store].offset[Scan] = kept
      /\ \A j \in Kinds : j # Scan =>
            adm'[Store].offset[j] = Adm.offset[j] /\ adm'[Store].done[j] = Adm.done[j]
      /\ \A t \in Stores : t # Store => adm'[t] = adm[t]
    <2>1. /\ adm \in [Stores -> Scanned] /\ Store \in Stores /\ Scan \in Kinds
          /\ kept \in Nat /\ Adm = adm[Store]
        OBVIOUS
    <2> HIDE <1>1, ScanFacts
    <2>2. Marks(adm', adm, Store, Scan, kept)
        BY <1>2 DEF Marks
    <2> QED
        BY <2>1, <2>2, DoneUpdate
<1>4. UNCHANGED <<job, scene>> /\ Adm' = adm'[Store]
    BY DEF MarkScan, Works, Adm, Store
<1>5. ScanHolds(Adm) /\ Here(0, End) \cap Wanted \subseteq Adm.saved[Scan]
    BY DEF ScansHold, Scanning, at
<1>6. RelationsIn(0, 0) = {} /\ WaysIn(0, 0) = {} /\ RelationsIn(0, End) \subseteq Relations
    BY PlacesInFile
<1>7. MembersWanted(Adm)' = MembersWanted(Adm)
    BY <1>3, <1>4 DEF MembersWanted
<1>8. ScanHolds(Adm)'
    <2>1. CASE Scan = "relations"
        BY <2>1, <1>3, <1>4, <1>5, <1>6, <1>7, FileKept DEF ScanHolds, Here, Kinds
    <2>2. CASE Scan = "members"
        BY <2>2, <1>3, <1>4, <1>5, <1>6, <1>7, FileKept DEF ScanHolds, Here, Kinds
    <2> QED
        BY <2>1, <2>2 DEF Kinds
<1>9. ScansHold'
    BY <1>3, <1>4, <1>8, FileKept DEF ScansHold, ScanHolds, MembersWanted, Stores
<1> QED
    BY <1>3, <1>4, <1>9, NextScanStarts DEF MarkScan

\* The whole of the boundaries.
LEMMA AdminScans ==
    ASSUME Shape, Scanning, AdminStep
    PROVE  Scanning' /\ adm' \in [Stores -> Scanned]
<1>1. CASE \/ OpenAssembly \/ Republish \/ PublishMore \/ LevelDone \/ WriteLevels \/ Finish
           \/ \E r \in Relations : SaveRegion(r)
    <2>1. UNCHANGED adm
        BY <1>1 DEF OpenAssembly, Republish, PublishMore, LevelDone, WriteLevels, Finish, SaveRegion, adminVars
    <2>2. run'.pc \notin ScanStages /\ LastShape' /\ UNCHANGED scene
        <3>1. at("openScan") => Scan \in {"relations", "members"}
            BY DEF Scanning, at, ScanStages
        <3>2. UNCHANGED scene /\ LastShape'
            BY <3>1, AdminFlow DEF Shape, Ends, GoesOn, LastShape, Scanning
        <3>3. run'.pc \notin ScanStages
            <4>0. DOMAIN run = DOMAIN NoRun
                BY DEF Shape, RunShape
            <4>1. CASE Stop
                BY <4>1, Fields DEF Stop, ScanStages
            <4>2. CASE OpenAssembly
                BY <4>0, <4>2, Fields DEF OpenAssembly, Stop, ScanStages
            <4>3. CASE Republish
                BY <4>0, <4>1, <4>3, Fields DEF Republish, Publish, Fails, ScanStages
            <4>4. CASE PublishMore
                BY <4>0, <4>1, <4>4, Fields DEF PublishMore, Publish, Fails, ScanStages
            <4>5. CASE LevelDone
                BY <4>0, <4>1, <4>5, Fields DEF LevelDone, Publish, Fails, ScanStages
            <4>6. CASE WriteLevels
                BY <4>0, <4>1, <4>6, Fields DEF WriteLevels, Fails, ScanStages
            <4>7. CASE Finish
                BY <4>1, <4>7 DEF Finish
            <4>8. ASSUME NEW r \in Relations, SaveRegion(r)
                  PROVE  run'.pc \notin ScanStages
                BY <4>0, <4>1, <4>8, Fields DEF SaveRegion, Fails, goto, ScanStages, at
            <4> QED
                BY <1>1, <4>2, <4>3, <4>4, <4>5, <4>6, <4>7, <4>8
        <3> QED
            BY <3>2, <3>3
    <2> QED
        BY <2>1, <2>2, ScansKept DEF Shape, OutputShape, Stores
<1> QED
    BY <1>1, PreparesScans, OpensScan, ReadsScan, EndsScan, SavesScan, SavesPlace, MarksScan DEF AdminStep


-----------------------------------------------------------------------------
(* The shape of the state, with the scans, is inductive.                   *)

\* The way pass keeps the cells and the published boundaries well formed.
LEMMA WayOutputs ==
    ASSUME Shape, WayStep, UNCHANGED adminVars
    PROVE  OutputShape'
<1>0. OutputShape /\ WorldShape
    BY DEF Shape
<1>1. DOMAIN cells' = Cells
    <2>1. ASSUME NEW c \in run.pending, WriteCell(c)
          PROVE  DOMAIN cells' = DOMAIN cells
        BY <2>1, CellWritten
    <2> QED
        BY <1>0, <2>1 DEF OutputShape, WayStep, OpenWays, ReadBlob, EndOfWays, SaveWayOffset, ReadWays, TakeWay,
            wayVars
<1>2. promised' \in [Builders -> SUBSET Ways]
    <2>1. CASE OpenWays /\ ~(UNCHANGED promised)
        <3>1. job # NoJob
            BY <2>1 DEF OpenWays, Shape, StageShape, at
        <3>2. job.layers \subseteq Ways
            BY <1>0, <3>1, JobsAreBuilds
        <3> QED
            BY <1>0, <2>1, <3>2 DEF OpenWays, OutputShape
    <2>2. CASE UNCHANGED promised
        BY <1>0, <2>2 DEF OutputShape
    <2> QED
        BY <2>1, <2>2 DEF WayStep, ReadBlob, EndOfWays, SaveWayOffset, ReadWays, TakeWay, WriteCell, wayVars
<1> QED
    BY <1>0, <1>1, <1>2 DEF OutputShape, adminVars

\* The boundary pass keeps the published boundaries well formed.
LEMMA AdminOutputs ==
    ASSUME Shape, Scanning, AdminStep
    PROVE  OutputShape'
<1>0. OutputShape
    BY DEF Shape
<1>1. DOMAIN published' = Levels
    <2>1. CASE UNCHANGED published
        BY <1>0, <2>1 DEF OutputShape
    <2>2. \A next : Publish(next) => DOMAIN published' = Levels
        BY <1>0 DEF OutputShape, Publish
    <2>3. CASE WriteLevels
        BY <1>0, <2>1, <2>3 DEF OutputShape, WriteLevels, MergeLevel
    <2>4. CASE Republish \/ PublishMore \/ LevelDone
        BY <2>2, <2>4 DEF Republish, PublishMore, LevelDone
    <2>5. CASE \/ PrepareSource \/ OpenScan \/ ReadScan \/ EndOfScan \/ SaveScan \/ SaveScanOffset
               \/ MarkScan \/ OpenAssembly \/ Finish \/ \E r \in Relations : SaveRegion(r)
        BY <2>1, <2>5 DEF PrepareSource, OpenScan, ReadScan, EndOfScan, SaveScan, SaveScanOffset, MarkScan,
            OpenAssembly, Finish, SaveRegion, adminVars
    <2> QED
        BY <2>3, <2>4, <2>5 DEF AdminStep
<1>2. PlaceShape
    BY DEF Shape
<1> QED
    BY <1>0, <1>1, <1>2, AdminScans, AdminKeeps DEF OutputShape, Stores, wayVars

\* A step that ends a build, or goes on with it, keeps the world as it is.
LEMMA FlowShape ==
    ASSUME WorldShape, RunShape, NEW stages, Ends \/ GoesOn(stages)
    PROVE  WorldShape' /\ RunShape'
BY Fields DEF Ends, GoesOn, Stop, WorldShape, RunShape

\* The builder starts in shape, with no scan under way.
LEMMA ShapeInit ==
    ASSUME Init
    PROVE  Shape /\ Scanning
<1> USE DEF Init, PlanetInit, NodeInit, WayInit, AdminInit
<1>1. WorldShape
    BY DEF WorldShape
<1>2. RunShape /\ StageShape
    BY Fields DEF RunShape, StageShape, NoJob, at, Indexed, NodeStages, WayStages, AdminStages, ScanStages,
        NoIndex
<1>3. PlaceShape
    BY DEF PlaceShape, NoIndex, NoCandidates
<1>4. NoScan \in Scanned
    BY DEF NoScan, Scanned
<1>5. OutputShape
    BY <1>4 DEF OutputShape
<1>6. ScanHolds(NoScan)
    BY <1>1, PlacesInFile DEF ScanHolds, NoScan, MembersWanted
<1>7. Scanning
    BY <1>6, Fields DEF Scanning, ScanStages
<1> QED
    BY <1>1, <1>2, <1>3, <1>5, <1>7 DEF Shape

\* A started build is in shape.
LEMMA StartShape ==
    ASSUME Shape, Scanning, NEW j \in scene.requests, Start(j)
    PROVE  Shape' /\ Scanning'
<1>1. /\ DOMAIN run = DOMAIN NoRun /\ run.pos \in Nat /\ run.from \in Nat /\ ~run.last
    BY DEF Shape, RunShape, Scanning, Start, at
<1>2. /\ DOMAIN run' = DOMAIN NoRun /\ run'.pos \in Nat /\ run'.from \in Nat /\ ~run'.last
      /\ run'.pc = IF (j.mode = "flat" /\ cp.done) \/ (j.mode = "bbox" /\ cand.complete)
                   THEN "openWays" ELSE "openNodes"
      /\ job' = j /\ UNCHANGED <<planet, scene, nodeVars, wayVars, adminVars>>
    BY <1>1, Fields DEF Start, goto, Works
<1>3. j.mode \in {"flat", "compact", "import", "bbox"} /\ NoJob.mode = "none"
    BY CasesAssumption DEF Shape, WorldShape, Builders, NoJob
<1>4. WorldShape' /\ RunShape' /\ PlaceShape' /\ OutputShape'
    BY <1>2 DEF Shape, WorldShape, RunShape, PlaceShape, OutputShape, nodeVars, wayVars, adminVars
<1>5. StageShape'
    <2>1. StageShape /\ cp' = cp /\ index' = index
        BY <1>2 DEF Shape, nodeVars
    <2> QED
        BY <1>2, <1>3, <2>1 DEF StageShape, at, Indexed, NodeStages, WayStages, AdminStages, ScanStages
<1>6. Scanning'
    BY <1>2, ScansKept DEF LastShape, ScanStages, adminVars
<1> QED
    BY <1>4, <1>5, <1>6 DEF Shape

\* A killed build leaves the state in shape.
LEMMA CrashShape ==
    ASSUME Shape, Scanning, Crash
    PROVE  Shape' /\ Scanning'
<1>1. /\ Stop /\ Ends /\ UNCHANGED <<cp, index, cand, promised, adminVars>>
    BY DEF Crash, Ends, Disturb
<1>2. DOMAIN cells' = Cells
    BY DEF Crash, CellsCut, Shape, OutputShape
<1>3. WorldShape' /\ RunShape' /\ PlaceShape' /\ OutputShape'
    BY <1>1, <1>2, FlowShape DEF Shape, PlaceShape, OutputShape, adminVars
<1>4. StageShape'
    BY <1>1, StopStaging DEF Shape
<1>5. Scanning'
    BY <1>1, Fields, ScansKept DEF Ends, Stop, LastShape, ScanStages, adminVars
<1> QED
    BY <1>3, <1>4, <1>5 DEF Shape

\* A newer file on disk, or no step at all, disturbs no stage.
LEMMA QuietShape ==
    ASSUME Shape, Scanning, Replace \/ UNCHANGED vars
    PROVE  Shape' /\ Scanning'
<1>1. /\ UNCHANGED <<job, run, scene, nodeVars, wayVars, adminVars>> /\ planet' \in {planet, planet + 1}
    BY DEF Replace, ReplacePlanet, Disturb, vars
<1>2. Shape'
    BY <1>1 DEF Shape, WorldShape, RunShape, PlaceShape, OutputShape, StageShape, nodeVars, wayVars, adminVars, at
<1>3. Scanning'
    BY <1>1, FileKept DEF Scanning, ScanHolds, MembersWanted, Adm, Store, Scan, Wanted, Here, at, adminVars
<1> QED
    BY <1>2, <1>3

\* Every step keeps the shape of the state and what the scans have stored.
LEMMA ShapeStep ==
    ASSUME Shape, Scanning, [Next]_vars
    PROVE  Shape' /\ Scanning'
<1>0. RunShape /\ PlaceShape /\ WorldShape /\ OutputShape /\ StageShape /\ LastShape
      /\ (at("openScan") => Scan \in {"relations", "members"})
    BY DEF Shape, LastShape, Scanning, at, ScanStages
<1>1. CASE NodeStep /\ UNCHANGED <<wayVars, adminVars>>
    <2>1. Ends \/ (GoesOn(NodeStages \cup {"openWays", "prepareAdmin"}) /\ run'.last = run.last /\ run'.features = run.features)
        BY <1>0, <1>1, NodeFlow
    <2>2. WorldShape' /\ RunShape'
        BY <1>0, <2>1, FlowShape
    <2>3. PlaceShape' /\ StageShape' /\ OutputShape'
        BY <1>0, <1>1, NodePlaces, NodeStaging DEF OutputShape, wayVars, adminVars
    <2>4. run.pc \in NodeStages
        BY <1>1 DEF NodeStep, OpenNodeFile, OpenIndex, OpenCandidates, ReadNodes, EndOfNodes, WriteNodes,
            SaveNodeOffset, SortNodes, MarkSorted, CommitBlocks, MarkIndexed, BindBuild, CommitCandidates,
            CompleteCandidates, at, NodeStages
    <2>5. run'.pc \notin ScanStages /\ LastShape' /\ UNCHANGED <<adm, scene>>
        BY <1>0, <1>1, <2>1, <2>4, Fields
            DEF Ends, GoesOn, Stop, LastShape, ScanStages, NodeStages, adminVars
    <2> QED
        BY <2>2, <2>3, <2>5, ScansKept DEF Shape
<1>2. CASE WayStep /\ UNCHANGED adminVars
    <2>1. /\ Ends \/ GoesOn({"readWays", "writeCells", "prepareAdmin"})
          /\ LastShape'
        BY <1>0, <1>2, WayFlow
    <2>2. WorldShape' /\ RunShape'
        BY <1>0, <2>1, FlowShape
    <2>3. PlaceShape' /\ StageShape' /\ OutputShape'
        BY <1>0, <1>2, WayKeeps, WayStaging, WayOutputs
    <2>4. run'.pc \notin ScanStages /\ UNCHANGED <<adm, scene>>
        BY <1>2, <2>1, Fields DEF Ends, GoesOn, Stop, ScanStages, adminVars
    <2> QED
        BY <2>1, <2>2, <2>3, <2>4, ScansKept DEF Shape
<1>3. CASE AdminStep
    <2>1. Ends \/ GoesOn(AdminStages)
        BY <1>0, <1>3, AdminFlow
    <2>2. WorldShape' /\ RunShape'
        BY <1>0, <2>1, FlowShape
    <2>3. PlaceShape' /\ StageShape' /\ OutputShape' /\ Scanning'
        BY <1>0, <1>3, AdminKeeps, AdminStaging, AdminOutputs, AdminScans
    <2> QED
        BY <2>2, <2>3 DEF Shape
<1> QED
    BY <1>1, <1>2, <1>3, StartShape, CrashShape, QuietShape DEF Next, Build


-----------------------------------------------------------------------------
(* The output of the way pass.                                             *)

Output == Gathered /\ OffsetCoversOutput
Gathers == run.pc \in {"readWays", "writeCells"} /\ job.mode \in {"flat", "compact"}

\* A cell file loses no way by being merged with.
LEMMA MergedKeeps ==
    ASSUME NEW c, NEW new
    PROVE  Ids(new) \cup Ids(cells[c]) \subseteq Ids(Merged(c, new))
BY DEF Ids, Merged

\* Both kinds of planet builds look nodes up where the saved place counts them.
LEMMA KnownNodes ==
    /\ job.mode = "flat" => Known = ToSet(nodeFile)
    /\ job.mode = "compact" => Known = index.blocks
BY DEF Known

\* Outside of the way pass nothing changes for the places that were saved.
LEMMA OutputKept ==
    ASSUME Shape, Output, UNCHANGED scene, cp'.ways = cp.ways, index'.ways = index.ways,
           nodeFile' = nodeFile \/ cp.ways = 0, index'.blocks = index.blocks \/ index.ways = 0,
           promised' = promised, lost' \/ (cells' = cells /\ lost' = lost),
           ~Gathers'
    PROVE  Output'
<1>1. Gathered'
    BY DEF Gathered, Gathers
<1>2. WaysIn(0, 0) = {}
    BY PlacesInFile DEF Shape
<1>3. OffsetCoversOutput'
    BY <1>2, FileKept DEF Output, OffsetCoversOutput, Covered
<1> QED
    BY <1>1, <1>3 DEF Output

\* The nodes change only while no way has been passed.
LEMMA NodesSettled ==
    ASSUME Shape, NodeStep
    PROVE  /\ nodeFile' = nodeFile \/ cp.ways = 0
           /\ index'.blocks = index.blocks \/ index.ways = 0
<1>0. /\ StageShape /\ DOMAIN index = {"source", "offset", "blocks", "indexed", "build", "done", "ways", "broken"}
      /\ cp.ways \in Nat /\ index.ways \in Nat
    BY DEF Shape, PlaceShape, NoIndex
<1>1. nodeFile' = nodeFile \/ cp.ways = 0
    <2>1. CASE OpenNodeFile \/ WriteNodes \/ SortNodes
        BY <1>0, <2>1 DEF OpenNodeFile, WriteNodes, SortNodes, StageShape, at, WayStages, AdminStages, ScanStages
    <2> QED
        BY <2>1 DEF NodeStep, OpenIndex, OpenCandidates, ReadNodes, EndOfNodes, SaveNodeOffset, MarkSorted,
            CommitBlocks, MarkIndexed, BindBuild, CommitCandidates, CompleteCandidates, nodeVars
<1>2. index'.blocks = index.blocks \/ index.ways = 0
    <2>1. CASE CommitBlocks
        BY <1>0, <2>1 DEF CommitBlocks, StageShape, at, WayStages, AdminStages, ScanStages, Indexed
    <2>2. CASE OpenIndex \/ MarkIndexed \/ BindBuild
        BY <1>0, <2>2 DEF OpenIndex, MarkIndexed, BindBuild
    <2> QED
        BY <2>1, <2>2 DEF NodeStep, OpenNodeFile, OpenCandidates, ReadNodes, EndOfNodes, WriteNodes,
            SaveNodeOffset, SortNodes, MarkSorted, CommitCandidates, CompleteCandidates, nodeVars
<1> QED
    BY <1>1, <1>2

\* A way pass that opens resumes at a place its cells cover.
LEMMA OpenWaysOutput ==
    ASSUME Shape, Output, OpenWays
    PROVE  Output'
<1>0. /\ WorldShape /\ PlaceShape /\ promised \in [Builders -> SUBSET Ways] /\ DOMAIN run = DOMAIN NoRun
      /\ UNCHANGED <<scene, job, nodeVars, cells, lost>>
    BY DEF Shape, OutputShape, RunShape, OpenWays, Works
<1>1. CASE job.layers = {} /\ job.mode # "bbox"
    <2>1. ~Gathers' /\ UNCHANGED promised
        BY <1>0, <1>1, Fields DEF OpenWays, goto, Gathers
    <2> QED
        BY <1>0, <2>1, OutputKept DEF nodeVars
<1>2. CASE ~(job.layers = {} /\ job.mode # "bbox")
    <2>1. /\ promised' = [promised EXCEPT ![job.mode] =
                              IF SavedPlace(job.mode) = 0 THEN job.layers ELSE @ \cap job.layers]
          /\ run'.pc = "readWays" /\ run'.pos = SavedPlace(job.mode)
        BY <1>0, <1>2, Fields DEF OpenWays
    <2>2. {"flat", "compact"} \subseteq Builders /\ WaysIn(0, 0) = {} /\ \A n : WaysIn(0, n)' = WaysIn(0, n)
        BY <1>0, PlacesInFile, FileKept DEF Builders
    <2>3. cp' = cp /\ index' = index /\ nodeFile' = nodeFile /\ Known' = Known
        BY <1>0 DEF nodeVars, Known
    <2>4. /\ job.mode = "flat" => SavedPlace(job.mode) = cp.ways
          /\ job.mode = "compact" => SavedPlace(job.mode) = index.ways
        BY DEF SavedPlace
    <2>5. /\ promised'["flat"] \subseteq promised["flat"] \/ cp.ways = 0
          /\ promised'["compact"] \subseteq promised["compact"] \/ index.ways = 0
        BY <1>0, <2>1, <2>2, <2>4
    <2>6. OffsetCoversOutput'
        BY <1>0, <2>2, <2>3, <2>5 DEF Output, OffsetCoversOutput, Covered
    <2>7. Gathered'
        <3>1. SUFFICES ASSUME ~lost, job.mode \in {"flat", "compact"}
                       PROVE  /\ promised'[job.mode] \subseteq job.layers
                              /\ \A w \in WaysIn(0, SavedPlace(job.mode)) \cap promised'[job.mode] :
                                    Cardinality(RefsOf[w] \cap Known) >= 2 =>
                                        \A c \in CellsOf[w] : w \in Ids(cells[c])
            BY <1>0, <2>1, <2>2, <2>3 DEF Gathered, at
        <3>2. promised'[job.mode] \subseteq job.layers
            BY <1>0, <2>1, <2>2, <3>1
        <3>3. CASE SavedPlace(job.mode) = 0
            BY <2>2, <3>2, <3>3
        <3>4. CASE SavedPlace(job.mode) # 0
            BY <2>1, <2>2, <2>4, <2>5, <3>1, <3>2, <3>4, KnownNodes DEF Output, OffsetCoversOutput, Covered
        <3> QED
            BY <3>3, <3>4
    <2> QED
        BY <2>6, <2>7 DEF Output
<1> QED
    BY <1>1, <1>2

\* What is gathered stays, or is about to be written to all the files it belongs to.
LEMMA GatherMore ==
    ASSUME Shape, Output, UNCHANGED <<scene, job, nodeVars, wayVars>>, run.pc = "readWays",
           run.features \subseteq run'.features,
           run'.pc \in {"readWays", "writeCells"},
           run'.pc = "writeCells" => run'.pending = Touched(run'.features),
           Gathers => \A w \in WaysIn(0, run'.pos) \cap job.layers :
               Cardinality(RefsOf[w] \cap Known) >= 2 =>
                  w \in WaysIn(0, run.pos) \/ w \in Ids(run'.features)
    PROVE  Output'
<1>1. Known' = Known /\ cp' = cp /\ index' = index /\ cells' = cells /\ lost' = lost /\ promised' = promised
      /\ nodeFile' = nodeFile /\ \A n : WaysIn(0, n)' = WaysIn(0, n)
    BY FileKept DEF nodeVars, wayVars, Known
<1>2. OffsetCoversOutput'
    BY <1>1 DEF Output, OffsetCoversOutput, Covered
<1>3. Ids(run.features) \subseteq Ids(run'.features)
    BY DEF Ids
<1>4. run'.pc = "writeCells" => \A w \in Ids(run'.features) : CellsOf[w] \subseteq run'.pending
    BY DEF Touched, Ids
<1>5. Gathered'
    <2>1. SUFFICES ASSUME ~lost, job.mode \in {"flat", "compact"}
                   PROVE  /\ promised[job.mode] \subseteq job.layers
                          /\ \A w \in WaysIn(0, run'.pos) \cap promised[job.mode] :
                              Cardinality(RefsOf[w] \cap Known) >= 2 =>
                                  \A c \in CellsOf[w] :
                                      \/ w \in Ids(cells[c])
                                      \/ w \in Ids(run'.features) /\ (run'.pc = "writeCells" => c \in run'.pending)
        BY <1>1 DEF Gathered, Ids, at
    <2>2. /\ promised[job.mode] \subseteq job.layers
          /\ \A w \in WaysIn(0, run.pos) \cap promised[job.mode] :
              Cardinality(RefsOf[w] \cap Known) >= 2 =>
                  \A c \in CellsOf[w] : w \in Ids(cells[c]) \/ w \in Ids(run.features)
        BY <2>1 DEF Output, Gathered
    <2> QED
        BY <1>3, <1>4, <2>1, <2>2 DEF Gathers
<1> QED
    BY <1>2, <1>5 DEF Output


\* The ways of a blob that is read are in the batch or wait to join it.
LEMMA ReadWaysOutput ==
    ASSUME Shape, Output, NEW k \in DOMAIN Blobs, ReadWays(k), UNCHANGED job
    PROVE  Output'
<1>0. /\ WorldShape /\ DOMAIN run = DOMAIN NoRun /\ run.pos \in Nat /\ k \in Nat /\ run.pos <= k
      /\ run.pc = "readWays" /\ job # NoJob
    BY BlobsAreTyped DEF Shape, RunShape, ReadWays, Between, at, StageShape
<1>1. ~Stop
    BY <1>0 DEF Stop
<1> DEFINE next == [run EXCEPT !.pos = k, !.features = @ \cup Features(WaysIn(run.pos, k) \cap job.layers)]
<1>2. UNCHANGED <<scene, nodeVars, wayVars>> /\ run' \in {next, Flushing(next)}
    BY <1>1 DEF ReadWays, Works, Fails
<1>3. /\ next.pos = k /\ next.pc = "readWays"
      /\ next.features = run.features \cup Features(WaysIn(run.pos, k) \cap job.layers)
      /\ DOMAIN next = DOMAIN NoRun
    BY <1>0, Fields
<1> HIDE DEF next
<1>4. /\ run'.pos = k /\ run'.features = next.features /\ run'.pc \in {"readWays", "writeCells"}
      /\ run'.pc = "writeCells" => run'.pending = Touched(run'.features)
    BY <1>2, <1>3, Fields DEF Flushing
<1>5. \A w \in WaysIn(run.pos, k) \cap job.layers :
          Cardinality(RefsOf[w] \cap Known) >= 2 => w \in Ids(run'.features)
    <2> SUFFICES ASSUME NEW w \in WaysIn(run.pos, k) \cap job.layers, Cardinality(RefsOf[w] \cap Known) >= 2
                 PROVE  w \in Ids(run'.features)
        OBVIOUS
    <2> DEFINE f == [way |-> w, points |-> RefsOf[w] \cap Known, from |-> run.from]
    <2>1. f \in next.features
        BY <1>3 DEF Features
    <2>2. f.way = w
        OBVIOUS
    <2> HIDE DEF f
    <2> QED
        BY <2>1, <2>2, <1>4 DEF Ids
<1>6. WaysIn(0, k) = WaysIn(0, run.pos) \cup WaysIn(run.pos, k)
    BY <1>0, BetweenSplits
<1> QED
    BY <1>0, <1>2, <1>3, <1>4, <1>5, <1>6, GatherMore

\* A way taken by a focused build moves from the blob to the batch.
LEMMA TakeWayOutput ==
    ASSUME Shape, Output, NEW w \in run.rest, TakeWay(w)
    PROVE  Output'
<1>0. DOMAIN run = DOMAIN NoRun /\ run.pc = "readWays"
    BY DEF Shape, RunShape, TakeWay, at
<1> DEFINE next == [run EXCEPT !.rest = @ \ {w}, !.features = @ \cup Features({w})]
<1>2. UNCHANGED <<job, scene, nodeVars, wayVars>> /\ run' \in {next, Flushing(next)}
    BY DEF TakeWay, Works
<1>3. /\ next.pos = run.pos /\ next.pc = "readWays" /\ run.features \subseteq next.features
      /\ DOMAIN next = DOMAIN NoRun
    BY <1>0, Fields
<1> HIDE DEF next
<1>4. /\ run'.pos = run.pos /\ run'.features = next.features /\ run'.pc \in {"readWays", "writeCells"}
      /\ run'.pc = "writeCells" => run'.pending = Touched(run'.features)
    BY <1>2, <1>3, Fields DEF Flushing
<1> QED
    BY <1>0, <1>2, <1>3, <1>4, GatherMore

\* The last flush begins with the rest of the batch.
LEMMA EndOfWaysOutput ==
    ASSUME Shape, Output, EndOfWays, UNCHANGED job
    PROVE  Output'
<1>0. DOMAIN run = DOMAIN NoRun /\ run.pc = "readWays" /\ job # NoJob
    BY DEF Shape, RunShape, EndOfWays, at, StageShape
<1>2. UNCHANGED <<scene, nodeVars, wayVars>> /\ run' = Flushing([run EXCEPT !.last = TRUE])
    BY <1>0 DEF EndOfWays, Works, Stop
<1>3. /\ run'.pos = run.pos /\ run'.features = run.features /\ run'.pc = "writeCells"
      /\ run'.pending = Touched(run'.features)
    BY <1>0, <1>2, Fields DEF Flushing
<1> QED
    BY <1>0, <1>2, <1>3, GatherMore

\* A cell file written keeps what it had and gains the batch.
LEMMA WriteCellOutput ==
    ASSUME Shape, Output, NEW c \in run.pending, WriteCell(c), UNCHANGED job
    PROVE  Output'
<1>0. /\ DOMAIN run = DOMAIN NoRun /\ run.pc = "writeCells" /\ job # NoJob /\ DOMAIN cells = Cells
      /\ WorldShape /\ promised \in [Builders -> SUBSET Ways]
    BY DEF Shape, RunShape, OutputShape, WriteCell, at, StageShape
<1> DEFINE some == {f \in run.features : c \in CellsOf[f.way]}
<1>a. CASE lost'
    BY <1>a DEF Output, OffsetCoversOutput, Gathered
<1> SUFFICES ASSUME ~lost' PROVE Output'
    BY <1>a
<1>1. /\ UNCHANGED <<scene, nodeVars, lost, promised>> /\ cells' = [cells EXCEPT ![c] = Merged(c, some)]
      /\ run' = [run EXCEPT !.pending = @ \ {c}]
    BY <1>0, CellWritten DEF Stop
<1>2. /\ run'.pos = run.pos /\ run'.features = run.features /\ run'.pc = "writeCells"
      /\ run'.pending = run.pending \ {c}
    BY <1>0, <1>1, Fields
<1>3. \A w \in Ids(run.features) : c \in CellsOf[w] => w \in Ids(some)
    BY DEF Ids
<1>4. \A d \in Cells : Ids(cells[d]) \subseteq Ids(cells'[d])
    BY <1>0, <1>1, MergedKeeps
<1>5. c \in Cells => Ids(some) \subseteq Ids(cells'[c])
    BY <1>0, <1>1, MergedKeeps
<1> HIDE DEF some
<1>6. \A w \in Ways : CellsOf[w] \subseteq Cells
    BY PlanetAssumption
<1>7. \A n \in Nat : WaysIn(0, n)' = WaysIn(0, n)
    BY <1>1, FileKept
<1>8. Known' = Known /\ cp' = cp /\ index' = index /\ nodeFile' = nodeFile
    BY <1>1 DEF nodeVars, Known
<1>9. {"flat", "compact"} \subseteq Builders
    BY DEF Builders
<1>10. OffsetCoversOutput'
    <2>1. \A w \in Ways : \A nodes : Covered(w, nodes) => Covered(w, nodes)'
        BY <1>4, <1>6 DEF Covered
    <2> QED
        BY <2>1, <1>0, <1>1, <1>7, <1>8, <1>9 DEF Output, OffsetCoversOutput, Shape, PlaceShape
<1>11. Gathered'
    <2>1. SUFFICES ASSUME ~lost, job.mode \in {"flat", "compact"}
                   PROVE  /\ promised[job.mode] \subseteq job.layers
                          /\ \A w \in WaysIn(0, run.pos) \cap promised[job.mode] :
                              Cardinality(RefsOf[w] \cap Known) >= 2 =>
                                  \A d \in CellsOf[w] :
                                      \/ w \in Ids(cells'[d])
                                      \/ w \in Ids(run.features) /\ d \in run.pending \ {c}
        BY <1>1, <1>2, <1>7, <1>8 DEF Gathered, Ids, at, Shape, RunShape
    <2>2. /\ promised[job.mode] \subseteq job.layers
          /\ \A w \in WaysIn(0, run.pos) \cap promised[job.mode] :
              Cardinality(RefsOf[w] \cap Known) >= 2 =>
                  \A d \in CellsOf[w] :
                      w \in Ids(cells[d]) \/ (w \in Ids(run.features) /\ d \in run.pending)
        BY <1>0, <2>1 DEF Output, Gathered, at
    <2>3. promised[job.mode] \subseteq Ways
        BY <1>0, <1>9, <2>1
    <2> QED
        BY <1>3, <1>4, <1>5, <1>6, <2>2, <2>3
<1> QED
    BY <1>10, <1>11 DEF Output

\* The place is saved when no cell of the batch is left to write.
LEMMA SaveWayOffsetOutput ==
    ASSUME Shape, Output, SaveWayOffset, UNCHANGED job
    PROVE  Output'
<1>0. /\ DOMAIN run = DOMAIN NoRun /\ run.pc = "writeCells" /\ job # NoJob /\ run.pending = {}
      /\ WorldShape /\ PlaceShape /\ run.pos \in Nat
    BY DEF Shape, RunShape, SaveWayOffset, at, StageShape
<1>1. /\ UNCHANGED <<scene, nodeFile, cells, lost, promised>>
      /\ PlaceSaved(IF run.last THEN 0 ELSE run.pos)
      /\ run' = [run EXCEPT !.features = {}, !.last = FALSE,
                            !.pc = IF run.last THEN "prepareAdmin" ELSE "readWays"]
    BY <1>0 DEF SaveWayOffset, Works, Stop, wayVars
<1>2. run'.pos = run.pos /\ run'.pc \in {"prepareAdmin", "readWays"}
    BY <1>0, <1>1, Fields
<1>3. /\ index'.blocks = index.blocks /\ cand'.nodes = cand.nodes
      /\ cp'.ways = cp.ways \/ (job.mode = "flat" /\ cp'.ways \in {0, run.pos})
      /\ index'.ways = index.ways \/ (job.mode \notin {"flat", "bbox"} /\ index'.ways \in {0, run.pos})
    BY <1>0, <1>1 DEF PlaceSaved, PlaceShape, NoIndex, NoCandidates
<1>4. Known' = Known
    BY <1>1, <1>3 DEF Known
<1>5. job.mode \in {"flat", "compact", "bbox"}
    BY <1>0, JobsAreBuilds DEF Builders, Shape, StageShape, WayStages
<1>6. ~lost /\ job.mode \in {"flat", "compact"} =>
         /\ promised[job.mode] \subseteq job.layers
         /\ \A w \in WaysIn(0, run.pos) \cap promised[job.mode] : Covered(w, Known)
    BY <1>0 DEF Output, Gathered, Covered, at
<1>7. \A n \in Nat : WaysIn(0, n)' = WaysIn(0, n)
    BY <1>1, FileKept
<1>8. Gathered'
    BY <1>0, <1>1, <1>2, <1>4, <1>6, <1>7 DEF Gathered, Covered, at
<1>9. OffsetCoversOutput'
    <2>1. \A w, nodes : Covered(w, nodes)' <=> Covered(w, nodes)
        BY <1>1 DEF Covered
    <2>2. WaysIn(0, 0) = {} /\ cp.ways \in Nat /\ index.ways \in Nat
        BY <1>0, PlacesInFile DEF PlaceShape
    <2> QED
        BY <1>0, <1>1, <1>3, <1>5, <1>6, <1>7, <2>1, <2>2, KnownNodes DEF Output, OffsetCoversOutput
<1> QED
    BY <1>8, <1>9 DEF Output

\* Every step of the way pass keeps saved places behind the output.
LEMMA WayOutput ==
    ASSUME Shape, Output, WayStep
    PROVE  Output'
<1>0. RunShape /\ PlaceShape /\ WorldShape
    BY DEF Shape
<1>1. CASE Ends
    <2>1. cp' = cp /\ index' = index /\ nodeFile' = nodeFile /\ promised' = promised
          /\ (lost' \/ (cells' = cells /\ lost' = lost))
        <3>1. job # NoJob /\ job'.mode = "none"
            BY <1>0, <1>1, WayFlow DEF Ends, Stop, NoJob, Shape, StageShape, WayStages, at
        <3>2. job' # job
            BY <1>1, <3>1 DEF Ends, Stop
        <3>3. CASE OpenWays
            BY <3>2, <3>3 DEF OpenWays
        <3>4. CASE SaveWayOffset
            BY <3>2, <3>4 DEF SaveWayOffset, wayVars
        <3>5. CASE \E c \in run.pending : WriteCell(c)
            BY <3>2, <3>5 DEF WriteCell, nodeVars
        <3>6. CASE UNCHANGED <<nodeVars, wayVars>>
            BY <3>6 DEF nodeVars, wayVars
        <3> QED
            BY <3>3, <3>4, <3>5, <3>6 DEF WayStep, ReadBlob, EndOfWays, ReadWays, TakeWay
    <2>2. ~Gathers' /\ UNCHANGED scene
        BY <1>1, Fields DEF Ends, Stop, Gathers
    <2> QED
        BY <2>1, <2>2, OutputKept
<1>2. CASE UNCHANGED <<job, scene>>
    <2>1. CASE ReadBlob
        <3>1. ~Gathers' /\ job # NoJob
            BY <1>2, <2>1 DEF ReadBlob, Gathers, Shape, StageShape, at
        <3> QED
            BY <1>2, <2>1, <3>1, OutputKept DEF ReadBlob, nodeVars, wayVars
    <2> QED
        BY <1>2, <2>1, OpenWaysOutput, ReadWaysOutput, TakeWayOutput, EndOfWaysOutput, WriteCellOutput,
           SaveWayOffsetOutput DEF WayStep
<1> QED
    BY <1>0, <1>1, <1>2, WayFlow DEF GoesOn


\* Every step leaves the saved places behind the output.
LEMMA OutputStep ==
    ASSUME Shape, Scanning, Output, [Next]_vars
    PROVE  Output'
<1>0. /\ RunShape /\ PlaceShape /\ WorldShape /\ OutputShape /\ StageShape
      /\ (at("openScan") => Scan \in {"relations", "members"})
    BY DEF Shape, Scanning, at, ScanStages
<1>1. CASE NodeStep /\ UNCHANGED <<wayVars, adminVars>>
    <2>1. Ends \/ GoesOn(NodeStages \cup {"openWays", "prepareAdmin"})
        BY <1>0, <1>1, NodeFlow
    <2>2. ~Gathers' /\ UNCHANGED scene
        BY <2>1, Fields DEF Ends, GoesOn, Stop, NodeStages, Gathers
    <2> QED
        BY <1>0, <1>1, <2>2, NodePlaces, NodesSettled, OutputKept DEF wayVars
<1>2. CASE WayStep
    BY <1>2, WayOutput
<1>3. CASE AdminStep
    <2>1. Ends \/ GoesOn(AdminStages)
        BY <1>0, <1>3, AdminFlow
    <2>2. ~Gathers' /\ UNCHANGED scene
        BY <2>1, Fields DEF Ends, GoesOn, Stop, AdminStages, ScanStages, Gathers
    <2> QED
        BY <1>0, <1>3, <2>2, AdminKeeps, OutputKept DEF wayVars
<1>4. ASSUME NEW j \in scene.requests, Start(j)
      PROVE  Output'
    <2>1. run'.pc \in {"openWays", "openNodes"}
        BY <1>0, <1>4, Fields DEF Start, goto, RunShape
    <2> QED
        BY <1>4, <2>1, OutputKept DEF Start, Works, nodeVars, wayVars, Gathers
<1>5. CASE Crash
    <2>1. /\ ~Gathers' /\ UNCHANGED <<scene, cp, index, promised>> /\ (lost' \/ (cells' = cells /\ lost' = lost))
        BY <1>5, Fields DEF Crash, CellsCut, Disturb, Stop, Gathers
    <2>2. nodeFile' = nodeFile \/ cp.ways = 0
        BY <1>0, <1>5 DEF Crash, StageShape, PlaceShape, WayStages, AdminStages, ScanStages, at
    <2> QED
        BY <2>1, <2>2, OutputKept
<1>6. CASE Replace \/ UNCHANGED vars
    <2>1. UNCHANGED <<job, run, scene, nodeVars, wayVars>>
        BY <1>6 DEF Replace, ReplacePlanet, Disturb, vars
    <2>2. Known' = Known
        BY <2>1 DEF Known, nodeVars
    <2> QED
        BY <2>1, <2>2, FileKept DEF Output, Gathered, OffsetCoversOutput, Covered, nodeVars, wayVars, at
<1> QED
    BY <1>1, <1>2, <1>3, <1>4, <1>5, <1>6 DEF Next, Build

\* Nothing is saved and nothing is owed at first.
LEMMA OutputInit ==
    ASSUME Init
    PROVE  Output
<1>1. Shape /\ WaysIn(0, 0) = {}
    BY ShapeInit, PlacesInFile DEF Shape
<1> QED
    BY <1>1, Fields DEF Output, Gathered, OffsetCoversOutput, Init, PlanetInit, NodeInit, WayInit, NoIndex

-----------------------------------------------------------------------------
(* One source.                                                             *)

Single == \A j \in scene.requests : j.mode \in Indexed
Sourced == Bound /\ OneSource

\* Of planet builds with an index only.
LEMMA SingleBuilds ==
    ASSUME Shape, Single
    PROVE  /\ job # NoJob => job.mode \in Indexed /\ job.mode \notin {"flat", "bbox", "none"}
           /\ job # NoJob /\ ~at("openNodes") => index.source > 0
           /\ Store \in Stores
           /\ job # NoJob => Store = "planet"
BY JobsAreBuilds DEF Shape, WorldShape, StageShape, Single, Store, Stores, Indexed

\* Nothing changes in the files, the regions or the source.
LEMMA SourceKept ==
    ASSUME Shape, Sourced, UNCHANGED <<scene, planet, cells, assembly, index.source>>,
           run'.features \in {{}, run.features},
           run'.pc \notin {"readWays", "writeCells", "openScan", "readScan", "saveScan", "saveScanOffset",
                           "markScan", "openAssembly", "republish", "assemble", "publish"}
    PROVE  Sourced'
BY DEF Sourced, Bound, OneSource, ScanStages

\* The node pass binds the build to the file it found, or ends it.
LEMMA NodeSources ==
    ASSUME Shape, Sourced, NodeStep, UNCHANGED <<wayVars, adminVars>>
    PROVE  Sourced'
<1>0. RunShape /\ PlaceShape /\ WorldShape
    BY DEF Shape
<1>1. Ends \/ (GoesOn(NodeStages \cup {"openWays", "prepareAdmin"}) /\ run'.features = run.features)
    BY <1>0, NodeFlow
<1>2. /\ UNCHANGED <<scene, planet, cells, assembly>> /\ run'.features \in {{}, run.features}
      /\ run'.pc \notin {"readWays", "writeCells", "openScan", "readScan", "saveScan", "saveScanOffset",
                         "markScan", "openAssembly", "republish", "assemble", "publish"}
    BY <1>1, Fields DEF Ends, GoesOn, Stop, NodeStages, wayVars, adminVars
<1>3. CASE index'.source = index.source
    BY <1>2, <1>3, SourceKept
<1>4. CASE index'.source # index.source
    <2>0. DOMAIN index = {"source", "offset", "blocks", "indexed", "build", "done", "ways", "broken"} /\ planet \in Nat
        BY <1>0 DEF PlaceShape, NoIndex, WorldShape
    <2>1. index.source = 0 /\ index'.source = planet
        <3>1. CASE OpenIndex
            BY <1>0, <1>4, <3>1, IndexOpens
        <3>2. CASE CommitBlocks \/ MarkIndexed \/ BindBuild
            BY <1>4, <2>0, <3>2 DEF CommitBlocks, MarkIndexed, BindBuild
        <3>3. CASE UNCHANGED index
            BY <1>4, <3>3
        <3> QED
            BY <3>1, <3>2, <3>3 DEF NodeStep, OpenNodeFile, OpenCandidates, ReadNodes, EndOfNodes, WriteNodes,
                SaveNodeOffset, SortNodes, MarkSorted, CommitCandidates, CompleteCandidates, nodeVars
    <2>2. Single => assembly'.regions = {} /\ run'.features = {} /\ \A c \in Cells : cells'[c] = {}
        BY <1>2, <2>1 DEF Sourced, Bound, Single
    <2>3. Single' = Single
        BY <1>2 DEF Single
    <2>4. OneSource'
        BY <1>2, <2>2, <2>3 DEF OneSource, Single, Indexed
    <2>5. index'.source <= planet'
        BY <1>2, <2>0, <2>1
    <2> QED
        BY <1>2, <2>2, <2>3, <2>4, <2>5 DEF Sourced, Bound, Single, ScanStages
<1> QED
    BY <1>3, <1>4


\* A step of the way pass gathers from the file of the index, or from none.
LEMMA WaySources ==
    ASSUME Shape, Sourced, WayStep, UNCHANGED adminVars
    PROVE  Sourced'
<1>0. /\ RunShape /\ PlaceShape /\ WorldShape /\ DOMAIN run = DOMAIN NoRun /\ DOMAIN cells = Cells
      /\ planet \in Nat /\ run.from \in Nat /\ index.source \in Nat
      /\ run.pc \in WayStages /\ run.pc # "openNodes"
      /\ Ends \/ GoesOn({"readWays", "writeCells", "prepareAdmin"})
      /\ index'.source = index.source
    BY WayFlow, WayKeeps DEF Shape, RunShape, PlaceShape, WorldShape, OutputShape, WayStages
<1>1. /\ UNCHANGED <<scene, planet, assembly>> /\ Single' = Single
      /\ run'.pc \notin {"openScan", "readScan", "saveScan", "saveScanOffset",
                         "markScan", "openAssembly", "republish", "assemble", "publish"}
    BY <1>0, Fields DEF Ends, GoesOn, Stop, Single, adminVars
<1>2. SUFFICES ASSUME Single
               PROVE  /\ run'.features = {} \/ \A f \in run'.features : f.from = index.source
                      /\ \A c \in Cells : \A f \in cells'[c] : f.from = index.source
                      /\ run'.pc \in {"readWays", "writeCells"} => index.source <= run'.from /\ run'.from <= planet
    <2>1. SUFFICES ASSUME Single
                   PROVE  /\ index.source > 0 /\ index.source <= planet
                          /\ \A x \in assembly.regions : x.from = index.source
                          /\ \A f \in run'.features : f.from = index.source
                          /\ \A c \in Cells : \A f \in cells'[c] : f.from = index.source
                          /\ run'.pc \in {"readWays", "writeCells"} => index.source <= run'.from /\ run'.from <= planet
        BY <1>0, <1>1 DEF Sourced, Bound, OneSource, Single, Indexed, ScanStages
    <2>2. index.source > 0
        BY <1>0, <2>1, SingleBuilds DEF Shape, StageShape, at, WayStages
    <2> QED
        BY <1>2, <2>1, <2>2 DEF Sourced, Bound, OneSource, Single, Indexed
<1>3. /\ index.source > 0 /\ index.source <= planet /\ job # NoJob /\ job.mode \in {"compact", "import"}
      /\ job.mode # "bbox"
      /\ \A f \in run.features : f.from = index.source
      /\ \A c \in Cells : \A f \in cells[c] : f.from = index.source
      /\ run.pc \in {"readWays", "writeCells"} => index.source <= run.from /\ run.from <= planet
    BY <1>0, <1>2, SingleBuilds DEF Shape, StageShape, at, WayStages, Sourced, Bound, OneSource, Single, Indexed
<1>4. CASE Ends
    <2>1. run'.features = {} /\ run'.pc = "off"
        BY <1>4, Fields DEF Ends, Stop
    <2>2. \A c \in Cells : cells'[c] \in {{}, cells[c]}
        <3>1. job' # job
            BY <1>3, <1>4 DEF Ends, Stop
        <3>2. CASE \E c \in run.pending : WriteCell(c)
            BY <1>0, <3>1, <3>2 DEF WriteCell
        <3> QED
            BY <3>1, <3>2 DEF WayStep, OpenWays, ReadBlob, EndOfWays, SaveWayOffset, ReadWays, TakeWay, wayVars
    <2> QED
        BY <1>3, <2>1, <2>2
<1>5. CASE OpenWays
    <2>1. UNCHANGED cells /\ run'.features = run.features
        <3>1. UNCHANGED cells
            BY <1>5 DEF OpenWays
        <3>2. \/ run' = [run EXCEPT !.pc = "prepareAdmin"]
              \/ run' = [run EXCEPT !.pc = "readWays", !.from = planet, !.last = FALSE,
                                  !.pos = SavedPlace(job.mode)]
            BY <1>5 DEF OpenWays, goto
        <3> QED
            BY <1>0, <3>1, <3>2, Fields
    <2>2. run'.pc = "prepareAdmin" \/ run'.from = planet
        BY <1>0, <1>5, Fields DEF OpenWays, goto
    <2> QED
        BY <1>0, <1>3, <2>1, <2>2
<1>6. ASSUME NEW k \in DOMAIN Blobs, ReadWays(k), UNCHANGED job
      PROVE  /\ run'.features = {} \/ \A f \in run'.features : f.from = index.source
             /\ \A c \in Cells : \A f \in cells'[c] : f.from = index.source
             /\ run'.pc \in {"readWays", "writeCells"} => index.source <= run'.from /\ run'.from <= planet
    <2> DEFINE new == Features(WaysIn(run.pos, k) \cap job.layers)
               next == [run EXCEPT !.pos = k, !.features = @ \cup new]
    <2>1. /\ planet = index.source /\ run' \in {next, Flushing(next)} /\ UNCHANGED cells /\ run.pc = "readWays"
        BY <1>3, <1>6 DEF ReadWays, SameSource, Fails, Stop, wayVars, at
    <2>2. run.from = index.source
        BY <1>0, <1>3, <2>1
    <2>3. \A f \in new : f.from = run.from
        <3> TAKE f \in new
        <3>1. PICK w \in Ways \cup WaysIn(run.pos, k) :
                  f = [way |-> w, points |-> RefsOf[w] \cap Known, from |-> run.from]
            BY DEF Features
        <3> QED
            BY <3>1
    <2> HIDE DEF new
    <2>4. next.features = run.features \cup new /\ next.from = run.from /\ DOMAIN next = DOMAIN NoRun
        BY <1>0, Fields
    <2> HIDE DEF next
    <2>5. run'.features = next.features /\ run'.from = next.from
        BY <2>1, <2>4, Fields DEF Flushing
    <2> QED
        BY <1>3, <2>1, <2>2, <2>3, <2>4, <2>5
<1>7. CASE EndOfWays /\ UNCHANGED job
    <2>1. run' = Flushing([run EXCEPT !.last = TRUE]) /\ UNCHANGED cells /\ run.pc = "readWays"
        BY <1>3, <1>7 DEF EndOfWays, Stop, wayVars, at
    <2>2. run'.features = run.features /\ run'.from = run.from
        BY <1>0, <2>1, Fields DEF Flushing
    <2> QED
        BY <1>3, <2>1, <2>2
<1>8. CASE SaveWayOffset /\ UNCHANGED job
    <2>1. run'.features = {} /\ run'.from = run.from /\ UNCHANGED cells /\ run.pc = "writeCells"
        BY <1>0, <1>3, <1>8, Fields DEF SaveWayOffset, Stop, wayVars, at
    <2> QED
        BY <1>3, <2>1
<1>9. ASSUME NEW c \in run.pending, WriteCell(c), UNCHANGED job
      PROVE  /\ run'.features = {} \/ \A f \in run'.features : f.from = index.source
             /\ \A d \in Cells : \A f \in cells'[d] : f.from = index.source
             /\ run'.pc \in {"readWays", "writeCells"} => index.source <= run'.from /\ run'.from <= planet
    <2> DEFINE some == {f \in run.features : c \in CellsOf[f.way]}
    <2>1. /\ run' = [run EXCEPT !.pending = @ \ {c}] /\ run.pc = "writeCells"
          /\ \/ cells' = [cells EXCEPT ![c] = Merged(c, some)]
             \/ cells' = [cells EXCEPT ![c] = some]
        BY <1>3, <1>9, CellWritten DEF Stop
    <2>2. run'.features = run.features /\ run'.from = run.from
        BY <1>0, <2>1, Fields
    <2>3. some \subseteq run.features
        OBVIOUS
    <2>4. c \in Cells => \A f \in Merged(c, some) : f.from = index.source
        BY <1>3, <2>3 DEF Merged
    <2> HIDE DEF some
    <2> QED
        BY <1>0, <1>3, <2>1, <2>2, <2>3, <2>4
<1>10. ~ReadBlob /\ \A w : ~TakeWay(w)
    BY <1>3 DEF ReadBlob, TakeWay, SavedPlace, at, WayStages
<1> QED
    BY <1>0, <1>4, <1>5, <1>6, <1>7, <1>8, <1>9, <1>10 DEF WayStep, GoesOn


\* Only its preparation gives a scan another source: the file of the moment.
LEMMA AdmSources ==
    ASSUME Shape, Scanning, AdminStep
    PROVE  \/ \A s \in Stores : adm'[s].source = adm[s].source
           \/ PrepareSource /\ adm'[Store].source = planet
<1>1. CASE PrepareSource
    <2>1. CASE job.admin
        <3>1. adm'[Store] = IF adm[Store].source = planet THEN adm[Store] ELSE [NoScan EXCEPT !.source = planet]
            BY <1>1, <2>1 DEF PrepareSource, Shape, OutputShape, Store
        <3>2. adm'[Store].source = planet
            BY <3>1 DEF NoScan
        <3> QED
            BY <1>1, <3>2
    <2>2. CASE ~job.admin
        BY <1>1, <2>2 DEF PrepareSource
    <2> QED
        BY <2>1, <2>2
<1>2. CASE SaveScan \/ SaveScanOffset \/ MarkScan
    <2>1. /\ adm \in [Stores -> Scanned] /\ Store \in Stores /\ Scan \in Kinds /\ Adm = adm[Store]
          /\ run.found \subseteq Things(Scan) /\ run.pos \in Nat /\ Adm.offset[Scan] \in Nat
        BY <1>2, ScanFacts DEF SaveScan, SaveScanOffset, MarkScan, at, ScanStages
    <2>2. CASE adm' = adm
        BY <2>2
    <2>3. CASE adm' = [adm EXCEPT ![Store].saved[Scan] = @ \cup run.found]
        <3>1. adm[Store].saved[Scan] \subseteq Things(Scan)
            BY <2>1 DEF Scanned, Kinds, Things
        <3>2. PICK v \in SUBSET Things(Scan) : v = adm[Store].saved[Scan] \cup run.found
            BY <2>1, <3>1
        <3>3. Saves(adm', adm, Store, Scan, v)
            BY <2>3, <3>2 DEF Saves
        <3>4. adm'[Store].source = adm[Store].source /\ \A t \in Stores : t # Store => adm'[t] = adm[t]
            BY <2>1, <3>3, SavedUpdate
        <3> QED
            BY <3>4
    <2>4. CASE adm' = [adm EXCEPT ![Store].offset[Scan] = run.pos]
        <3>1. adm'[Store].source = adm[Store].source /\ \A t \in Stores : t # Store => adm'[t] = adm[t]
            BY <2>1, <2>4, OffsetUpdate
        <3> QED
            BY <3>1
    <2>5. ASSUME NEW kept \in Nat,
                 adm' = [adm EXCEPT ![Store].done[Scan] = TRUE, ![Store].offset[Scan] = kept]
          PROVE  \A s \in Stores : adm'[s].source = adm[s].source
        <3>1. Marks(adm', adm, Store, Scan, kept)
            BY <2>5 DEF Marks
        <3>2. adm'[Store].source = adm[Store].source /\ \A t \in Stores : t # Store => adm'[t] = adm[t]
            BY <2>1, <3>1, DoneUpdate
        <3> QED
            BY <3>2
    <2>6. CASE MarkScan
        <3>1. PICK kept \in {0, Adm.offset[Scan]} :
                  adm' = [adm EXCEPT ![Store].done[Scan] = TRUE, ![Store].offset[Scan] = kept]
            BY <2>6 DEF MarkScan
        <3>2. kept \in Nat
            BY <2>1
        <3> QED
            BY <2>5, <3>1, <3>2
    <2> QED
        BY <1>2, <2>2, <2>3, <2>4, <2>6 DEF SaveScan, SaveScanOffset
<1>3. CASE adm' = adm
    BY <1>3
<1> QED
    BY <1>1, <1>2, <1>3 DEF AdminStep, OpenScan, ReadScan, EndOfScan, OpenAssembly, Republish, PublishMore,
        LevelDone, WriteLevels, Finish, SaveRegion, adminVars

\* The stages at which the boundaries have a source.
Prepared == {"openScan", "readScan", "saveScan", "saveScanOffset", "markScan",
             "openAssembly", "republish", "assemble", "publish"}

\* The boundary pass keeps what its store says of the file it came from.
LEMMA AdminSources ==
    ASSUME Shape, Scanning, Sourced, AdminStep
    PROVE  Sourced'
<1>0. /\ RunShape /\ PlaceShape /\ WorldShape /\ OutputShape /\ DOMAIN run = DOMAIN NoRun
      /\ planet \in Nat /\ index.source \in Nat /\ index'.source = index.source /\ cells' = cells
      /\ run.pc \in AdminStages /\ run.pc # "openNodes"
      /\ Ends \/ (GoesOn(AdminStages) /\ run'.features = run.features)
    BY AdminFlow, AdminKeeps
        DEF Shape, RunShape, PlaceShape, WorldShape, Scanning, at, ScanStages, AdminStages, wayVars
<1>1. /\ UNCHANGED <<scene, planet>> /\ Single' = Single
      /\ run'.pc \notin {"readWays", "writeCells"} /\ run'.features \in {{}, run.features}
    BY <1>0, Fields DEF Ends, GoesOn, Stop, Single, AdminStages, ScanStages
<1>2. SUFFICES ASSUME Single
               PROVE  /\ assembly'.regions = {} \/ \A x \in assembly'.regions : x.from = index.source
                      /\ run'.pc \in Prepared => index.source <= Adm'.source /\ Adm'.source <= planet
    <2>1. Single => index.source > 0
        BY <1>0, SingleBuilds DEF Shape, StageShape, at, AdminStages, ScanStages
    <2>2. SUFFICES ASSUME Single
                   PROVE  /\ index.source <= planet
                          /\ \A x \in assembly'.regions : x.from = index.source
                          /\ \A f \in run.features : f.from = index.source
                          /\ \A c \in Cells : \A f \in cells[c] : f.from = index.source
                          /\ run'.pc \in Prepared => index.source <= Adm'.source /\ Adm'.source <= planet
        BY <1>0, <1>1, <2>1 DEF Sourced, Bound, OneSource, Single, Indexed, ScanStages, Prepared
    <2> QED
        BY <1>2, <2>2 DEF Sourced, Bound, OneSource, Single, Indexed
<1>3. /\ index.source > 0 /\ index.source <= planet /\ job # NoJob /\ job.mode \in {"compact", "import"}
      /\ Store \in Stores
      /\ \A x \in assembly.regions : x.from = index.source
      /\ run.pc \in Prepared => index.source <= Adm.source /\ Adm.source <= planet
    BY <1>0, <1>2, SingleBuilds DEF Shape, StageShape, at, AdminStages, ScanStages, Prepared,
        Sourced, Bound, OneSource, Single, Indexed
<1>4. run'.pc \in Prepared => index.source <= Adm'.source /\ Adm'.source <= planet
    <2> SUFFICES ASSUME run'.pc \in Prepared
                 PROVE  index.source <= Adm'.source /\ Adm'.source <= planet
        OBVIOUS
    <2>1. job' = job
        BY <1>0, Fields DEF Ends, GoesOn, Stop, Prepared
    <2>2. Adm' = adm'[Store]
        BY <2>1 DEF Adm, Store
    <2>3. CASE PrepareSource /\ adm'[Store].source = planet
        BY <1>0, <1>3, <2>2, <2>3
    <2>4. CASE \A s \in Stores : adm'[s].source = adm[s].source
        <3>1. Adm'.source = Adm.source
            BY <1>3, <2>2, <2>4 DEF Adm
        <3>2. CASE run.pc \in Prepared
            BY <1>3, <3>1, <3>2
        <3>3. CASE PrepareSource
            <4>1. job.admin
                BY <1>0, <3>3, Fields DEF PrepareSource, goto, Prepared
            <4>2. adm'[Store].source = planet
                <5>1. adm'[Store] = IF adm[Store].source = planet THEN adm[Store]
                                    ELSE [NoScan EXCEPT !.source = planet]
                    BY <1>0, <3>3, <4>1 DEF PrepareSource, OutputShape, Store
                <5> QED
                    BY <5>1 DEF NoScan
            <4> QED
                BY <1>0, <1>3, <2>2, <4>2
        <3>4. CASE WriteLevels \/ Finish
            BY <1>0, <2>1, <1>3, <3>4, Fields DEF WriteLevels, Finish, Fails, Stop, Prepared
        <3> QED
            BY <3>2, <3>3, <3>4 DEF AdminStep, OpenScan, ReadScan, EndOfScan, SaveScan, SaveScanOffset, MarkScan,
                OpenAssembly, Republish, PublishMore, LevelDone, SaveRegion, at, Prepared
    <2> QED
        BY <2>3, <2>4, AdmSources
<1>5. assembly'.regions = {} \/ \A x \in assembly'.regions : x.from = index.source
    <2>1. CASE OpenAssembly
        BY <1>3, <2>1 DEF OpenAssembly
    <2>2. ASSUME NEW r \in Relations, SaveRegion(r)
          PROVE  \A x \in assembly'.regions : x.from = index.source
        <3>1. CASE UNCHANGED assembly
            BY <1>3, <3>1
        <3>2. CASE SameSource(index.source) /\ assembly' = [assembly EXCEPT !.regions = @ \cup {Region(r)}]
            <4>1. planet = index.source /\ run.pc = "assemble"
                BY <1>3, <2>2, <3>2 DEF SameSource, SaveRegion, at
            <4>2. Adm.source \in Nat
                BY <1>0, <1>3 DEF OutputShape, Stores, Adm, Scanned
            <4>3. Adm.source = index.source
                BY <1>0, <1>3, <4>1, <4>2 DEF Prepared
            <4>4. Region(r).from = index.source
                BY <4>3 DEF Region
            <4>5. assembly'.regions \subseteq assembly.regions \cup {Region(r)}
                BY <3>2
            <4> QED
                BY <1>3, <4>4, <4>5
        <3> QED
            BY <2>2, <3>1, <3>2 DEF SaveRegion
    <2>3. CASE UNCHANGED assembly
        BY <1>3, <2>3
    <2> QED
        BY <2>1, <2>2, <2>3 DEF AdminStep, PrepareSource, OpenScan, ReadScan, EndOfScan, SaveScan,
            SaveScanOffset, MarkScan, Republish, PublishMore, LevelDone, WriteLevels, Finish, adminVars
<1> QED
    BY <1>4, <1>5


\* Every step keeps what is saved with the file it came from.
LEMMA SourceStep ==
    ASSUME Shape, Scanning, Sourced, [Next]_vars
    PROVE  Sourced'
<1>1. ASSUME NEW j \in scene.requests, Start(j)
      PROVE  Sourced'
    <2>1. run'.pc \in {"openWays", "openNodes"} /\ run'.features = run.features
        BY <1>1, Fields DEF Start, goto, Shape, RunShape
    <2> QED
        BY <1>1, <2>1, SourceKept DEF Start, Works, nodeVars, wayVars, adminVars
<1>2. CASE Crash
    <2>1. /\ run'.features = {} /\ run'.pc = "off" /\ UNCHANGED <<scene, planet, assembly, index>>
        BY <1>2, Fields DEF Crash, Stop, Disturb, adminVars
    <2>2. \A c \in Cells : cells'[c] \in {{}, cells[c]}
        BY <1>2 DEF Crash, CellsCut, Shape, OutputShape
    <2> QED
        BY <2>1, <2>2 DEF Sourced, Bound, OneSource, ScanStages
<1>3. CASE Replace \/ UNCHANGED vars
    <2>1. /\ UNCHANGED <<job, run, scene, cells, assembly, adm, index>>
          /\ planet' \in Nat /\ planet <= planet' /\ planet \in Nat
        BY <1>3 DEF Replace, ReplacePlanet, Disturb, vars, nodeVars, wayVars, adminVars, Shape, WorldShape
    <2>2. Adm' = Adm /\ Single' = Single
        BY <2>1 DEF Adm, Store, Single
    <2>3. /\ run.from \in Nat /\ index.source \in Nat
          /\ run.pc \in ScanStages \cup {"openAssembly", "republish", "assemble", "publish"} => Adm.source \in Nat
        BY DEF Shape, RunShape, PlaceShape, OutputShape, Adm, Store, Scanned
    <2> QED
        BY <2>1, <2>2, <2>3 DEF Sourced, Bound, OneSource, Single, Indexed, ScanStages
<1> QED
    BY <1>1, <1>2, <1>3, NodeSources, WaySources, AdminSources DEF Next, Build

\* Nothing has a source at first.
LEMMA SourceInit ==
    ASSUME Init
    PROVE  Sourced
BY Fields DEF Sourced, Bound, OneSource, Init, PlanetInit, NodeInit, WayInit, AdminInit, NoIndex, ScanStages

-----------------------------------------------------------------------------
(* What builds rely on when they resume.                                   *)

\* A finished scan has stored what the file holds.
LEMMA WholeScans ==
    Scanning => ScansAreWhole
<1> SUFFICES ASSUME Scanning, NEW s \in {"bbox", "planet"}
             PROVE  /\ adm[s].done.relations => adm[s].saved.relations = RelationsIn(0, End)
                    /\ adm[s].done.members => adm[s].saved.members =
                          WaysIn(0, End) \cap UNION {MembersOf[r] : r \in adm[s].saved.relations}
    BY DEF ScansAreWhole
<1>1. ScanHolds(adm[s])
    BY DEF Scanning
<1>2. adm[s].done.relations => adm[s].saved.relations = RelationsIn(0, End)
    BY <1>1 DEF ScanHolds
<1>3. adm[s].done.members => adm[s].saved.members = WaysIn(0, End) \cap MembersWanted(adm[s])
    BY <1>1 DEF ScanHolds
<1> QED
    BY <1>2, <1>3 DEF MembersWanted

\* What every build relies on holds at first.
LEMMA ResumesInit == Init => Resumes
BY ShapeInit, OutputInit, SourceInit, WholeScans DEF Output, Sourced, Resumes

\* What every build relies on is kept by every step.
LEMMA ResumesStep == Resumes /\ [Next]_vars => Resumes'
<1> SUFFICES ASSUME Resumes, [Next]_vars
             PROVE  Resumes'
    OBVIOUS
<1>1. Shape /\ Scanning /\ Output /\ Sourced
    BY DEF Resumes, Output, Sourced
<1>2. Shape' /\ Scanning' /\ Output' /\ Sourced'
    BY <1>1, ShapeStep, OutputStep, SourceStep
<1>3. (Scanning => ScansAreWhole)'
    BY WholeScans, PTL
<1> QED
    BY <1>2, <1>3 DEF Resumes, Output, Sourced

-----------------------------------------------------------------------------
(* The end of a compact build.                                             *)

\* The nodes between two places, and those of one blob.
LEMMA NodesLie ==
    ASSUME WorldShape, NEW a \in Nat, NEW m \in Nat, a <= m
    PROVE  /\ NodeIds(m, m) = {}
           /\ \A b \in Nat : m <= b => NodeIds(a, b) = NodeIds(a, m) \cup NodeIds(m, b)
           /\ m < End => /\ NodeIds(m, m + 1) = ToSet(Blobs[m + 1].nodes)
                         /\ Blobs[m + 1].nodes \in Seq(Nat)
<1>0. End \in Nat /\ DOMAIN Blobs = 1 .. End
    BY BlobsAreTyped
<1>1. NodeIds(m, m) = {}
    BY <1>0 DEF NodeIds, Between
<1>2. ASSUME NEW b \in Nat, m <= b
      PROVE  NodeIds(a, b) = NodeIds(a, m) \cup NodeIds(m, b)
    <2>1. Between(a, b) = Between(a, m) \cup Between(m, b)
        BY <1>0, <1>2 DEF Between
    <2> QED
        BY <2>1 DEF NodeIds
<1>3. ASSUME m < End
      PROVE  /\ NodeIds(m, m + 1) = ToSet(Blobs[m + 1].nodes)
             /\ Blobs[m + 1].nodes \in Seq(Nat)
    <2>1. Between(m, m + 1) = {m + 1}
        BY <1>0, <1>3 DEF Between
    <2>3. Blobs[m + 1].nodes \in Seq(Nat)
        BY <1>0, <1>3, BlobsAreTyped
    <2>4. \A x : x \in NodeIds(m, m + 1) <=> \E i \in Between(m, m + 1) : x \in ToSet(Blobs[i].nodes)
        BY DEF NodeIds
    <2>5. \A x : x \in NodeIds(m, m + 1) <=> x \in ToSet(Blobs[m + 1].nodes)
        BY <2>1, <2>4
    <2> QED
        BY <2>3, <2>5
<1> QED
    BY <1>1, <1>2, <1>3

\* A batch that is read on.
LEMMA Joined ==
    ASSUME NEW s \in Seq(Nat), NEW t \in Seq(Nat)
    PROVE  s \o t \in Seq(Nat) /\ ToSet(s \o t) = ToSet(s) \cup ToSet(t)
<1>1. /\ s \o t \in Seq(Nat) /\ Len(s) \in Nat /\ Len(t) \in Nat
      /\ DOMAIN s = 1 .. Len(s) /\ DOMAIN t = 1 .. Len(t)
      /\ DOMAIN (s \o t) = 1 .. Len(s) + Len(t)
    OBVIOUS
<1>2. \A i \in DOMAIN s : (s \o t)[i] = s[i] /\ i \in DOMAIN (s \o t)
    BY <1>1
<1>3. \A i \in DOMAIN t : (s \o t)[i + Len(s)] = t[i] /\ i + Len(s) \in DOMAIN (s \o t)
    BY <1>1
<1>4. \A i \in DOMAIN (s \o t) : (s \o t)[i] \in ToSet(s) \cup ToSet(t)
    <2> TAKE i \in DOMAIN (s \o t)
    <2>1. CASE i <= Len(s)
        BY <1>1, <1>2, <2>1 DEF ToSet
    <2>2. CASE i > Len(s)
        <3>1. i - Len(s) \in DOMAIN t /\ (i - Len(s)) + Len(s) = i
            BY <1>1, <2>2
        <3> QED
            BY <1>3, <3>1 DEF ToSet
    <2> QED
        BY <1>1, <2>1, <2>2
<1>5. ToSet(s) \subseteq ToSet(s \o t)
    BY <1>2 DEF ToSet
<1>6. ToSet(t) \subseteq ToSet(s \o t)
    BY <1>3 DEF ToSet
<1>7. ToSet(s \o t) \subseteq ToSet(s) \cup ToSet(t)
    BY <1>4 DEF ToSet
<1> QED
    BY <1>1, <1>5, <1>6, <1>7

\* A batch without nodes is empty.
LEMMA NothingRead ==
    ASSUME NEW s \in Seq(Nat), ToSet(s) = {}
    PROVE  s = <<>>
<1> SUFFICES ASSUME s # <<>>
             PROVE  FALSE
    OBVIOUS
<1>1. Len(s) \in Nat \ {0}
    BY EmptySeq, Zenon
<1>2. 1 \in DOMAIN s
    BY <1>1
<1> QED
    BY <1>2 DEF ToSet

\* The later passes read no nodes and leave the index's place alone.
LEMMA LaterPasses ==
    ASSUME Shape, WayStep \/ AdminStep
    PROVE  /\ run'.nodes \in {run.nodes, <<>>}
           /\ UNCHANGED <<index.offset, index.build, index.blocks, index.indexed, index.source>>
           /\ index'.done = index.done \/ Finish
<1>0. /\ DOMAIN run = DOMAIN NoRun /\ RunShape /\ PlaceShape
      /\ DOMAIN index = {"source", "offset", "blocks", "indexed", "build", "done", "ways", "broken"}
      /\ NoRun.nodes = <<>>
    BY DEF Shape, RunShape, PlaceShape, NoIndex, NoRun
<1>1. CASE WayStep
    <2>1. UNCHANGED <<index.blocks, index.indexed, index.source>>
        BY <1>0, <1>1, WayKeeps
    <2>2. UNCHANGED <<index.offset, index.build, index.done>>
        BY <1>0, <1>1 DEF WayStep, OpenWays, ReadBlob, EndOfWays, ReadWays, TakeWay, WriteCell, SaveWayOffset,
            PlaceSaved, nodeVars
    <2>3. run'.nodes \in {run.nodes, <<>>}
        <3>1. CASE OpenWays
            <4>1. CASE run' = [run EXCEPT !.pc = "prepareAdmin"]
                BY <1>0, <4>1, Fields
            <4>2. CASE run' = [run EXCEPT !.pc = "readWays", !.from = planet, !.last = FALSE,
                                  !.pos = SavedPlace(job.mode)]
                BY <1>0, <4>2, Fields
            <4> QED
                BY <3>1, <4>1, <4>2 DEF OpenWays, goto
        <3>5. CASE ReadBlob
            BY <1>0, <3>5, Fields DEF ReadBlob, Stop, Fails
        <3>6. CASE EndOfWays
            <4> DEFINE next == [run EXCEPT !.last = TRUE]
            <4>1. DOMAIN next = DOMAIN run /\ next.nodes = run.nodes
                BY <1>0, Fields
            <4>2. run' = Flushing(next) \/ run' = NoRun
                BY <3>6 DEF EndOfWays, Stop
            <4> HIDE DEF next
            <4>3. Flushing(next).nodes = next.nodes
                BY <1>0, <4>1, Fields DEF Flushing
            <4> QED
                BY <1>0, <4>1, <4>2, <4>3
        <3>7. CASE SaveWayOffset
            <4>1. CASE run' = [run EXCEPT !.features = {}, !.last = FALSE,
                                  !.pc = IF run.last THEN "prepareAdmin" ELSE "readWays"]
                BY <1>0, <4>1, Fields
            <4> QED
                BY <1>0, <3>7, <4>1 DEF SaveWayOffset, Stop
        <3>2. ASSUME NEW k \in DOMAIN Blobs, ReadWays(k)
              PROVE  run'.nodes \in {run.nodes, <<>>}
            <4> DEFINE next == [run EXCEPT !.pos = k,
                             !.features = @ \cup Features(WaysIn(run.pos, k) \cap job.layers)]
            <4>1. DOMAIN next = DOMAIN run /\ next.nodes = run.nodes
                BY <1>0, Fields
            <4>2. run' \in {next, Flushing(next), NoRun}
                BY <3>2 DEF ReadWays, Stop, Fails
            <4> HIDE DEF next
            <4>3. Flushing(next).nodes = next.nodes
                BY <1>0, <4>1, Fields DEF Flushing
            <4> QED
                BY <1>0, <4>1, <4>2, <4>3
        <3>3. ASSUME NEW w \in run.rest, TakeWay(w)
              PROVE  run'.nodes \in {run.nodes, <<>>}
            BY <1>0, <3>3, Fields DEF TakeWay, Flushing
        <3>4. ASSUME NEW c \in run.pending, WriteCell(c)
              PROVE  run'.nodes \in {run.nodes, <<>>}
            BY <1>0, <3>4, Fields DEF WriteCell, Stop, Fails
        <3> QED
            BY <1>1, <3>1, <3>2, <3>3, <3>4, <3>5, <3>6, <3>7 DEF WayStep
    <2> QED
        BY <2>1, <2>2, <2>3
<1>2. CASE AdminStep
    <2>1. UNCHANGED <<index.blocks, index.indexed, index.source>>
        BY <1>0, <1>2, AdminKeeps
    <2>2. UNCHANGED <<index.offset, index.build>> /\ (index'.done = index.done \/ Finish)
        BY <1>0, <1>2 DEF AdminStep, PrepareSource, OpenScan, ReadScan, EndOfScan, SaveScan, SaveScanOffset,
            MarkScan, OpenAssembly, Republish, PublishMore, LevelDone, WriteLevels, SaveRegion, Finish, nodeVars
    <2>3. run'.nodes \in {run.nodes, <<>>}
        <3>5. CASE PrepareSource
            <4>1. CASE job.admin
                <5>1. run' = AfterScan(adm'[Store])
                    BY <3>5, <4>1 DEF PrepareSource
                <5> QED
                    BY <1>0, <5>1, Fields DEF AfterScan
            <4>2. CASE ~job.admin
                BY <1>0, <3>5, <4>2, Fields DEF PrepareSource, goto
            <4> QED
                BY <4>1, <4>2
        <3>6. CASE OpenScan
            BY <1>0, <3>6, Fields DEF OpenScan
        <3>7. CASE EndOfScan
            BY <1>0, <3>7, Fields DEF EndOfScan
        <3>8. CASE MarkScan
            BY <1>0, <3>8, Fields DEF MarkScan, AfterScan
        <3>9. CASE ReadScan
            <4>1. ASSUME NEW found, NEW pc,
                         run' = [run EXCEPT !.pos = run.pos + 1, !.found = found, !.pc = pc]
                  PROVE  run'.nodes = run.nodes
                BY <1>0, <4>1, Fields
            <4> QED
                BY <1>0, <3>9, <4>1 DEF ReadScan, Fails, Stop
        <3>10. CASE SaveScan
            <4>1. CASE Fails
                BY <1>0, <4>1 DEF Fails, Stop
            <4>2. CASE run' = [run EXCEPT !.found = {}, !.pc = IF run.last THEN "markScan" ELSE "saveScanOffset"]
                BY <1>0, <4>2, Fields
            <4> QED
                BY <3>10, <4>1, <4>2 DEF SaveScan
        <3>11. CASE SaveScanOffset
            BY <1>0, <3>11, Fields DEF SaveScanOffset, Fails, Stop, goto
        <3>12. CASE OpenAssembly
            BY <1>0, <3>12, Fields DEF OpenAssembly, Stop
        <3>13. CASE Finish
            BY <1>0, <3>13, Fields DEF Finish, Stop
        <3>14. CASE Republish
            <4> DEFINE level == IF NextLevel(run.level) = 0 THEN Min(Levels) ELSE NextLevel(run.level)
                       pc == IF NextLevel(run.level) = 0 THEN "assemble" ELSE "republish"
                       next == [run EXCEPT !.level = level, !.pc = pc]
            <4>1. run' = next \/ run' = NoRun
                BY <3>14 DEF Republish, Publish, Fails, Stop
            <4> HIDE DEF level, pc
            <4> QED
                BY <1>0, <4>1, Fields
        <3>15. CASE PublishMore
            BY <1>0, <3>15, Fields DEF PublishMore, Publish, Fails, Stop
        <3>16. CASE LevelDone
            BY <1>0, <3>16, Fields DEF LevelDone, Publish, Fails, Stop
        <3>17. CASE WriteLevels
            <4> DEFINE l == IF run.level = 0 THEN Min(Levels) ELSE run.level
                       pc == IF NextLevel(l) = 0 THEN "finish" ELSE "writeLevels"
                       next == [run EXCEPT !.level = NextLevel(l), !.pc = pc]
            <4>1. run' = next \/ run' = NoRun
                BY <3>17 DEF WriteLevels, Fails, Stop
            <4> HIDE DEF l, pc
            <4> QED
                BY <1>0, <4>1, Fields
        <3>4. ASSUME NEW r \in Relations, SaveRegion(r)
              PROVE  run'.nodes \in {run.nodes, <<>>}
            BY <1>0, <3>4, Fields DEF SaveRegion, Stop, Fails, goto
        <3> QED
            BY <1>2, <3>4, <3>5, <3>6, <3>7, <3>8, <3>9, <3>10, <3>11,
                <3>12, <3>13, <3>14, <3>15, <3>16, <3>17 DEF AdminStep
    <2> QED
        BY <2>1, <2>2, <2>3
<1> QED
    BY <1>1, <1>2

\* The file stays as it is, its nodes with it.
LEMMA NodesKept ==
    ASSUME UNCHANGED scene
    PROVE  End' = End /\ \A a, b : NodeIds(a, b)' = NodeIds(a, b)
BY DEF End, Blobs, NodeIds, Between

\* What has to be shown of a step that reads or commits nodes.
LEMMA IndexingMoves ==
    ASSUME UNCHANGED scene, run'.nodes \in Seq(Nat),
           run'.pc \notin {"readNodes", "writeNodes"} => run'.nodes = <<>>,
           index'.blocks = NodeIds(0, index'.offset),
           index'.indexed => index'.offset = End,
           job'.mode \in Indexed /\ run'.pc \in {"readNodes", "writeNodes"} =>
               index'.offset <= run'.pos /\ ToSet(run'.nodes) = NodeIds(index'.offset, run'.pos),
           job'.mode \in Indexed /\ run'.pc = "markIndexed" => index'.offset = End
    PROVE  Indexing'
BY NodesKept DEF Indexing, Indexed, at

\* A step that does not read the nodes of an indexed build.
LEMMA IndexingKept ==
    ASSUME Indexing, UNCHANGED <<scene, index.offset, index.blocks, index.indexed>>,
           run'.nodes \in Seq(Nat),
           run'.pc \notin {"readNodes", "writeNodes"} => run'.nodes = <<>>,
           job'.mode \in Indexed => run'.pc \notin {"readNodes", "writeNodes", "markIndexed"}
    PROVE  Indexing'
BY NodesKept DEF Indexing, Indexed, at

\* A build that ends holds no nodes.
LEMMA IndexingEnds ==
    ASSUME Indexing, Stop, UNCHANGED <<scene, index.offset, index.blocks, index.indexed>>
    PROVE  Indexing'
<1>1. run'.nodes = <<>> /\ run'.pc = "off"
    BY DEF Stop, NoRun
<1>2. job'.mode \notin Indexed
    BY DEF Stop, NoJob, Indexed
<1>3. <<>> \in Seq(Nat)
    OBVIOUS
<1> QED
    BY <1>1, <1>2, <1>3, IndexingKept

\* A batch of an index is read, blob by blob, and committed with its place.
LEMMA NodeIndexing ==
    ASSUME Shape, Indexing, NodeStep
    PROVE  Indexing'
<1>0. /\ DOMAIN run = DOMAIN NoRun /\ run.pos \in Nat /\ index.offset \in Nat /\ End \in Nat /\ WorldShape
      /\ DOMAIN index = {"source", "offset", "blocks", "indexed", "build", "done", "ways", "broken"}
      /\ DOMAIN NoRun = {"pc", "from", "pos", "last", "nodes", "features", "rest", "pending",
                         "what", "found", "level"}
      /\ run.nodes \in Seq(Nat) /\ <<>> \in Seq(Nat) /\ ToSet(<<>>) = {}
    BY BlobsAreTyped, Fields DEF Shape, RunShape, PlaceShape, NoIndex, Indexing, ToSet
<1>1. CASE Stop /\ UNCHANGED <<scene, index.offset, index.blocks, index.indexed>>
    BY <1>1, IndexingEnds
<1>2. CASE OpenNodeFile \/ OpenCandidates
    <2>1. ASSUME ~Stop
          PROVE  /\ run.nodes = <<>> /\ run'.nodes = run.nodes /\ UNCHANGED <<scene, index, job>>
                 /\ job.mode \notin Indexed
        BY <1>0, <1>2, <2>1 DEF OpenNodeFile, OpenCandidates, Works, Indexing, Indexed, at
    <2>2. UNCHANGED <<scene, index>>
        BY <1>2 DEF OpenNodeFile, OpenCandidates, Works
    <2> QED
        BY <1>0, <1>1, <2>1, <2>2, IndexingKept
<1>3. CASE OpenIndex
    <2>1. /\ UNCHANGED <<scene, index.offset, index.blocks, index.indexed>> /\ run.nodes = <<>>
          /\ run.pc = "openNodes"
        BY <1>3, IndexOpens DEF Indexing, Shape
    <2>2. CASE UNCHANGED job /\ run' = [run EXCEPT !.pc = IF index.indexed THEN "bind" ELSE "readNodes",
                                  !.from = planet, !.pos = index.offset]
        <3>1. /\ run'.nodes = <<>> /\ run'.pos = index.offset
              /\ run'.pc = IF index.indexed THEN "bind" ELSE "readNodes"
            BY <1>0, <2>1, <2>2
        <3>2. NodeIds(index.offset, index.offset) = {}
            BY <1>0, NodesLie
        <3> QED
            <4>1. ToSet(run'.nodes) = NodeIds(run'.pos, run'.pos) /\ run'.pos = index'.offset
                BY <1>0, <2>1, <3>1, <3>2
            <4> QED
                BY <1>0, <2>1, <3>1, <4>1, IndexingMoves DEF Indexing
    <2> QED
        BY <1>1, <1>3, <2>1, <2>2, IndexOpens DEF Shape
<1>4. CASE ReadNodes
    <2>1. UNCHANGED <<scene, index>> /\ run.pos < End /\ run.pc = "readNodes"
        BY <1>4 DEF ReadNodes, Works, Fails, Disturb, nodeVars, at
    <2> DEFINE found == Blobs[run.pos + 1].nodes
    <2>2. ASSUME NEW pc \in {"readNodes", "writeNodes"}, UNCHANGED job,
                 run' = [run EXCEPT !.pos = run.pos + 1, !.nodes = @ \o found, !.pc = pc]
          PROVE  Indexing'
        <3>1. NodeIds(run.pos, run.pos + 1) = ToSet(found) /\ found \in Seq(Nat)
            BY <1>0, <2>1, NodesLie
        <3> HIDE DEF found
        <3>2. run'.pos = run.pos + 1 /\ run'.nodes = run.nodes \o found /\ run'.pc = pc
            BY <1>0, <2>2
        <3>3. run'.nodes \in Seq(Nat) /\ ToSet(run'.nodes) = ToSet(run.nodes) \cup ToSet(found)
            BY <1>0, <3>1, <3>2, Joined
        <3>4. ASSUME job.mode \in Indexed
              PROVE  index.offset <= run'.pos /\ ToSet(run'.nodes) = NodeIds(index.offset, run'.pos)
            <4>1. index.offset <= run.pos /\ ToSet(run.nodes) = NodeIds(index.offset, run.pos)
                BY <2>1, <3>4 DEF Indexing
            <4>2. NodeIds(index.offset, run.pos + 1) = NodeIds(index.offset, run.pos) \cup NodeIds(run.pos, run.pos + 1)
                BY <1>0, <4>1, NodesLie
            <4> QED
                BY <1>0, <3>1, <3>2, <3>3, <4>1, <4>2
        <3> QED
            BY <1>0, <2>1, <2>2, <3>2, <3>3, <3>4, NodesKept DEF Indexing, at
    <2> QED
        BY <1>1, <1>4, <2>1, <2>2 DEF ReadNodes, Fails
<1>5. CASE EndOfNodes
    <2>1. /\ UNCHANGED <<scene, index, job>> /\ run.pc = "readNodes" /\ run'.nodes = run.nodes /\ run'.pos = run.pos
          /\ run'.pc = IF job.mode \in Indexed /\ index.offset = End THEN "markIndexed" ELSE "writeNodes"
          /\ run.pos = End
        BY <1>0, <1>5 DEF EndOfNodes, Works, goto, nodeVars, at, Indexed
    <2>2. ASSUME job.mode \in Indexed, index.offset = End
          PROVE  run.nodes = <<>>
        <3>1. ToSet(run.nodes) = {}
            BY <1>0, <2>1, <2>2, NodesLie DEF Indexing
        <3> QED
            BY <1>0, <3>1, NothingRead
    <2> QED
        BY <1>0, <2>1, <2>2, NodesKept DEF Indexing, at
<1>6. CASE WriteNodes \/ CommitCandidates
    <2>1. UNCHANGED <<scene, index>> /\ job.mode \notin Indexed
        BY <1>6 DEF WriteNodes, CommitCandidates, Works, Fails, Disturb, Indexed
    <2>2. ASSUME ~Stop
          PROVE  run'.nodes = <<>> /\ UNCHANGED job
        BY <1>0, <1>6, <2>2 DEF WriteNodes, CommitCandidates, Fails
    <2> QED
        BY <1>0, <1>1, <2>1, <2>2, IndexingKept
<1>7. CASE SaveNodeOffset \/ SortNodes \/ MarkSorted \/ CompleteCandidates
    <2>1. UNCHANGED <<scene, index>> /\ run.nodes = <<>> /\ job.mode \notin Indexed
        BY <1>7 DEF SaveNodeOffset, SortNodes, MarkSorted, CompleteCandidates, Works, Fails, Disturb, Indexed,
            Indexing, Shape, StageShape, at
    <2>2. ASSUME ~Stop
          PROVE  run'.nodes = <<>> /\ UNCHANGED job
        BY <1>0, <1>7, <2>1, <2>2 DEF SaveNodeOffset, SortNodes, MarkSorted, CompleteCandidates, Fails, goto
    <2> QED
        BY <1>0, <1>1, <2>1, <2>2, IndexingKept
<1>8. CASE CommitBlocks
    <2>1. CASE /\ Works /\ UNCHANGED job
               /\ index' = [index EXCEPT !.offset = run.pos, !.blocks = @ \cup ToSet(run.nodes)]
               /\ run' = [run EXCEPT !.pc = "readNodes", !.nodes = <<>>]
        <3>1. /\ job.mode \in Indexed /\ run.pc = "writeNodes" /\ UNCHANGED scene
              /\ index'.offset = run.pos /\ index'.blocks = index.blocks \cup ToSet(run.nodes)
              /\ index'.indexed = index.indexed
              /\ run'.pc = "readNodes" /\ run'.nodes = <<>> /\ run'.pos = run.pos
            BY <1>0, <1>8, <2>1 DEF CommitBlocks, Indexed, Works, at
        <3>2. index.offset <= run.pos /\ ToSet(run.nodes) = NodeIds(index.offset, run.pos)
            BY <3>1 DEF Indexing
        <3>6. ~index.indexed
            <4>1. StageShape
                BY DEF Shape
            <4> QED
                BY <3>1, <4>1 DEF StageShape, at, WayStages, AdminStages, ScanStages
        <3>3. index.blocks = NodeIds(0, index.offset)
            BY DEF Indexing
        <3>4. NodeIds(0, run.pos) = NodeIds(0, index.offset) \cup NodeIds(index.offset, run.pos)
            <4>1. WorldShape /\ run.pos \in Nat /\ index.offset \in Nat
                BY <1>0
            <4>2. index.offset <= run.pos
                BY <3>2
            <4> HIDE <1>0, <3>2
            <4> QED
                BY <4>1, <4>2, NodesLie
        <3>5. NodeIds(run.pos, run.pos) = {}
            BY <1>0, NodesLie
        <3> QED
            BY <1>0, <3>1, <3>2, <3>3, <3>4, <3>5, <3>6, IndexingMoves
    <2> QED
        BY <1>1, <1>8, <2>1 DEF CommitBlocks, Works, Fails, Disturb
<1>9. CASE MarkIndexed
    <2>1. run.nodes = <<>> /\ index.offset = End /\ UNCHANGED scene /\ run.pc = "markIndexed"
        BY <1>9 DEF MarkIndexed, Indexing, Works, Shape, StageShape, at
    <2>2. CASE UNCHANGED job /\ index' = [index EXCEPT !.indexed = TRUE] /\ goto("bind")
        BY <1>0, <2>1, <2>2, NodesKept DEF Indexing, goto, at
    <2> QED
        BY <1>1, <1>9, <2>1, <2>2 DEF MarkIndexed
<1>10. CASE BindBuild
    <2>1. /\ run.nodes = <<>> /\ UNCHANGED <<scene, index.offset, index.blocks, index.indexed>>
        BY <1>0, <1>10 DEF BindBuild, Indexing, Works, at
    <2>2. ASSUME ~Stop
          PROVE  run'.nodes = <<>> /\ run'.pc \notin {"readNodes", "writeNodes", "markIndexed"}
        BY <1>0, <1>10, <2>1, <2>2 DEF BindBuild, goto
    <2> QED
        BY <1>0, <1>1, <2>1, <2>2, IndexingKept
<1> QED
    BY <1>2, <1>3, <1>4, <1>5, <1>6, <1>7, <1>8, <1>9, <1>10 DEF NodeStep

\* Every step keeps the block index and the batch at their places.
LEMMA IndexingStep ==
    ASSUME Shape, Scanning, Indexing, [Next]_vars
    PROVE  Indexing'
<1>0. /\ DOMAIN run = DOMAIN NoRun /\ RunShape /\ PlaceShape /\ WorldShape /\ OutputShape
      /\ at("openScan") => Scan \in {"relations", "members"}
      /\ run.nodes \in Seq(Nat) /\ <<>> \in Seq(Nat) /\ NoRun.nodes = <<>>
    BY DEF Shape, RunShape, Indexing, Scanning, ScanStages, at, NoRun
<1>1. CASE WayStep \/ AdminStep
    <2>1. /\ run.nodes = <<>> /\ UNCHANGED scene
          /\ run'.pc \notin {"readNodes", "writeNodes", "markIndexed"}
        BY <1>0, <1>1, WayFlow, AdminFlow, Fields
            DEF Indexing, Ends, GoesOn, Stop, WayStages, AdminStages, ScanStages
    <2> QED
        BY <1>0, <1>1, <2>1, LaterPasses, IndexingKept
<1>2. ASSUME NEW j \in scene.requests, Start(j)
      PROVE  Indexing'
    <2>1. /\ run.nodes = <<>> /\ UNCHANGED <<scene, index>> /\ run'.nodes = run.nodes
          /\ run'.pc \in {"openWays", "openNodes"}
        BY <1>0, <1>2, Fields DEF Indexing, Start, goto, Works, nodeVars, at
    <2> QED
        BY <1>0, <2>1, IndexingKept
<1>3. CASE Crash
    BY <1>3, IndexingEnds DEF Crash, Disturb
<1>4. CASE Replace \/ UNCHANGED vars
    BY <1>4, NodesKept DEF Replace, ReplacePlanet, Disturb, vars, nodeVars, Indexing, at
<1> QED
    BY <1>1, <1>2, <1>3, <1>4, NodeIndexing DEF Next, Build

\* The node pass binds a build at its end, and marks none as done.
LEMMA NodeBinds ==
    ASSUME Shape, NodeStep
    PROVE  /\ UNCHANGED <<index.done, index.ways>> /\ (index.indexed => index'.indexed)
           /\ index'.source = index.source \/ (index.source = 0 /\ index'.source = planet)
           /\ index'.build = index.build \/ BindBuild
           /\ index'.blocks = index.blocks \/ ~index.indexed
           /\ run'.pc \in {"openWays", "prepareAdmin"} /\ job'.mode = "compact" => BindBuild
<1>0. /\ DOMAIN run = DOMAIN NoRun /\ NoRun.pc = "off"
      /\ DOMAIN index = {"source", "offset", "blocks", "indexed", "build", "done", "ways", "broken"}
    BY Fields DEF Shape, RunShape, PlaceShape, NoIndex
<1>1. CASE OpenNodeFile \/ OpenCandidates \/ ReadNodes \/ EndOfNodes \/ WriteNodes \/ SaveNodeOffset
           \/ SortNodes \/ CommitCandidates
    <2>1. UNCHANGED index
        BY <1>1 DEF OpenNodeFile, OpenCandidates, ReadNodes, EndOfNodes, WriteNodes, SaveNodeOffset, SortNodes,
            CommitCandidates, nodeVars
    <2>2. run'.pc \notin {"openWays", "prepareAdmin"}
        <3>1. CASE OpenNodeFile \/ OpenCandidates
            BY <1>0, <3>1, Fields DEF OpenNodeFile, OpenCandidates, Stop
        <3>2. CASE ReadNodes \/ EndOfNodes
            BY <1>0, <3>2, Fields DEF ReadNodes, EndOfNodes, Fails, Stop, goto
        <3>3. CASE WriteNodes \/ SaveNodeOffset \/ SortNodes \/ CommitCandidates
            BY <1>0, <3>3, Fields DEF WriteNodes, SaveNodeOffset, SortNodes, CommitCandidates, Fails, Stop, goto
        <3> QED
            BY <1>1, <3>1, <3>2, <3>3
    <2> QED
        BY <2>1, <2>2
<1>2. CASE MarkSorted \/ CompleteCandidates
    BY <1>2 DEF MarkSorted, CompleteCandidates, Shape, StageShape, at
<1>3. CASE OpenIndex
    <2>1. /\ UNCHANGED <<index.blocks, index.indexed, index.build, index.done, index.ways>>
          /\ index'.source = index.source \/ (index.source = 0 /\ index'.source = planet)
        BY <1>3, IndexOpens DEF Shape
    <2>2. CASE run' = [run EXCEPT !.pc = IF index.indexed THEN "bind" ELSE "readNodes",
                                  !.from = planet, !.pos = index.offset]
        <3>1. run'.pc \in {"bind", "readNodes"}
            BY <1>0, <2>2, Fields
        <3> QED
            BY <1>0, <2>1, <3>1
    <2>3. CASE Stop
        BY <1>0, <2>1, <2>3 DEF Stop
    <2> QED
        BY <1>3, <2>2, <2>3, IndexOpens DEF Shape
<1>4. CASE CommitBlocks
    <2>1. ~index.indexed
        BY <1>4 DEF CommitBlocks, Shape, StageShape, at, WayStages, AdminStages, ScanStages, Indexed
    <2> QED
        BY <1>0, <1>4, <2>1, Fields DEF CommitBlocks, Fails, Stop
<1>5. CASE MarkIndexed
    BY <1>0, <1>5, Fields DEF MarkIndexed, Stop, goto
<1>6. CASE BindBuild
    BY <1>0, <1>6 DEF BindBuild
<1> QED
    BY <1>1, <1>2, <1>3, <1>4, <1>5, <1>6 DEF NodeStep

\* A compact build goes on under the settings it is bound to, or is refused.
LEMMA NodeBargain ==
    ASSUME Shape, Bargain, NodeStep, UNCHANGED <<wayVars, adminVars>>
    PROVE  Bargain'
<1>0. /\ DOMAIN run = DOMAIN NoRun /\ RunShape /\ PlaceShape /\ WorldShape /\ promised' = promised
      /\ DOMAIN index = {"source", "offset", "blocks", "indexed", "build", "done", "ways", "broken"}
      /\ run'.pc \in NodeStages \cup {"off", "openWays", "prepareAdmin"}
    BY NodeFlow, Fields DEF Shape, RunShape, PlaceShape, NoIndex, wayVars, Ends, GoesOn, Stop
<1>1. CASE BindBuild
    <2>1. job # NoJob /\ run.pc = "bind"
        BY <1>1 DEF BindBuild, Shape, StageShape, at
    <2>2. CASE Stop /\ UNCHANGED index
        <3>1. job'.mode = "none"
            BY <2>2 DEF Stop, NoJob
        <3> QED
            BY <1>0, <2>2, <3>1 DEF Bargain
    <2>3. CASE UNCHANGED job /\ job.mode = "compact" /\ index' = [index EXCEPT !.build = job]
               /\ index.build \in {NoJob, job}
        <3>1. index'.build = job /\ UNCHANGED <<index.done, index.ways, index.indexed, index.source>>
            BY <1>0, <2>3
        <3>2. run'.pc \notin {"readWays", "writeCells"}
            BY <1>0 DEF NodeStages
        <3> QED
            BY <1>0, <2>1, <2>3, <3>1, <3>2 DEF Bargain, PlaceShape
    <2>4. CASE UNCHANGED job /\ job.mode # "compact" /\ UNCHANGED index
        BY <1>0, <2>4 DEF Bargain
    <2> QED
        BY <1>1, <2>2, <2>3, <2>4 DEF BindBuild
<1>2. CASE ~BindBuild
    <2>1. job'.mode = "compact" => run'.pc \notin WayStages \cup AdminStages
        BY <1>0, <1>2, NodeBinds DEF NodeStages, WayStages, AdminStages, ScanStages
    <2>2. run'.pc \notin {"readWays", "writeCells"}
        BY <1>0 DEF NodeStages
    <2>3. index.source > 0 => index'.source > 0
        BY <1>0, NodeBinds DEF PlaceShape
    <2> QED
        BY <1>0, <1>2, <2>1, <2>2, <2>3, NodeBinds DEF Bargain
<1> QED
    BY <1>1, <1>2

\* What the way pass promises is what the index is bound to.
LEMMA WayBargain ==
    ASSUME Shape, Bargain, WayStep
    PROVE  Bargain'
<1>0. /\ DOMAIN run = DOMAIN NoRun /\ RunShape /\ PlaceShape /\ WorldShape
      /\ promised \in [Builders -> SUBSET Ways] /\ "compact" \in Builders
      /\ DOMAIN index = {"source", "offset", "blocks", "indexed", "build", "done", "ways", "broken"}
      /\ run.pc \in WayStages
      /\ Ends \/ GoesOn({"readWays", "writeCells", "prepareAdmin"})
    BY WayFlow DEF Shape, RunShape, PlaceShape, OutputShape, NoIndex, Builders
<1>1. UNCHANGED <<index.done, index.build, index.indexed, index.source>>
    <2>1. ~Finish
        BY <1>0 DEF Finish, WayStages, at
    <2> QED
        BY <2>1, LaterPasses
<1>2. job # NoJob /\ job.mode # "import" /\ job.mode \in {"flat", "compact", "import", "bbox"}
    BY <1>0, JobsAreBuilds DEF Shape, StageShape, WayStages, at, Builders
<1>3. index'.ways # index.ways => job.mode = "compact" /\ run.pc = "writeCells"
    BY <1>0, <1>2, WayKeeps DEF WayStep, OpenWays, ReadBlob, EndOfWays, ReadWays, TakeWay, WriteCell,
        SaveWayOffset, nodeVars, at
<1>4. promised' = promised \/ OpenWays
    BY DEF WayStep, OpenWays, ReadBlob, EndOfWays, ReadWays, TakeWay, WriteCell, SaveWayOffset, wayVars
<1>5. ~OpenWays => run.pc \in {"readWays", "writeCells"}
    BY DEF WayStep, ReadBlob, EndOfWays, ReadWays, TakeWay, WriteCell, SaveWayOffset, at
<1>6. CASE job.mode = "compact"
    <2>1. index.build = job
        BY <1>0, <1>6 DEF Bargain
    <2>2. index.ways > 0 => job.layers \subseteq promised["compact"]
        BY <2>1 DEF Bargain
    <2>3. CASE OpenWays
        <3>1. CASE promised' = promised /\ run'.pc = "prepareAdmin"
            BY <1>1, <1>2, <1>3, <1>6, <2>1, <2>2, <2>3, <3>1 DEF Bargain, OpenWays, at
        <3>2. CASE promised' = [promised EXCEPT !["compact"] =
                              IF index.ways = 0 THEN job.layers ELSE @ \cap job.layers]
            <4>1. job.layers \subseteq promised'["compact"]
                BY <1>0, <2>2, <3>2 DEF PlaceShape
            <4> QED
                BY <1>1, <1>2, <1>3, <1>6, <2>1, <2>3, <4>1 DEF Bargain, OpenWays, at
        <3> QED
            BY <1>0, <1>6, <2>3, <3>1, <3>2, Fields DEF OpenWays, SavedPlace, goto
    <2>4. CASE ~OpenWays
        <3>1. job.layers \subseteq promised["compact"] /\ promised' = promised
            BY <1>4, <1>5, <1>6, <2>4 DEF Bargain
        <3>2. job' \in {job, NoJob}
            BY <1>0 DEF Ends, GoesOn, Stop
        <3> QED
            BY <1>1, <1>2, <1>6, <2>1, <3>1, <3>2 DEF Bargain, NoJob
    <2> QED
        BY <2>3, <2>4
<1>7. CASE job.mode # "compact"
    <2>1. promised'["compact"] = promised["compact"]
        <3>1. CASE OpenWays
            BY <1>0, <1>7, <3>1 DEF OpenWays
        <3> QED
            BY <1>4, <3>1
    <2>2. job'.mode # "compact"
        BY <1>0, <1>7 DEF Ends, GoesOn, Stop, NoJob
    <2> QED
        BY <1>1, <1>3, <1>7, <2>1, <2>2 DEF Bargain
<1> QED
    BY <1>6, <1>7

\* Every step keeps to the settings of the index.
LEMMA BargainStep ==
    ASSUME Shape, Scanning, Bargain, [Next]_vars
    PROVE  Bargain'
<1>0. /\ DOMAIN run = DOMAIN NoRun /\ RunShape /\ PlaceShape /\ WorldShape /\ OutputShape
      /\ at("openScan") => Scan \in {"relations", "members"}
      /\ DOMAIN index = {"source", "offset", "blocks", "indexed", "build", "done", "ways", "broken"}
    BY DEF Shape, RunShape, PlaceShape, Scanning, ScanStages, at, NoIndex
<1>1. CASE AdminStep
    <2>1. /\ run.pc \in AdminStages
          /\ Ends \/ GoesOn(AdminStages)
          /\ UNCHANGED <<promised, index.source, index.indexed, index.ways, index.build>>
        BY <1>0, <1>1, AdminFlow, AdminKeeps, LaterPasses DEF wayVars
    <2>2. index'.done /\ ~index.done => job.mode = "compact"
        BY <1>1, LaterPasses DEF Finish
    <2>3. job.mode = "compact" => /\ job # NoJob /\ index.build = job /\ index.indexed /\ index.source > 0
        BY <2>1 DEF Bargain, NoJob, Shape, StageShape, Indexed, at, AdminStages, ScanStages
    <2>4. job' \in {job, NoJob} /\ run'.pc \notin {"readWays", "writeCells"}
        BY <2>1, Fields DEF Ends, GoesOn, Stop, AdminStages, ScanStages
    <2> QED
        BY <2>1, <2>2, <2>3, <2>4 DEF Bargain, NoJob
<1>2. ASSUME NEW j \in scene.requests, Start(j)
      PROVE  Bargain'
    <2>1. /\ UNCHANGED <<index, promised>> /\ run'.pc \in {"openWays", "openNodes"} /\ job' = j
          /\ j.mode = "compact" => run'.pc = "openNodes"
        BY <1>0, <1>2, Fields DEF Start, goto, nodeVars, wayVars
    <2> QED
        BY <2>1 DEF Bargain, WayStages, AdminStages, ScanStages
<1>3. CASE Crash
    <2>1. UNCHANGED <<index, promised>> /\ job'.mode = "none"
        BY <1>3 DEF Crash, Stop, NoJob
    <2> QED
        BY <2>1 DEF Bargain
<1>4. CASE Replace \/ UNCHANGED vars
    BY <1>4 DEF Replace, ReplacePlanet, vars, nodeVars, wayVars, Bargain, at
<1> QED
    BY <1>1, <1>2, <1>3, <1>4, NodeBargain, WayBargain DEF Next, Build

\* The cell files hold all that a finished compact build has to draw.
AllDrawn == \A w \in WaysIn(0, End) \cap index.build.layers : Covered(w, index.blocks)

\* What is drawn stays so while the cell files keep their ways.
LEMMA DrawnStays ==
    ASSUME Shape, AllDrawn, UNCHANGED <<scene, index.build, index.blocks>>,
           \A c \in Cells : Ids(cells[c]) \subseteq Ids(cells'[c])
    PROVE  AllDrawn'
<1>1. WaysIn(0, End)' = WaysIn(0, End) /\ WaysIn(0, End) \subseteq Ways
    BY FileKept, PlacesInFile DEF Shape
<1>2. \A w \in Ways : CellsOf[w] \subseteq Cells
    BY PlanetAssumption
<1>3. \A w \in WaysIn(0, End) \cap index.build.layers :
          Cardinality(RefsOf[w] \cap index.blocks) >= 2 => \A c \in CellsOf[w] : w \in Ids(cells'[c])
    BY <1>1, <1>2 DEF AllDrawn, Covered
<1> QED
    BY <1>1, <1>3 DEF AllDrawn, Covered, Ids

\* A step behind or before the way pass leaves what is drawn.
LEMMA DrawingKept ==
    ASSUME Shape, Drawing, UNCHANGED <<scene, cells, lost, index.build, index.blocks>>,
           run'.pc # "writeCells",
           ~lost /\ (index'.done \/ (job'.mode = "compact" /\ run'.pc \in AdminStages)) =>
               index.done \/ (job.mode = "compact" /\ run.pc \in AdminStages) \/ AllDrawn
    PROVE  Drawing'
<1>1. ASSUME ~lost', index'.done \/ (job'.mode = "compact" /\ run'.pc \in AdminStages)
      PROVE  AllDrawn'
    <2>1. AllDrawn
        BY <1>1 DEF Drawing, AllDrawn
    <2> QED
        BY <2>1, DrawnStays
<1> QED
    BY <1>1 DEF Drawing, AllDrawn, at

\* A step of the way pass on the cell files.
LEMMA CellsKept ==
    ASSUME Shape, WayStep
    PROVE  lost' \/ (lost' = lost /\ \A c \in Cells : Ids(cells[c]) \subseteq Ids(cells'[c]))
<1>0. DOMAIN cells = Cells
    BY DEF Shape, OutputShape
<1>1. ASSUME NEW c \in run.pending, WriteCell(c)
      PROVE  lost' \/ (lost' = lost /\ \A d \in Cells : Ids(cells[d]) \subseteq Ids(cells'[d]))
    <2> DEFINE new == Merged(c, {f \in run.features : c \in CellsOf[f.way]})
    <2>1. Ids(cells[c]) \subseteq Ids(new)
        BY MergedKeeps
    <2>2. CASE cells' = [cells EXCEPT ![c] = new] /\ UNCHANGED lost
        <3> HIDE DEF new
        <3> QED
            BY <1>0, <2>1, <2>2
    <2>3. CASE UNCHANGED <<cells, lost>>
        BY <2>3
    <2> QED
        BY <1>1, <2>2, <2>3, CellWritten
<1>2. CASE UNCHANGED <<cells, lost>>
    BY <1>2
<1> QED
    BY <1>1, <1>2 DEF WayStep, OpenWays, ReadBlob, EndOfWays, ReadWays, TakeWay, SaveWayOffset, wayVars

\* The way pass of a compact build ends with its layers drawn.
LEMMA WayDrawing ==
    ASSUME Shape, Scanning, Gathered, Bargain, Drawing, WayStep
    PROVE  Drawing'
<1>0. /\ DOMAIN run = DOMAIN NoRun /\ RunShape /\ PlaceShape /\ WorldShape /\ OutputShape
      /\ run.pc \in WayStages /\ run.pc # "finish"
      /\ Ends \/ GoesOn({"readWays", "writeCells", "prepareAdmin"})
      /\ UNCHANGED scene /\ End' = End
    BY WayFlow, FileKept DEF Shape, RunShape, WayStages, Ends, GoesOn
<1>1. UNCHANGED <<index.done, index.build, index.blocks>>
    BY <1>0, LaterPasses DEF Finish, at
<1>2. ASSUME run'.pc = "writeCells", run'.last
      PROVE  run'.pos = End
    <2>1. CASE EndOfWays
        BY <1>0, <1>2, <2>1, Fields DEF EndOfWays, Flushing, Stop
    <2>2. ASSUME NEW c \in run.pending, WriteCell(c)
          PROVE  run'.pos = End
        BY <1>0, <1>2, <2>2, Fields DEF WriteCell, Fails, Stop, Drawing, at
    <2>3. ASSUME NEW k \in DOMAIN Blobs, ReadWays(k)
          PROVE  ~run'.last
        BY <1>0, <2>3, Fields DEF ReadWays, Flushing, Fails, Stop, Scanning, at
    <2>4. ASSUME NEW w \in run.rest, TakeWay(w)
          PROVE  ~run'.last
        BY <1>0, <2>4, Fields DEF TakeWay, Flushing, Scanning, at
    <2>5. CASE OpenWays \/ ReadBlob \/ SaveWayOffset
        BY <1>0, <1>2, <2>5, Fields DEF OpenWays, ReadBlob, SaveWayOffset, Fails, Stop, goto, at
    <2> QED
        BY <1>2, <2>1, <2>2, <2>3, <2>4, <2>5 DEF WayStep
<1>3. ASSUME ~lost', index'.done \/ (job'.mode = "compact" /\ run'.pc \in AdminStages)
      PROVE  AllDrawn'
    <2>1. ~lost /\ \A c \in Cells : Ids(cells[c]) \subseteq Ids(cells'[c])
        BY <1>3, CellsKept
    <2>2. SUFFICES ASSUME ~index.done
                   PROVE  AllDrawn
        BY <1>0, <1>1, <2>1, DrawnStays DEF Drawing, AllDrawn
    <2>3. /\ UNCHANGED job /\ job.mode = "compact" /\ run'.pc = "prepareAdmin" /\ job # NoJob
        BY <1>0, <1>1, <1>3, <2>2 DEF Ends, GoesOn, Stop, NoJob, AdminStages, ScanStages
    <2>4. index.build = job
        BY <1>0, <2>3 DEF Bargain
    <2>5. CASE OpenWays
        <3>1. job.layers = {}
            BY <1>0, <2>3, <2>5, Fields DEF OpenWays
        <3> QED
            BY <2>4, <3>1 DEF AllDrawn
    <2>6. CASE SaveWayOffset
        <3>1. run.last /\ run.pending = {} /\ run.pc = "writeCells"
            BY <1>0, <2>3, <2>6, Fields DEF SaveWayOffset, Stop, at
        <3>2. run.pos = End /\ job.layers \subseteq promised["compact"]
            BY <2>3, <3>1 DEF Drawing, Bargain, at
        <3>3. \A w \in WaysIn(0, run.pos) \cap promised["compact"] : Covered(w, Known)
            BY <2>1, <2>3, <3>1 DEF Gathered, Covered, at
        <3> QED
            BY <2>3, <2>4, <3>2, <3>3, KnownNodes DEF AllDrawn
    <2>7. ~(ReadBlob \/ EndOfWays)
        BY <1>0, <2>3, Fields DEF ReadBlob, EndOfWays, Flushing, Fails, Stop, at
    <2>8. \A k \in DOMAIN Blobs : ~ReadWays(k)
        BY <1>0, <2>3, Fields DEF ReadWays, Flushing, Fails, Stop, at
    <2>9. \A w \in run.rest : ~TakeWay(w)
        BY <1>0, <2>3, Fields DEF TakeWay, Flushing, at
    <2>10. \A c \in run.pending : ~WriteCell(c)
        BY <1>0, <2>3, Fields DEF WriteCell, Fails, Stop, at
    <2> QED
        BY <2>5, <2>6, <2>7, <2>8, <2>9, <2>10 DEF WayStep
<1> QED
    BY <1>0, <1>2, <1>3 DEF Drawing, AllDrawn, at

\* Every step keeps what a finished build has drawn.
LEMMA DrawingStep ==
    ASSUME Shape, Scanning, Gathered, Bargain, Drawing, [Next]_vars
    PROVE  Drawing'
<1>0. /\ DOMAIN run = DOMAIN NoRun /\ RunShape /\ PlaceShape /\ WorldShape /\ OutputShape
      /\ at("openScan") => Scan \in {"relations", "members"}
      /\ DOMAIN index = {"source", "offset", "blocks", "indexed", "build", "done", "ways", "broken"}
    BY DEF Shape, RunShape, PlaceShape, Scanning, ScanStages, at, NoIndex
<1>1. CASE NodeStep /\ UNCHANGED <<wayVars, adminVars>>
    <2>1. /\ UNCHANGED <<scene, cells, lost, index.done>> /\ run'.pc # "writeCells"
          /\ run'.pc \in AdminStages => run'.pc = "prepareAdmin"
        BY <1>0, <1>1, NodeFlow, NodeBinds, Fields DEF wayVars, Ends, GoesOn, Stop, NodeStages, AdminStages, ScanStages
    <2>2. CASE index.done
        <3>1. index.indexed /\ index.build # NoJob
            BY <2>2 DEF Bargain
        <3>2. index'.build = index.build
            <4>1. CASE BindBuild
                BY <1>0, <3>1, <4>1 DEF BindBuild
            <4> QED
                BY <1>1, <4>1, NodeBinds
        <3> QED
            BY <1>1, <2>1, <2>2, <3>1, <3>2, NodeBinds, DrawingKept
    <2>3. CASE ~index.done
        <3>1. ~(job'.mode = "compact" /\ run'.pc = "prepareAdmin")
            <4>1. CASE BindBuild
                BY <1>0, <2>3, <4>1, Fields DEF BindBuild, Stop, goto, NoJob
            <4> QED
                BY <1>1, <4>1, NodeBinds
        <3> QED
            BY <2>1, <2>3, <3>1 DEF Drawing, at
    <2> QED
        BY <2>2, <2>3
<1>2. CASE AdminStep
    <2>1. /\ run.pc \in AdminStages
          /\ Ends \/ GoesOn(AdminStages)
          /\ UNCHANGED <<cells, lost, index.blocks, index.build>>
        BY <1>0, <1>2, AdminFlow, AdminKeeps, LaterPasses DEF wayVars
    <2>2. index'.done /\ ~index.done => job.mode = "compact"
        BY <1>2, LaterPasses DEF Finish
    <2>3. /\ UNCHANGED scene /\ run'.pc # "writeCells"
          /\ job'.mode = "compact" => job.mode = "compact"
        BY <2>1, Fields DEF Ends, GoesOn, Stop, AdminStages, ScanStages, NoJob
    <2> QED
        BY <2>1, <2>2, <2>3, DrawingKept
<1>3. ASSUME NEW j \in scene.requests, Start(j)
      PROVE  Drawing'
    <2>1. /\ UNCHANGED <<scene, index, cells, lost>> /\ run'.pc \in {"openWays", "openNodes"}
        BY <1>0, <1>3, Fields DEF Start, goto, Works, nodeVars, wayVars
    <2> QED
        BY <2>1, DrawingKept DEF AdminStages, ScanStages
<1>4. CASE Crash
    <2>1. /\ UNCHANGED <<scene, index>> /\ run'.pc = "off"
          /\ lost' \/ UNCHANGED <<cells, lost>>
        BY <1>4, Fields DEF Crash, CellsCut, Stop, Disturb
    <2>2. CASE lost'
        BY <2>1, <2>2 DEF Drawing, at
    <2>3. CASE UNCHANGED <<cells, lost>>
        BY <2>1, <2>3, DrawingKept DEF AdminStages, ScanStages
    <2> QED
        BY <2>1, <2>2, <2>3
<1>5. CASE Replace \/ UNCHANGED vars
    <2>1. UNCHANGED <<scene, job, run, index, cells, lost>>
        BY <1>5 DEF Replace, ReplacePlanet, Disturb, vars, nodeVars, wayVars
    <2> QED
        BY <2>1, FileKept DEF Drawing, Covered, at
<1> QED
    BY <1>1, <1>2, <1>3, <1>4, <1>5, WayDrawing DEF Next, Build

\* A feature with all the nodes of its way that the file has.
AllPoints(f) == f.points = RefsOf[f.way] \cap NodeIds(0, End)

\* What is written was gathered, and what is gathered has all its points.
LEMMA ExactKept ==
    ASSUME Exact, UNCHANGED scene,
           Single => \A f \in run'.features : f \in run.features \/ AllPoints(f),
           Single => \A c \in Cells : cells'[c] \subseteq cells[c] \cup run.features
    PROVE  Exact'
<1>1. Single' = Single /\ NodeIds(0, End)' = NodeIds(0, End)
    BY NodesKept DEF Single
<1>2. Single => \A f \in run.features \cup UNION {cells[c] : c \in Cells} : AllPoints(f)
    BY DEF Exact, Single, AllPoints
<1>3. Single => \A f \in run'.features \cup UNION {cells'[c] : c \in Cells} : AllPoints(f)
    BY <1>2
<1>4. Single => \A f \in run'.features \cup UNION {cells'[c] : c \in Cells} :
          f.points = RefsOf[f.way] \cap NodeIds(0, End)'
    BY <1>1, <1>3 DEF AllPoints
<1> QED
    BY <1>1, <1>4 DEF Exact, Single

\* A way is drawn from all the nodes of the index, which has them all by then.
LEMMA WayExact ==
    ASSUME Shape, Indexing, Exact, WayStep
    PROVE  Exact'
<1>0. /\ DOMAIN run = DOMAIN NoRun /\ RunShape /\ PlaceShape /\ WorldShape /\ DOMAIN cells = Cells
      /\ run.pc \in WayStages /\ run.pc # "openNodes"
      /\ UNCHANGED scene /\ NoRun.features = {}
    BY WayFlow, Fields DEF Shape, RunShape, OutputShape, WayStages, Ends, GoesOn
<1>1. ASSUME Single
      PROVE  job.mode \notin {"flat", "bbox"} /\ Known = NodeIds(0, End)
    <2>1. job # NoJob
        BY <1>0 DEF Shape, StageShape, at, WayStages
    <2>2. job.mode \in Indexed /\ job.mode \notin {"flat", "bbox"}
        BY <1>1, <2>1, SingleBuilds
    <2>3. index.indexed
        BY <1>0, <2>2 DEF Shape, StageShape, at
    <2> QED
        BY <2>2, <2>3 DEF Known, Indexing
<1>2. Single => \A f \in run'.features : f \in run.features \/ AllPoints(f)
    <2> SUFFICES ASSUME Single
                 PROVE  \A f \in run'.features : f \in run.features \/ AllPoints(f)
        OBVIOUS
    <2>1. ASSUME NEW k \in DOMAIN Blobs, ReadWays(k)
          PROVE  \A f \in run'.features : f \in run.features \/ AllPoints(f)
        <3> DEFINE new == Features(WaysIn(run.pos, k) \cap job.layers)
                   next == [run EXCEPT !.pos = k, !.features = @ \cup new]
        <3>1. run' \in {next, Flushing(next), NoRun}
            BY <2>1 DEF ReadWays, Fails, Stop
        <3>2. \A f \in new : AllPoints(f)
            <4> TAKE f \in new
            <4>1. PICK w \in WaysIn(run.pos, k) :
                      f = [way |-> w, points |-> RefsOf[w] \cap Known, from |-> run.from]
                BY DEF Features
            <4>2. f.way = w /\ f.points = RefsOf[w] \cap Known
                BY <4>1
            <4> QED
                BY <1>1, <4>2 DEF AllPoints
        <3> HIDE DEF new
        <3>3. next.features = run.features \cup new /\ DOMAIN next = DOMAIN NoRun
            BY <1>0, Fields
        <3> HIDE DEF next
        <3>4. run'.features \in {next.features, {}}
            BY <1>0, <3>1, <3>3, Fields DEF Flushing
        <3> QED
            BY <3>2, <3>3, <3>4
    <2>2. \A w \in run.rest : ~TakeWay(w)
        BY <1>1 DEF TakeWay
    <2>3. CASE OpenWays
        BY <1>0, <2>3, Fields DEF OpenWays, goto
    <2>4. CASE ReadBlob \/ SaveWayOffset
        BY <1>0, <2>4, Fields DEF ReadBlob, SaveWayOffset, Fails, Stop
    <2>5. CASE EndOfWays
        BY <1>0, <2>5, Fields DEF EndOfWays, Flushing, Stop
    <2>6. ASSUME NEW c \in run.pending, WriteCell(c)
          PROVE  \A f \in run'.features : f \in run.features
        BY <1>0, <2>6, Fields DEF WriteCell, Fails, Stop
    <2> QED
        BY <2>1, <2>2, <2>3, <2>4, <2>5, <2>6 DEF WayStep
<1>3. \A c \in Cells : cells'[c] \subseteq cells[c] \cup run.features
    <2>1. ASSUME NEW c \in run.pending, WriteCell(c)
          PROVE  \A d \in Cells : cells'[d] \subseteq cells[d] \cup run.features
        <3> DEFINE some == {f \in run.features : c \in CellsOf[f.way]}
                   new == Merged(c, some)
        <3>1. new \subseteq cells[c] \cup run.features /\ some \subseteq run.features
            BY DEF Merged
        <3>2. cells' \in {cells, [cells EXCEPT ![c] = new], [cells EXCEPT ![c] = some], [cells EXCEPT ![c] = {}]}
            BY <2>1, CellWritten
        <3> HIDE DEF new, some
        <3> QED
            BY <1>0, <3>1, <3>2
    <2>2. CASE UNCHANGED cells
        BY <2>2
    <2> QED
        BY <2>1, <2>2 DEF WayStep, OpenWays, ReadBlob, EndOfWays, ReadWays, TakeWay, SaveWayOffset, wayVars
<1> QED
    BY <1>0, <1>2, <1>3, ExactKept

\* Every step leaves compact builds with all the points of their ways.
LEMMA ExactStep ==
    ASSUME Shape, Scanning, Indexing, Exact, [Next]_vars
    PROVE  Exact'
<1>0. /\ DOMAIN run = DOMAIN NoRun /\ RunShape /\ PlaceShape /\ WorldShape /\ OutputShape
      /\ at("openScan") => Scan \in {"relations", "members"}
      /\ NoRun.features = {} /\ DOMAIN cells = Cells
    BY Fields DEF Shape, RunShape, OutputShape, Scanning, ScanStages, at
<1>1. CASE NodeStep /\ UNCHANGED <<wayVars, adminVars>>
    BY <1>0, <1>1, NodeFlow, ExactKept DEF Ends, GoesOn, Stop, wayVars
<1>2. CASE AdminStep
    BY <1>0, <1>2, AdminFlow, AdminKeeps, ExactKept DEF Ends, GoesOn, Stop, wayVars
<1>3. ASSUME NEW j \in scene.requests, Start(j)
      PROVE  Exact'
    <2>1. UNCHANGED <<scene, cells>> /\ run'.features = run.features
        BY <1>0, <1>3, Fields DEF Start, goto, Works, wayVars
    <2> QED
        BY <2>1, ExactKept
<1>4. CASE Crash
    <2>1. UNCHANGED scene /\ run'.features = {} /\ \A c \in Cells : cells'[c] \in {{}, cells[c]}
        BY <1>0, <1>4 DEF Crash, CellsCut, Stop, Disturb
    <2> QED
        BY <2>1, ExactKept
<1>5. CASE Replace \/ UNCHANGED vars
    <2>1. UNCHANGED <<scene, run, cells>>
        BY <1>5 DEF Replace, ReplacePlanet, Disturb, vars, wayVars
    <2> QED
        BY <2>1, ExactKept
<1> QED
    BY <1>1, <1>2, <1>3, <1>4, <1>5, WayExact DEF Next, Build

-----------------------------------------------------------------------------
(* The levels and the published boundaries.                                *)

\* A set of naturals has a least element.
LEMMA LeastExists ==
    ASSUME NEW S \in SUBSET Nat, S # {}
    PROVE  \E x \in S : \A y \in S : x <= y
<1> DEFINE R == OpToRel(<, Nat)
<1>1. \E x \in S : \A y \in S : ~(<<y, x>> \in R)
    BY NatLessThanWellFounded, WFMin
<1>2. R = {ss \in Nat \X Nat : ss[1] < ss[2]}
    BY DEF OpToRel
<1> HIDE DEF R
<1>3. PICK x \in S : \A y \in S : ~(<<y, x>> \in R)
    BY <1>1
<1>4. ASSUME NEW y \in S
      PROVE  x <= y
    <2>1. <<y, x>> \in Nat \X Nat /\ <<y, x>>[1] = y /\ <<y, x>>[2] = x
        OBVIOUS
    <2>2. ~(y < x)
        BY <1>2, <1>3, <2>1
    <2> QED
        BY <2>2
<1> QED
    BY <1>4

\* The levels are gone through from the lowest to the highest, none left out.
LEMMA LevelOrder ==
    /\ Min(Levels) \in Levels /\ \A l \in Levels : Min(Levels) <= l
    /\ \A l \in Levels : NextLevel(l) = 0 => \A m \in Levels : m <= l
    /\ \A l \in Levels : NextLevel(l) # 0 =>
          NextLevel(l) \in Levels /\ \A m \in Levels : m < NextLevel(l) => m <= l
<1>0. Levels \in SUBSET Nat /\ Levels # {} /\ \E last \in Levels : \A l \in Levels : last >= l
    BY PlanetAssumption
<1>1. Min(Levels) \in Levels /\ \A l \in Levels : Min(Levels) <= l
    BY <1>0, LeastExists DEF Min
<1>2. Max(Levels) \in Levels /\ \A l \in Levels : Max(Levels) >= l
    BY <1>0 DEF Max
<1>3. ASSUME NEW l \in Levels, l # Max(Levels)
      PROVE  /\ Min({m \in Levels : m > l}) \in Levels /\ Min({m \in Levels : m > l}) > l
             /\ \A m \in Levels : m < Min({k \in Levels : k > l}) => m <= l
    <2>1. PICK S : S = {m \in Levels : m > l}
        OBVIOUS
    <2>2. \A m : m \in S <=> m \in Levels /\ m > l
        BY <2>1
    <2>3. S \in SUBSET Nat
        BY <1>0, <2>2
    <2>4. Max(Levels) > l
        <3>1. l \in Nat /\ Max(Levels) \in Nat /\ Max(Levels) >= l
            BY <1>0, <1>2
        <3> QED
            BY <1>3, <3>1
    <2>5. S # {}
        BY <1>2, <2>2, <2>4
    <2>6. Min(S) \in S /\ \A m \in S : Min(S) <= m
        BY <2>3, <2>5, LeastExists DEF Min
    <2>7. \A m \in Levels : m < Min(S) => m <= l
        <3> SUFFICES ASSUME NEW m \in Levels, m < Min(S), ~(m <= l)
                     PROVE  FALSE
            OBVIOUS
        <3>1. m \in Nat /\ l \in Nat /\ Min(S) \in Nat
            BY <1>0, <2>3, <2>6
        <3>2. m \in S
            BY <2>2, <3>1
        <3> QED
            BY <2>6, <3>1, <3>2
    <2> QED
        BY <2>1, <2>2, <2>6, <2>7
<1>4. ASSUME NEW l \in Levels, l = Max(Levels)
      PROVE  NextLevel(l) = 0 /\ \A m \in Levels : m <= l
    BY <1>0, <1>2, <1>4 DEF NextLevel
<1>5. ASSUME NEW l \in Levels, l # Max(Levels)
      PROVE  /\ NextLevel(l) # 0 /\ NextLevel(l) \in Levels
             /\ \A m \in Levels : m < NextLevel(l) => m <= l
    <2>1. NextLevel(l) = Min({m \in Levels : m > l})
        BY <1>5 DEF NextLevel
    <2>2. NextLevel(l) \in Levels /\ NextLevel(l) > l /\ \A m \in Levels : m < NextLevel(l) => m <= l
        BY <1>3, <1>5, <2>1
    <2> QED
        BY <1>0, <2>2
<1> QED
    BY <1>1, <1>4, <1>5

\* What is shown stays when regions are added and no relation leaves its level.
LEMMA ShownStays ==
    ASSUME assembly.regions \subseteq assembly'.regions,
           \A l \in Levels : \A x \in published[l] : \E y \in published'[l] : y.relation = x.relation
    PROVE  \A r \in Relations : Shown(r) => Shown(r)'
<1> SUFFICES ASSUME NEW r \in Relations, Shown(r)
             PROVE  Shown(r)'
    OBVIOUS
<1>1. LevelOf[r] \in Levels
    BY PlanetAssumption
<1>2. \E x \in assembly'.regions : x.relation = r
    BY DEF Shown
<1>3. \E x \in published'[LevelOf[r]] : x.relation = r
    BY <1>1 DEF Shown
<1> QED
    BY <1>2, <1>3 DEF Shown

\* Publishing a level shows what was put together for it and hides nothing that is.
LEMMA Publishes ==
    ASSUME Shape, UNCHANGED assembly, run.level \in Levels,
           published' = [published EXCEPT ![run.level] = AtLevel(assembly.regions, run.level)]
    PROVE  /\ \A r \in Relations : Shown(r) => Shown(r)'
           /\ \A r \in Relations : LevelOf[r] = run.level /\ (\E x \in assembly.regions : x.relation = r)
                  => Shown(r)'
<1>0. DOMAIN published = Levels
    BY DEF Shape, OutputShape
<1>1. \A r \in Relations : LevelOf[r] = run.level /\ (\E x \in assembly.regions : x.relation = r)
                  => Shown(r)'
    BY <1>0 DEF Shown, AtLevel
<1>2. ASSUME NEW r \in Relations, Shown(r)
      PROVE  Shown(r)'
    <2>1. CASE LevelOf[r] = run.level
        BY <1>1, <1>2, <2>1 DEF Shown
    <2>2. CASE LevelOf[r] # run.level
        <3>1. published'[LevelOf[r]] = published[LevelOf[r]]
            BY <1>0, <2>2, PlanetAssumption
        <3> QED
            BY <1>2, <3>1 DEF Shown
    <2> QED
        BY <2>1, <2>2
<1> QED
    BY <1>1, <1>2

\* A focused build leaves a region of every relation that had one.
LEMMA MergeShows ==
    ASSUME Shape, NEW m, MergeLevel(m), UNCHANGED assembly
    PROVE  \A r \in Relations : Shown(r) => Shown(r)'
<1>0. DOMAIN published = Levels
    BY DEF Shape, OutputShape
<1>1. ASSUME NEW l \in Levels, NEW x \in published[l]
      PROVE  \E y \in published'[l] : y.relation = x.relation
    <2>1. CASE l # m
        <3>1. published'[l] = published[l]
            BY <1>0, <2>1 DEF MergeLevel
        <3> QED
            BY <3>1
    <2>2. CASE l = m
        <3> DEFINE new == Drawn(m)
                   whole(regions) == {y.relation : y \in {z \in regions : z.whole}}
        <3>1. published'[m] = {y \in new : y.whole \/ y.relation \notin whole(published[m])}
                                  \cup {y \in published[m] : y.relation \notin whole(new)}
            BY <1>0, <2>2 DEF MergeLevel
        <3> HIDE DEF new
        <3>2. CASE x.relation \in whole(new)
            BY <2>2, <3>1, <3>2
        <3>3. CASE x.relation \notin whole(new)
            BY <2>2, <3>1, <3>3
        <3> QED
            BY <3>2, <3>3
    <2> QED
        BY <2>1, <2>2
<1> QED
    BY <1>1, ShownStays

-----------------------------------------------------------------------------
(* The boundaries of a finished build.                                     *)

\* What a finished build left in the index is not touched by the node pass.
LEMMA DoneBinds ==
    ASSUME Shape, Bargain, NodeStep, index.done
    PROVE  UNCHANGED <<index.build, index.source, index.done>>
<1>0. /\ index.indexed /\ index.source > 0 /\ index.build # NoJob
      /\ DOMAIN index = {"source", "offset", "blocks", "indexed", "build", "done", "ways", "broken"}
    BY DEF Bargain, Shape, PlaceShape, NoIndex
<1>1. CASE BindBuild
    BY <1>0, <1>1, NodeBinds DEF BindBuild
<1>2. CASE ~BindBuild
    <2>1. index.source # 0
        BY <1>0
    <2> QED
        BY <1>2, <2>1, NodeBinds, Zenon
<1> QED
    BY <1>1, <1>2

\* A planet build dates the scans by the file of the moment, and nothing else does.
LEMMA ScansDated ==
    ASSUME Shape, Scanning, AdminStep
    PROVE  /\ \/ adm'["planet"].source = adm["planet"].source
              \/ adm'["planet"].source = planet /\ PrepareSource
           /\ PrepareSource /\ job.mode # "bbox" /\ job.admin => adm'["planet"].source = planet
<1>0. "planet" \in Stores /\ adm \in [Stores -> Scanned] /\ Store \in Stores
    BY DEF Shape, OutputShape, Stores, Store
<1>1. \/ \A s \in Stores : adm'[s].source = adm[s].source
      \/ PrepareSource /\ adm'[Store].source = planet
    BY AdmSources
<1>2. CASE PrepareSource
    <2>1. CASE Store = "planet"
        <3>1. CASE job.admin
            <4>1. adm'["planet"] = IF adm["planet"].source = planet THEN adm["planet"]
                                   ELSE [NoScan EXCEPT !.source = planet]
                BY <1>0, <1>2, <2>1, <3>1 DEF PrepareSource
            <4> QED
                BY <1>2, <4>1 DEF NoScan
        <3>2. CASE ~job.admin
            BY <1>2, <3>2 DEF PrepareSource
        <3> QED
            BY <3>1, <3>2
    <2>2. CASE Store # "planet"
        <3>1. adm'["planet"] = adm["planet"] /\ job.mode = "bbox"
            BY <1>0, <1>2, <2>2 DEF PrepareSource, Store
        <3> QED
            BY <3>1
    <2> QED
        BY <2>1, <2>2
<1>3. CASE ~PrepareSource
    BY <1>0, <1>1, <1>3
<1> QED
    BY <1>2, <1>3

\* Every step keeps the boundaries as new as the index.
LEMMA DatedStep ==
    ASSUME Shape, Scanning, Bargain, Dated, [Next]_vars
    PROVE  Dated'
<1>0. /\ DOMAIN run = DOMAIN NoRun /\ RunShape /\ PlaceShape /\ WorldShape /\ OutputShape
      /\ at("openScan") => Scan \in {"relations", "members"}
      /\ planet \in Nat /\ index.source \in Nat /\ adm["planet"].source \in Nat
    BY DEF Shape, RunShape, PlaceShape, WorldShape, OutputShape, Scanned, Scanning, ScanStages, at
<1> DEFINE Late == AdminStages \ {"prepareAdmin"}
<1>1. CASE NodeStep /\ UNCHANGED <<wayVars, adminVars>>
    <2>1. UNCHANGED <<planet, adm>> /\ run'.pc \notin Late
        BY <1>0, <1>1, NodeFlow, Fields DEF Ends, GoesOn, Stop, NodeStages, AdminStages, ScanStages, adminVars
    <2> HIDE DEF Late
    <2>2. index'.source \in {index.source, planet}
        BY <1>1, NodeBinds
    <2>3. index'.done => index.done /\ UNCHANGED <<index.build, index.source>>
        BY <1>1, NodeBinds, DoneBinds
    <2> QED
        BY <1>0, <2>1, <2>2, <2>3 DEF Dated, Late
<1>2. CASE WayStep /\ UNCHANGED adminVars
    <2>1. UNCHANGED <<planet, adm>> /\ run'.pc \notin Late /\ run.pc # "finish"
        BY <1>0, <1>2, WayFlow, Fields DEF Ends, GoesOn, Stop, WayStages, AdminStages, ScanStages, adminVars
    <2> HIDE DEF Late
    <2>2. UNCHANGED <<index.source, index.build, index.done>>
        BY <1>2, <2>1, LaterPasses DEF Finish, at
    <2> QED
        BY <2>1, <2>2 DEF Dated, Late
<1>3. CASE AdminStep
    <2>1. /\ run.pc \in AdminStages /\ UNCHANGED planet
          /\ job' = job \/ (job'.mode = "none" /\ run'.pc = "off")
          /\ UNCHANGED <<index.source, index.build>> 
          /\ index'.done => index.done \/ Finish
        BY <1>0, <1>3, AdminFlow, LaterPasses, Fields DEF Ends, GoesOn, Stop, NoJob
    <2>2. adm'["planet"].source \in {adm["planet"].source, planet}
        BY <1>3, ScansDated
    <2>3. adm["planet"].source <= adm'["planet"].source /\ index.source <= planet
        BY <1>0, <2>2 DEF Dated
    <2>4. index'.done /\ index.build.admin => index.source <= adm["planet"].source
        <3>1. CASE index'.done /\ ~index.done
            <4>1. job.mode = "compact" /\ run.pc = "finish"
                BY <2>1, <3>1 DEF Finish, at
            <4>2. index.build = job /\ job.mode \in Indexed
                BY <2>1, <4>1 DEF Bargain, Indexed
            <4> QED
                BY <2>1, <4>1, <4>2 DEF Dated
        <3> QED
            BY <3>1 DEF Dated
    <2>5. ASSUME job'.mode \in Indexed, job'.admin, run'.pc \in Late
          PROVE  index.source <= adm'["planet"].source
        <3>1. job.mode \in Indexed /\ job.admin
            BY <2>1, <2>5 DEF Indexed
        <3>2. CASE run.pc \in Late
            <4>1. index.source <= adm["planet"].source
                BY <3>1, <3>2 DEF Dated
            <4> QED
                BY <1>0, <2>2, <2>3, <4>1
        <3>3. CASE run.pc = "prepareAdmin"
            <4>1. PrepareSource
                BY <1>3, <3>3 DEF AdminStep, OpenScan, ReadScan, EndOfScan, SaveScan, SaveScanOffset, MarkScan,
                    OpenAssembly, Republish, PublishMore, LevelDone, WriteLevels, Finish, SaveRegion, at
            <4>2. adm'["planet"].source = planet
                BY <1>3, <3>1, <4>1, ScansDated DEF Indexed
            <4> QED
                BY <2>3, <4>2
        <3> QED
            BY <2>1, <3>2, <3>3
    <2> HIDE DEF Late
    <2> QED
        BY <1>0, <2>1, <2>2, <2>3, <2>4, <2>5 DEF Dated, Late
<1>4. ASSUME NEW j \in scene.requests, Start(j)
      PROVE  Dated'
    <2>1. UNCHANGED <<planet, index, adm>> /\ run'.pc \in {"openWays", "openNodes"}
        BY <1>0, <1>4, Fields DEF Start, goto, Works, nodeVars, adminVars
    <2> QED
        BY <2>1 DEF Dated, AdminStages, ScanStages
<1>5. CASE Crash
    <2>1. UNCHANGED <<planet, index, adm>> /\ run'.pc = "off"
        BY <1>5, Fields DEF Crash, Stop, adminVars
    <2> QED
        BY <2>1 DEF Dated, AdminStages, ScanStages
<1>6. CASE Replace \/ UNCHANGED vars
    <2>1. UNCHANGED <<job, run, index, adm>> /\ planet' \in {planet, planet + 1}
        BY <1>6 DEF Replace, ReplacePlanet, vars, nodeVars, adminVars
    <2> QED
        BY <1>0, <2>1 DEF Dated, at
<1> QED
    BY <1>1, <1>2, <1>3, <1>4, <1>5, <1>6 DEF Next, Build

Making == {"republish", "assemble", "publish"}

\* Nothing is put together by a build that is not at the boundaries.
LEMMA AssemblingRests ==
    ASSUME DOMAIN assembly' = {"source", "regions"},
           run'.pc \notin AdminStages \/ run'.pc = "prepareAdmin" \/ (run'.pc = "finish" /\ ~job'.admin)
    PROVE  Assembling'
BY DEF Assembling, AdminStages, ScanStages, at

\* The scans lead to the regions only when all relations are known.
LEMMA ScanAssembling ==
    ASSUME Shape, Scanning, Assembling, AdminStep, UNCHANGED job, run.pc \in ScanStages \cup {"prepareAdmin"}
    PROVE  Assembling'
<1>0. /\ DOMAIN run = DOMAIN NoRun /\ WorldShape /\ OutputShape /\ job # NoJob
      /\ run.pc \notin {"off", "writeLevels", "finish", "openAssembly"} \cup Making
      /\ DOMAIN assembly = {"source", "regions"}
    BY DEF Shape, RunShape, StageShape, at, ScanStages, Making, Assembling
<1>1. run.pc \in ScanStages => job.admin
    BY DEF Assembling, ScanStages, AdminStages
<1>2. ~Stop
    BY <1>0 DEF Stop
<1>3. assembly' = assembly
    BY <1>0 DEF AdminStep, PrepareSource, OpenScan, ReadScan, EndOfScan, SaveScan, SaveScanOffset, MarkScan,
        OpenAssembly, Republish, PublishMore, LevelDone, WriteLevels, Finish, SaveRegion, adminVars, at, Making
<1> DEFINE G == \/ run'.pc \in ScanStages /\ job.admin
                \/ run'.pc = "finish" /\ ~job.admin
                \/ run'.pc = "writeLevels" /\ job.mode = "bbox" /\ job.admin
                \/ /\ run'.pc = "openAssembly" /\ job.mode # "bbox" /\ job.admin
                   /\ adm'["planet"].done.relations
<1>4. ASSUME run'.pc = AfterScan(adm'[Store]).pc, job.admin
      PROVE  G
    <2>1. CASE NextScan(adm'[Store]) # "none"
        BY <1>0, <1>4, <2>1, Fields DEF AfterScan, ScanStages
    <2>2. CASE NextScan(adm'[Store]) = "none" /\ job.mode = "bbox"
        BY <1>0, <1>4, <2>2, Fields DEF AfterScan
    <2>3. CASE NextScan(adm'[Store]) = "none" /\ job.mode # "bbox"
        <3>1. adm'["planet"].done.relations
            BY <2>3 DEF NextScan, Store
        <3> QED
            BY <1>0, <1>4, <2>3, <3>1, Fields DEF AfterScan
    <2> QED
        BY <2>1, <2>2, <2>3
<1>5. G
    <2>1. CASE PrepareSource
        <3>1. CASE job.admin
            BY <1>4, <2>1, <3>1 DEF PrepareSource
        <3>2. CASE ~job.admin
            BY <1>0, <2>1, <3>2, Fields DEF PrepareSource, goto
        <3> QED
            BY <3>1, <3>2
    <2>2. CASE OpenScan \/ ReadScan \/ EndOfScan
        BY <1>0, <1>1, <1>2, <2>2, Fields DEF OpenScan, ReadScan, EndOfScan, Fails, ScanStages, at
    <2>3. CASE SaveScan
        BY <1>0, <1>1, <1>2, <2>3, Fields DEF SaveScan, Fails, ScanStages, at
    <2>4. CASE SaveScanOffset
        BY <1>0, <1>1, <1>2, <2>4, Fields DEF SaveScanOffset, Fails, goto, ScanStages, at
    <2>5. CASE MarkScan
        <3>1. run' = [AfterScan(adm'[Store]) EXCEPT !.last = FALSE] /\ job.admin
            BY <1>1, <2>5 DEF MarkScan, ScanStages, at
        <3>2. run'.pc = AfterScan(adm'[Store]).pc
            BY <3>1
        <3> QED
            BY <1>4, <3>1, <3>2
    <2> QED
        BY <1>0, <2>1, <2>2, <2>3, <2>4, <2>5 DEF AdminStep, OpenAssembly, Republish, PublishMore, LevelDone,
            WriteLevels, Finish, SaveRegion, at, Making
<1> QED
    BY <1>0, <1>3, <1>5 DEF Assembling, AdminStages, ScanStages, at

\* Region by region, level by level, until all are shown.
LEMMA RegionAssembling ==
    ASSUME Shape, ScansAreWhole, Assembling, AdminStep, UNCHANGED job,
           run.pc \in {"openAssembly", "writeLevels"} \cup Making
    PROVE  Assembling'
<1>0. /\ DOMAIN run = DOMAIN NoRun /\ WorldShape /\ OutputShape /\ job # NoJob
      /\ DOMAIN assembly = {"source", "regions"} /\ job.admin
      /\ run.pc = "writeLevels" => job.mode = "bbox"
      /\ run.pc \in Making => assembly.source = adm["planet"].source /\ run.level \in Levels
    BY DEF Shape, RunShape, StageShape, at, AdminStages, Making, Assembling
<1>1. ~Stop
    BY <1>0 DEF Stop
<1>2. UNCHANGED <<adm, scene>>
    BY <1>0, <1>1 DEF AdminStep, PrepareSource, OpenScan, ReadScan, EndOfScan, SaveScan, SaveScanOffset, MarkScan,
        OpenAssembly, Republish, PublishMore, LevelDone, WriteLevels, Finish, SaveRegion, adminVars, at, Making,
        Publish, Works, Fails
<1>3. run.pc # "writeLevels" => job.mode # "bbox" /\ adm["planet"].done.relations /\ Adm = adm["planet"]
    BY DEF Assembling, Making, Adm, Store
<1>4. adm["planet"].saved.relations \subseteq Relations /\ \A r \in Relations : LevelOf[r] \in Levels
    BY <1>0, PlanetAssumption DEF OutputShape, Scanned
<1>5. Levels \subseteq Nat
    BY PlanetAssumption
<1>6. CASE WriteLevels
    <2> DEFINE l == IF run.level = 0 THEN Min(Levels) ELSE run.level
               pc == IF NextLevel(l) = 0 THEN "finish" ELSE "writeLevels"
               next == [run EXCEPT !.level = NextLevel(l), !.pc = pc]
    <2>1. run' = next /\ assembly' = assembly /\ job.mode = "bbox"
        BY <1>0, <1>1, <1>6 DEF WriteLevels, Fails, at
    <2>2. pc \in {"finish", "writeLevels"}
        OBVIOUS
    <2> HIDE DEF l, pc
    <2>3. run'.pc = pc
        BY <1>0, <2>1, Fields
    <2> QED
        BY <1>0, <2>1, <2>2, <2>3 DEF Assembling, AdminStages, ScanStages, at
<1>7. CASE OpenAssembly
    <2>1. run.pc = "openAssembly" /\ run' = [run EXCEPT !.pc = "republish", !.level = Min(Levels)]
        BY <1>1, <1>7 DEF OpenAssembly, at
    <2>2. run'.pc = "republish" /\ run'.level \in Levels
        BY <1>0, <2>1, LevelOrder, Fields
    <2>3. DOMAIN assembly' = {"source", "regions"} /\ assembly'.source = adm["planet"].source
        BY <1>0, <1>3, <1>7, <2>1 DEF OpenAssembly
    <2> QED
        BY <1>0, <1>2, <1>3, <2>1, <2>2, <2>3 DEF Assembling, AdminStages, ScanStages, at
<1>8. ASSUME run.pc \in Making, run'.pc \in Making, run'.level \in Levels,
             DOMAIN assembly' = {"source", "regions"}, assembly'.source = assembly.source,
             run'.pc \in {"assemble", "publish"} =>
                 \A r \in adm["planet"].saved.relations : LevelOf[r] < run'.level => Shown(r)'
      PROVE  Assembling'
    BY <1>0, <1>2, <1>3, <1>8 DEF Assembling, AdminStages, ScanStages, Making, at
<1>9. CASE Republish
    <2> DEFINE low == NextLevel(run.level) = 0
               level == IF low THEN Min(Levels) ELSE NextLevel(run.level)
               pc == IF low THEN "assemble" ELSE "republish"
               next == [run EXCEPT !.level = level, !.pc = pc]
    <2>1. run' = next /\ assembly' = assembly /\ run.pc \in Making
        BY <1>1, <1>9 DEF Republish, Publish, Fails, at, Making
    <2>2. level \in Levels /\ (pc = "assemble" => level = Min(Levels)) /\ pc \in {"assemble", "republish"}
        BY <1>0, <2>1, LevelOrder
    <2> HIDE DEF low, level, pc
    <2>3. run'.level = level /\ run'.pc = pc
        BY <1>0, <2>1, Fields
    <2>4. run'.pc = "assemble" => \A r \in adm["planet"].saved.relations : ~(LevelOf[r] < run'.level)
        <3> SUFFICES ASSUME run'.pc = "assemble", NEW r \in adm["planet"].saved.relations
                     PROVE  ~(LevelOf[r] < run'.level)
            OBVIOUS
        <3>1. LevelOf[r] \in Levels /\ run'.level = Min(Levels)
            BY <1>4, <2>2, <2>3
        <3>2. Min(Levels) <= LevelOf[r] /\ Min(Levels) \in Nat /\ LevelOf[r] \in Nat
            BY <1>5, <3>1, LevelOrder
        <3> QED
            BY <3>1, <3>2
    <2> QED
        BY <1>0, <1>8, <2>1, <2>2, <2>3, <2>4 DEF Making
<1>10. ASSUME run.pc \in {"assemble", "publish"}
       PROVE  \A r \in adm["planet"].saved.relations : LevelOf[r] < run.level => Shown(r)
    BY <1>10 DEF Assembling
<1>11. CASE PublishMore
    <2>1. /\ run' = [run EXCEPT !.pc = "assemble"] /\ UNCHANGED assembly /\ run.pc = "publish"
          /\ published' = [published EXCEPT ![run.level] = AtLevel(assembly.regions, run.level)]
        BY <1>1, <1>11 DEF PublishMore, Publish, Fails, at
    <2>2. run'.pc = "assemble" /\ run'.level = run.level
        BY <1>0, <2>1, Fields
    <2>3. \A r \in Relations : Shown(r) => Shown(r)'
        BY <1>0, <2>1, Publishes DEF Making
    <2> QED
        BY <1>0, <1>4, <1>8, <1>10, <2>1, <2>2, <2>3 DEF Making
<1>12. ASSUME NEW q \in Relations, SaveRegion(q)
       PROVE  Assembling'
    <2>1. /\ run' \in {run, [run EXCEPT !.pc = "publish"]} /\ run.pc = "assemble" /\ UNCHANGED published
          /\ assembly' = [assembly EXCEPT !.regions = @ \cup {Region(q)}]
        BY <1>1, <1>12 DEF SaveRegion, Fails, goto, at
    <2>2. run'.pc \in {"assemble", "publish"} /\ run'.level = run.level
        BY <1>0, <2>1, Fields
    <2>3. /\ DOMAIN assembly' = {"source", "regions"} /\ assembly'.source = assembly.source
          /\ assembly.regions \subseteq assembly'.regions
        BY <1>0, <2>1
    <2>4. \A r \in Relations : Shown(r) => Shown(r)'
        BY <2>1, <2>3, ShownStays
    <2> QED
        BY <1>0, <1>4, <1>8, <1>10, <2>1, <2>2, <2>3, <2>4 DEF Making
<1>13. CASE LevelDone
    <2> DEFINE level == NextLevel(run.level)
               pc == IF level = 0 THEN "finish" ELSE "assemble"
               next == [run EXCEPT !.level = level, !.pc = pc]
    <2>1. /\ run' = next /\ UNCHANGED assembly /\ run.pc = "assemble" /\ Pending = {}
          /\ published' = [published EXCEPT ![run.level] = AtLevel(assembly.regions, run.level)]
        BY <1>1, <1>13 DEF LevelDone, Publish, Fails, at
    <2>2. pc = IF level = 0 THEN "finish" ELSE "assemble"
        OBVIOUS
    <2>3. run.level \in Levels
        BY <1>0, <2>1 DEF Making
    <2> HIDE DEF pc
    <2>4. run'.level = NextLevel(run.level) /\ run'.pc = pc
        BY <1>0, <2>1, Fields
    <2>5. /\ \A r \in Relations : Shown(r) => Shown(r)'
          /\ \A r \in Relations : LevelOf[r] = run.level /\ (\E x \in assembly.regions : x.relation = r)
                  => Shown(r)'
        BY <2>1, <2>3, Publishes
    <2>6. \A r \in adm["planet"].saved.relations : LevelOf[r] <= run.level => Shown(r)'
        <3> SUFFICES ASSUME NEW r \in adm["planet"].saved.relations, LevelOf[r] <= run.level
                     PROVE  Shown(r)'
            OBVIOUS
        <3>1. r \in Relations /\ LevelOf[r] \in Nat /\ run.level \in Nat
            BY <1>4, <1>5, <2>3
        <3>2. CASE LevelOf[r] = run.level
            <4>1. \E x \in assembly.regions : x.relation = r
                BY <1>3, <2>1, <3>2 DEF Pending
            <4> QED
                BY <2>5, <3>1, <3>2, <4>1
        <3>3. CASE LevelOf[r] < run.level
            BY <1>10, <2>1, <2>5, <3>1, <3>3
        <3> QED
            BY <3>1, <3>2, <3>3
    <2>7. CASE NextLevel(run.level) # 0
        <3>1. NextLevel(run.level) \in Levels /\ \A m \in Levels : m < NextLevel(run.level) => m <= run.level
            BY <2>3, <2>7, LevelOrder
        <3>2. \A r \in adm["planet"].saved.relations : LevelOf[r] < run'.level => Shown(r)'
            BY <1>4, <2>4, <2>6, <3>1
        <3> QED
            BY <1>0, <1>8, <2>1, <2>2, <2>4, <2>7, <3>1, <3>2 DEF Making
    <2>8. CASE NextLevel(run.level) = 0
        <3>1. \A m \in Levels : m <= run.level
            BY <2>3, <2>8, LevelOrder
        <3>2. adm["planet"].saved.relations = RelationsIn(0, End)
            BY <1>3, <2>1 DEF ScansAreWhole
        <3>3. \A r \in RelationsIn(0, End) : Shown(r)'
            BY <1>4, <2>6, <3>1, <3>2
        <3>4. RelationsIn(0, End)' = RelationsIn(0, End)
            BY <1>2, FileKept
        <3>5. run'.pc = "finish" /\ assembly'.source = adm["planet"].source
            BY <1>0, <2>1, <2>2, <2>4, <2>8 DEF Making
        <3> QED
            BY <1>0, <1>2, <2>1, <3>3, <3>4, <3>5 DEF Assembling, AdminStages, ScanStages, at
    <2> QED
        BY <2>7, <2>8
<1> QED
    BY <1>6, <1>7, <1>9, <1>11, <1>12, <1>13 DEF AdminStep, PrepareSource, OpenScan, ReadScan, EndOfScan, SaveScan,
        SaveScanOffset, MarkScan, Finish, at, Making

\* Every step keeps what the boundary pass relies on.
LEMMA AssemblingStep ==
    ASSUME Shape, Scanning, ScansAreWhole, Assembling, [Next]_vars
    PROVE  Assembling'
<1>0. /\ DOMAIN run = DOMAIN NoRun /\ RunShape /\ PlaceShape /\ WorldShape /\ OutputShape
      /\ at("openScan") => Scan \in {"relations", "members"}
      /\ DOMAIN assembly = {"source", "regions"}
    BY DEF Shape, RunShape, Scanning, ScanStages, at, Assembling
<1>1. CASE NodeStep /\ UNCHANGED <<wayVars, adminVars>>
    <2>1. UNCHANGED assembly /\ run'.pc \in NodeStages \cup {"openWays", "prepareAdmin", "off"}
        BY <1>0, <1>1, NodeFlow, Fields DEF Ends, GoesOn, Stop, adminVars
    <2> QED
        BY <1>0, <2>1, AssemblingRests DEF NodeStages, AdminStages, ScanStages
<1>2. CASE WayStep /\ UNCHANGED adminVars
    <2>1. UNCHANGED assembly /\ run'.pc \in {"readWays", "writeCells", "prepareAdmin", "off"}
        BY <1>0, <1>2, WayFlow, Fields DEF Ends, GoesOn, Stop, adminVars
    <2> QED
        BY <1>0, <2>1, AssemblingRests DEF AdminStages, ScanStages
<1>3. CASE AdminStep
    <2>1. /\ run.pc \in AdminStages
          /\ Ends \/ GoesOn(AdminStages)
        BY <1>0, <1>3, AdminFlow
    <2>2. CASE Ends
        <3>1. DOMAIN assembly' = {"source", "regions"}
            <4>1. CASE OpenAssembly
                BY <1>0, <4>1 DEF OpenAssembly
            <4>2. ASSUME NEW r \in Relations, SaveRegion(r)
                  PROVE  DOMAIN assembly' = {"source", "regions"}
                BY <1>0, <4>2 DEF SaveRegion
            <4>3. CASE UNCHANGED assembly
                BY <1>0, <4>3
            <4> QED
                BY <1>3, <4>1, <4>2, <4>3 DEF AdminStep, PrepareSource, OpenScan, ReadScan, EndOfScan, SaveScan,
                    SaveScanOffset, MarkScan, Republish, PublishMore, LevelDone, WriteLevels, Finish, adminVars
        <3> QED
            BY <2>2, <3>1, AssemblingRests, Fields DEF Ends, Stop, AdminStages, ScanStages
    <2>3. CASE UNCHANGED job /\ run.pc \in ScanStages \cup {"prepareAdmin"}
        BY <1>3, <2>3, ScanAssembling
    <2>4. CASE UNCHANGED job /\ run.pc \in {"openAssembly", "writeLevels"} \cup Making
        BY <1>3, <2>4, RegionAssembling
    <2>5. CASE run.pc = "finish"
        <3>1. Ends
            BY <1>3, <2>5 DEF AdminStep, PrepareSource, OpenScan, ReadScan, EndOfScan, SaveScan, SaveScanOffset,
                MarkScan, OpenAssembly, Republish, PublishMore, LevelDone, WriteLevels, Finish, SaveRegion, at,
                Ends, Works
        <3> QED
            BY <2>2, <3>1
    <2> QED
        BY <2>1, <2>2, <2>3, <2>4, <2>5 DEF GoesOn, AdminStages, Making
<1>4. ASSUME NEW j \in scene.requests, Start(j)
      PROVE  Assembling'
    <2>1. UNCHANGED assembly /\ run'.pc \in {"openWays", "openNodes"}
        BY <1>0, <1>4, Fields DEF Start, goto, adminVars
    <2> QED
        BY <1>0, <2>1, AssemblingRests DEF AdminStages, ScanStages
<1>5. CASE Crash
    <2>1. UNCHANGED assembly /\ run'.pc = "off"
        BY <1>5, Fields DEF Crash, Stop, adminVars
    <2> QED
        BY <1>0, <2>1, AssemblingRests DEF AdminStages, ScanStages
<1>6. CASE Replace \/ UNCHANGED vars
    <2>1. UNCHANGED <<scene, job, run, adm, assembly, published>>
        BY <1>6 DEF Replace, ReplacePlanet, Disturb, vars, adminVars
    <2>2. RelationsIn(0, End)' = RelationsIn(0, End)
        BY <2>1, FileKept
    <2> QED
        BY <2>1, <2>2 DEF Assembling, Shown, at
<1> QED
    BY <1>1, <1>2, <1>3, <1>4, <1>5, <1>6 DEF Next, Build

\* A step of the boundary pass leaves what is shown, or begins with the regions of
\* another source.
LEMMA AdminShows ==
    ASSUME Shape, Assembling, AdminStep
    PROVE  \/ assembly'.source = assembly.source /\ \A r \in Relations : Shown(r) => Shown(r)'
           \/ run.pc = "openAssembly" /\ assembly.source # adm["planet"].source
<1>0. DOMAIN assembly = {"source", "regions"}
    BY DEF Assembling
<1> DEFINE G == assembly'.source = assembly.source /\ \A r \in Relations : Shown(r) => Shown(r)'
<1>1. CASE UNCHANGED <<assembly, published>>
    BY <1>1 DEF Shown
<1>2. CASE OpenAssembly
    <2>1. Adm = adm["planet"] /\ run.pc = "openAssembly" /\ UNCHANGED published
        BY <1>2 DEF OpenAssembly, Assembling, Adm, Store, at
    <2> QED
        BY <1>1, <1>2, <2>1 DEF OpenAssembly
<1>3. ASSUME NEW q \in Relations, SaveRegion(q)
      PROVE  G
    <2>1. CASE assembly' = [assembly EXCEPT !.regions = @ \cup {Region(q)}]
        <3>1. assembly.regions \subseteq assembly'.regions /\ assembly'.source = assembly.source
            BY <1>0, <2>1
        <3>2. UNCHANGED published
            BY <1>3 DEF SaveRegion
        <3> QED
            BY <3>1, <3>2, ShownStays
    <2>2. CASE UNCHANGED <<assembly, published>>
        BY <2>2 DEF Shown
    <2> QED
        BY <1>3, <2>1, <2>2 DEF SaveRegion
<1>4. CASE Republish \/ PublishMore \/ LevelDone
    <2>1. run.level \in Levels /\ UNCHANGED assembly
        BY <1>4 DEF Republish, PublishMore, LevelDone, Assembling, at
    <2>2. \/ UNCHANGED published
          \/ published' = [published EXCEPT ![run.level] = AtLevel(assembly.regions, run.level)]
        BY <1>4 DEF Republish, PublishMore, LevelDone, Publish
    <2> QED
        BY <1>1, <2>1, <2>2, Publishes
<1>5. CASE WriteLevels
    <2>1. CASE \E m : MergeLevel(m)
        BY <1>5, <2>1, MergeShows DEF WriteLevels
    <2> QED
        BY <1>1, <1>5, <2>1 DEF WriteLevels
<1> QED
    BY <1>1, <1>2, <1>3, <1>4, <1>5 DEF AdminStep, PrepareSource, OpenScan, ReadScan, EndOfScan, SaveScan,
        SaveScanOffset, MarkScan, Finish, adminVars

\* Every step leaves what a finished build has published.
LEMMA PresentedStep ==
    ASSUME Shape, Scanning, Bargain, Dated, Assembling, Presented, [Next]_vars
    PROVE  Presented'
<1>0. /\ DOMAIN run = DOMAIN NoRun /\ RunShape /\ PlaceShape /\ WorldShape /\ OutputShape
      /\ at("openScan") => Scan \in {"relations", "members"}
      /\ planet \in Nat /\ index.source \in Nat /\ adm["planet"].source \in Nat
    BY DEF Shape, RunShape, WorldShape, PlaceShape, OutputShape, Scanned, Scanning, ScanStages, at
<1>1. ASSUME UNCHANGED <<scene, adm, assembly, published>>,
             index'.done => index.done /\ UNCHANGED <<index.build, index.source>>
      PROVE  Presented'
    <2>1. RelationsIn(0, End)' = RelationsIn(0, End)
        BY <1>1, FileKept
    <2> QED
        BY <1>1, <2>1 DEF Presented, Shown
<1>2. CASE NodeStep /\ UNCHANGED <<wayVars, adminVars>>
    <2>1. UNCHANGED scene
        BY <1>0, <1>2, NodeFlow DEF Ends, GoesOn
    <2> QED
        <3>1. index'.done => index.done /\ UNCHANGED <<index.build, index.source>>
            BY <1>0, <1>2, NodeBinds, DoneBinds
        <3> QED
            BY <1>1, <1>2, <2>1, <3>1 DEF adminVars
<1>3. CASE WayStep /\ UNCHANGED adminVars
    <2>1. UNCHANGED scene /\ run.pc # "finish"
        BY <1>0, <1>3, WayFlow DEF Ends, GoesOn, WayStages
    <2> QED
        BY <1>1, <1>3, <2>1, LaterPasses DEF adminVars, Finish, at
<1>4. CASE AdminStep
    <2>1. /\ UNCHANGED <<index.source, index.build, scene>> /\ run.pc \in AdminStages
          /\ index'.done => index.done \/ Finish
        BY <1>0, <1>4, AdminFlow, LaterPasses DEF Ends, GoesOn
    <2>2. RelationsIn(0, End)' = RelationsIn(0, End) /\ RelationsIn(0, End) \subseteq Relations
        BY <1>0, <2>1, FileKept, PlacesInFile
    <2>3. CASE index.done
        <3> SUFFICES ASSUME index.build.admin, adm'["planet"].source = index.source
                     PROVE  /\ assembly'.source = index.source
                            /\ \A r \in RelationsIn(0, End) : Shown(r)'
            BY <2>1, <2>2 DEF Presented
        <3>1. adm["planet"].source = index.source
            <4>1. index.source <= adm["planet"].source /\ adm["planet"].source <= planet
                BY <2>3 DEF Dated
            <4>2. adm'["planet"].source \in {adm["planet"].source, planet}
                BY <1>4, ScansDated
            <4> QED
                BY <1>0, <4>1, <4>2
        <3>2. assembly.source = index.source /\ \A r \in RelationsIn(0, End) : Shown(r)
            BY <2>3, <3>1 DEF Presented
        <3> QED
            BY <1>4, <2>2, <3>1, <3>2, AdminShows
    <2>4. CASE ~index.done /\ index'.done
        <3>1. Finish /\ job.mode = "compact" /\ run.pc = "finish" /\ UNCHANGED <<adm, assembly, published>>
            BY <2>1, <2>4 DEF Finish, at, adminVars
        <3>2. index.build = job
            BY <2>1, <3>1 DEF Bargain
        <3>3. job.admin =>
                  assembly.source = adm["planet"].source /\ \A r \in RelationsIn(0, End) : Shown(r)
            BY <3>1 DEF Assembling, at
        <3>4. \A r \in Relations : Shown(r) => Shown(r)'
            BY <3>1 DEF Shown
        <3> QED
            BY <2>1, <2>2, <3>1, <3>2, <3>3, <3>4 DEF Presented
    <2> QED
        BY <2>3, <2>4 DEF Presented
<1>5. ASSUME NEW j \in scene.requests, Start(j)
      PROVE  Presented'
    BY <1>1, <1>5 DEF Start, Works, nodeVars, adminVars
<1>6. CASE Crash
    BY <1>1, <1>6 DEF Crash, Disturb, adminVars
<1>7. CASE Replace \/ UNCHANGED vars
    BY <1>1, <1>7 DEF Replace, ReplacePlanet, Disturb, vars, nodeVars, adminVars
<1> QED
    BY <1>2, <1>3, <1>4, <1>5, <1>6, <1>7 DEF Next, Build

\* An index that is not begun owes nothing.
LEMMA CompletesInit == Init => Completes
<1> SUFFICES ASSUME Init
             PROVE  Completes
    OBVIOUS
<1>1. WorldShape /\ planet = 1 /\ job = NoJob /\ run = NoRun /\ index = NoIndex
      /\ cells = [c \in Cells |-> {}] /\ adm = [s \in {"bbox", "planet"} |-> NoScan]
      /\ assembly = [source |-> 0, regions |-> {}]
    BY ShapeInit DEF Init, PlanetInit, NodeInit, WayInit, AdminInit, Shape
<1>2. /\ job.mode = "none" /\ run.pc = "off" /\ run.nodes = <<>> /\ run.features = {}
      /\ index.source = 0 /\ index.offset = 0 /\ index.blocks = {} /\ index.ways = 0 /\ index.build = NoJob
      /\ ~index.indexed /\ ~index.done /\ <<>> \in Seq(Nat)
      /\ adm["planet"].source = 0
    BY <1>1 DEF NoJob, NoRun, NoIndex, NoScan
<1>3. NodeIds(0, 0) = {}
    BY <1>1, NodesLie
<1>4. Indexing
    BY <1>2, <1>3 DEF Indexing, Indexed, at
<1>5. Bargain /\ Drawing
    BY <1>2 DEF Bargain, Drawing, at
<1>6. Exact
    BY <1>1, <1>2 DEF Exact
<1>7. Dated /\ Presented
    BY <1>1, <1>2 DEF Dated, Presented, Indexed
<1>8. Assembling
    BY <1>1, <1>2 DEF Assembling, AdminStages, ScanStages, at
<1> QED
    BY <1>4, <1>5, <1>6, <1>7, <1>8 DEF Completes

\* What a compact build relies on for its end is kept by every step.
LEMMA CompletesStep == Resumes /\ Completes /\ [Next]_vars => Completes'
<1> SUFFICES ASSUME Resumes, Completes, [Next]_vars
             PROVE  Completes'
    OBVIOUS
<1>1. Shape /\ Scanning /\ Gathered /\ ScansAreWhole
    BY DEF Resumes
<1>2. Indexing /\ Bargain /\ Drawing /\ Exact /\ Dated /\ Assembling /\ Presented
    BY DEF Completes
<1>3. Indexing' /\ Bargain' /\ Drawing' /\ Exact'
    BY <1>1, <1>2, IndexingStep, BargainStep, DrawingStep, ExactStep
<1>4. Dated' /\ Assembling' /\ Presented'
    BY <1>1, <1>2, DatedStep, AssemblingStep, PresentedStep
<1> QED
    BY <1>3, <1>4 DEF Completes

\* What the invariant says of a build that is done.
LEMMA DoneWhole == IInv => DoneIsWhole
<1> SUFFICES ASSUME IInv, index.done
             PROVE  DoneIsWhole
    BY DEF DoneIsWhole
<1>1. /\ index.blocks = NodeIds(0, End)
      /\ ~lost => \A w \in WaysIn(0, End) \cap index.build.layers : Covered(w, index.blocks)
    BY DEF IInv, Completes, Indexing, Bargain, Drawing
<1>2. WaysIn(0, End) \subseteq Ways /\ \A w \in Ways : CellsOf[w] \subseteq Cells
    BY PlacesInFile, PlanetAssumption DEF IInv, Resumes, Shape
<1>3. ASSUME ~lost, NEW w \in WaysIn(0, End) \cap index.build.layers,
             Cardinality(RefsOf[w] \cap NodeIds(0, End)) >= 2, NEW c \in CellsOf[w]
      PROVE  \E f \in cells[c] :
                /\ f.way = w
                /\ (\A j \in scene.requests : j.mode \in Indexed) =>
                      f.points = RefsOf[w] \cap NodeIds(0, End) /\ f.from = index.source
    <2>1. PICK f \in cells[c] : f.way = w
        BY <1>1, <1>3 DEF Covered, Ids
    <2>2. c \in Cells
        BY <1>2, <1>3
    <2>3. Single => f.points = RefsOf[w] \cap NodeIds(0, End) /\ f.from = index.source
        BY <2>1, <2>2 DEF IInv, Completes, Exact, Resumes, OneSource, Single, Indexed
    <2> QED
        BY <2>1, <2>3 DEF Single
<1>4. index.build.admin /\ adm["planet"].source = index.source =>
          \A r \in RelationsIn(0, End) : \E x \in published[LevelOf[r]] : x.relation = r
    BY DEF IInv, Completes, Presented, Shown
<1> QED
    BY <1>3, <1>4 DEF DoneIsWhole

-----------------------------------------------------------------------------
(* The node file in order.                                                 *)

\* What makes a function a permutation of a set.
LEMMA PermutationIs ==
    ASSUME NEW D, NEW p
    PROVE  p \in Bijection(D, D) <=>
              p \in [D -> D] /\ (\A a, b \in D : p[a] = p[b] => a = b) /\ (\A b \in D : \E a \in D : p[a] = b)
BY DEF Bijection, Injection, Surjection, IsInjective

\* A permutation of a set is undone by another, and two of them make a third.
LEMMA PermutationsUndone ==
    ASSUME NEW D, NEW p \in Bijection(D, D)
    PROVE  /\ \A q \in Bijection(D, D) : [i \in D |-> p[q[i]]] \in Bijection(D, D)
           /\ \E q \in Bijection(D, D) : \A i \in D : p[q[i]] = i /\ q[p[i]] = i
<1>1. p \in [D -> D] /\ (\A a, b \in D : p[a] = p[b] => a = b) /\ (\A b \in D : \E a \in D : p[a] = b)
    BY PermutationIs
<1>2. ASSUME NEW q \in Bijection(D, D)
      PROVE  [i \in D |-> p[q[i]]] \in Bijection(D, D)
    <2>1. q \in [D -> D] /\ (\A a, b \in D : q[a] = q[b] => a = b) /\ (\A b \in D : \E a \in D : q[a] = b)
        BY PermutationIs
    <2> DEFINE r == [i \in D |-> p[q[i]]]
    <2>2. r \in [D -> D] /\ \A i \in D : r[i] = p[q[i]]
        BY <1>1, <2>1
    <2>3. \A a, b \in D : r[a] = r[b] => a = b
        BY <1>1, <2>1, <2>2
    <2>4. \A b \in D : \E a \in D : r[a] = b
        BY <1>1, <2>1, <2>2
    <2> QED
        BY <2>2, <2>3, <2>4, PermutationIs
<1>3. \E q \in Bijection(D, D) : \A i \in D : p[q[i]] = i /\ q[p[i]] = i
    <2> DEFINE q == [b \in D |-> CHOOSE a \in D : p[a] = b]
    <2>1. \A b \in D : q[b] \in D /\ p[q[b]] = b
        BY <1>1
    <2>2. q \in [D -> D]
        BY <2>1
    <2> HIDE DEF q
    <2>3. \A i \in D : q[p[i]] = i
        BY <1>1, <2>1
    <2>4. \A a, b \in D : q[a] = q[b] => a = b
        BY <2>1
    <2>5. \A b \in D : \E a \in D : q[a] = b
        BY <1>1, <2>3
    <2>6. q \in Bijection(D, D)
        BY <2>2, <2>4, <2>5, PermutationIs
    <2> QED
        BY <2>1, <2>3, <2>6
<1> QED
    BY <1>2, <1>3

\* Reordering is an equivalence on sequences.
LEMMA ReorderingsCompose ==
    ASSUME NEW s \in Seq(Nat)
    PROVE  /\ Reorders(s, s)
           /\ \A t : Reorders(t, s) => /\ t \in Seq(Nat) /\ Len(t) = Len(s) /\ ToSet(t) = ToSet(s)
                                       /\ Reorders(s, t)
           /\ \A t, u : Reorders(t, s) /\ Reorders(u, t) => Reorders(u, s)
<1> DEFINE D == DOMAIN s
<1>0. D = 1 .. Len(s) /\ Len(s) \in Nat /\ \A i \in D : s[i] \in Nat
    OBVIOUS
<1>1. Reorders(s, s)
    <2> DEFINE p == [i \in D |-> i]
    <2>1. p \in Bijection(D, D)
        BY PermutationIs
    <2>2. s = [i \in D |-> s[p[i]]]
        OBVIOUS
    <2> QED
        BY <2>1, <2>2 DEF Reorders
<1>2. ASSUME NEW t, Reorders(t, s)
      PROVE  /\ t \in Seq(Nat) /\ Len(t) = Len(s) /\ ToSet(t) = ToSet(s)
             /\ Reorders(s, t)
    <2>1. PICK p \in Bijection(D, D) : t = [i \in D |-> s[p[i]]]
        BY <1>2 DEF Reorders
    <2>2. p \in [D -> D] /\ \A b \in D : \E a \in D : p[a] = b
        BY <2>1, PermutationIs
    <2>3. t \in [1 .. Len(s) -> Nat] /\ DOMAIN t = D /\ \A i \in D : t[i] = s[p[i]]
        BY <1>0, <2>1, <2>2
    <2>4. t \in Seq(Nat) /\ Len(t) = Len(s)
        <3>1. Len(s) \in Nat /\ t \in [1 .. Len(s) -> Nat]
            BY <1>0, <2>3
        <3> QED
            BY <3>1
    <2>5. ToSet(t) = ToSet(s)
        <3>0. \A j \in D : s[j] \in ToSet(s)
            BY DEF ToSet
        <3>1. \A i \in D : s[p[i]] \in ToSet(s)
            BY <2>2, <3>0
        <3>2. \A b \in D : \E i \in D : t[i] = s[b]
            <4> TAKE b \in D
            <4>1. PICK i \in D : p[i] = b
                BY <2>2
            <4> QED
                BY <2>3, <4>1
        <3>3. ToSet(t) \subseteq ToSet(s)
            BY <2>3, <3>1 DEF ToSet
        <3>5. ASSUME NEW b \in D
              PROVE  s[b] \in ToSet(t)
            <4>1. PICK i \in D : t[i] = s[b]
                BY <3>2
            <4> QED
                BY <2>3, <4>1 DEF ToSet
        <3>4. ToSet(s) \subseteq ToSet(t)
            BY <3>5 DEF ToSet
        <3> QED
            BY <3>3, <3>4
    <2>6. PICK q \in Bijection(D, D) : \A i \in D : p[q[i]] = i /\ q[p[i]] = i
        BY <2>1, PermutationsUndone
    <2>7. q \in [D -> D]
        BY <2>6, PermutationIs
    <2>8. s = [i \in D |-> t[q[i]]]
        BY <2>3, <2>6, <2>7
    <2> QED
        BY <2>3, <2>4, <2>5, <2>6, <2>8 DEF Reorders
<1>3. ASSUME NEW t, NEW u, Reorders(t, s), Reorders(u, t)
      PROVE  Reorders(u, s)
    <2>1. PICK p \in Bijection(D, D) : t = [i \in D |-> s[p[i]]]
        BY <1>3 DEF Reorders
    <2>2. DOMAIN t = D
        BY <2>1
    <2>3. PICK q \in Bijection(D, D) : u = [i \in D |-> t[q[i]]]
        BY <1>3, <2>2 DEF Reorders
    <2>4. q \in [D -> D] /\ p \in [D -> D]
        BY <2>1, <2>3, PermutationIs
    <2> DEFINE r == [i \in D |-> p[q[i]]]
    <2>5. u = [i \in D |-> s[r[i]]]
        BY <2>1, <2>3, <2>4
    <2>6. r \in Bijection(D, D)
        BY <2>1, <2>3, PermutationsUndone
    <2> QED
        BY <2>5, <2>6 DEF Reorders
<1> QED
    BY <1>1, <1>2, <1>3

\* The places of two sequences put together.
LEMMA Concatenation ==
    ASSUME NEW s \in Seq(Nat), NEW t \in Seq(Nat)
    PROVE  /\ s \o t \in Seq(Nat) /\ Len(s \o t) = Len(s) + Len(t) /\ DOMAIN (s \o t) = 1 .. Len(s) + Len(t)
           /\ \A i \in 1 .. Len(s) : (s \o t)[i] = s[i]
           /\ \A i \in 1 .. Len(t) : (s \o t)[Len(s) + i] = t[i]
           /\ \A i \in 1 .. Len(s) + Len(t) : i > Len(s) => i - Len(s) \in 1 .. Len(t) /\ (s \o t)[i] = t[i - Len(s)]
<1>1. /\ s \o t \in Seq(Nat) /\ Len(s) \in Nat /\ Len(t) \in Nat
      /\ Len(s \o t) = Len(s) + Len(t) /\ DOMAIN (s \o t) = 1 .. Len(s) + Len(t)
    OBVIOUS
<1>2. \A i \in 1 .. Len(s) : (s \o t)[i] = s[i]
    BY <1>1
<1>3. \A i \in 1 .. Len(s) + Len(t) : i > Len(s) => i - Len(s) \in 1 .. Len(t) /\ (s \o t)[i] = t[i - Len(s)]
    BY <1>1
<1>4. \A i \in 1 .. Len(t) : (s \o t)[Len(s) + i] = t[i]
    BY <1>1
<1> QED
    BY <1>1, <1>2, <1>3, <1>4

\* A sequence is what stands at its places.
LEMMA Rebuilt ==
    ASSUME NEW s \in Seq(Nat)
    PROVE  s = [i \in DOMAIN s |-> s[i]]
OBVIOUS

\* Sequences of equal lengths that agree are equal.
LEMMA SameSequence ==
    ASSUME NEW s \in Seq(Nat), NEW t \in Seq(Nat), Len(s) = Len(t), \A i \in 1 .. Len(s) : s[i] = t[i]
    PROVE  s = t
OBVIOUS

\* What is appended to both stays where it is.
LEMMA ReorderingsExtend ==
    ASSUME NEW s \in Seq(Nat), NEW t, NEW u \in Seq(Nat), Reorders(t, s)
    PROVE  Reorders(t \o u, s \o u)
<1> DEFINE n == Len(s)
           D == 1 .. n
           m == n + Len(u)
           E == 1 .. m
<1>0. n \in Nat /\ Len(u) \in Nat /\ m \in Nat /\ DOMAIN s = D /\ s \o u \in Seq(Nat) /\ DOMAIN (s \o u) = E
    BY Concatenation
<1>1. PICK p \in Bijection(D, D) : t = [i \in D |-> s[p[i]]]
    BY <1>0 DEF Reorders
<1>2. p \in [D -> D] /\ (\A a, b \in D : p[a] = p[b] => a = b) /\ (\A b \in D : \E a \in D : p[a] = b)
    BY <1>1, PermutationIs
<1>3. t \in Seq(Nat) /\ Len(t) = n
    BY ReorderingsCompose
<1> DEFINE q == [i \in E |-> IF i <= n THEN p[i] ELSE i]
<1>4. /\ \A i \in D : i \in E /\ q[i] = p[i] /\ q[i] \in D /\ q[i] \in E
      /\ \A i \in E : i \in D \/ (i > n /\ q[i] = i)
      /\ q \in [E -> E]
    <2>0. \A i \in D : i \in E /\ i <= n
        BY <1>0
    <2>1. \A i \in D : i \in E /\ i <= n /\ p[i] \in D /\ p[i] \in E
        <3> HIDE DEF D, E, q
        <3> QED
            BY <1>2, <2>0
    <2>2. \A i \in E : i \in D \/ (i > n /\ ~(i <= n))
        BY <1>0
    <2>3. \A i \in E : q[i] = IF i <= n THEN p[i] ELSE i
        OBVIOUS
    <2>4. \A i \in E : q[i] \in E
        BY <2>1, <2>2, <2>3
    <2>5. q \in [E -> E]
        BY <2>4
    <2> HIDE DEF q
    <2> QED
        BY <2>1, <2>2, <2>3, <2>5
<1> HIDE DEF q
<1>5. ASSUME NEW a \in E, NEW b \in E, q[a] = q[b]
      PROVE  a = b
    <2>1. CASE a \in D /\ b \in D
        BY <1>2, <1>4, <1>5, <2>1
    <2>2. CASE a \notin D /\ b \notin D
        BY <1>4, <1>5, <2>2
    <2>3. \A i \in D : ~(i > n)
        BY <1>0
    <2>4. CASE (a \in D) # (b \in D)
        BY <1>4, <1>5, <2>3, <2>4
    <2> QED
        BY <2>1, <2>2, <2>4
<1>6. \A b \in E : \E a \in E : q[a] = b
    <2> SUFFICES ASSUME NEW b \in E PROVE \E a \in E : q[a] = b
        OBVIOUS
    <2>1. CASE b \in D
        BY <1>2, <1>4, <2>1
    <2>2. CASE b \notin D
        BY <1>4, <2>2
    <2> QED
        BY <2>1, <2>2
<1>7. q \in Bijection(E, E)
    BY <1>4, <1>5, <1>6, PermutationIs
<1>8. t \o u = [i \in E |-> (s \o u)[q[i]]]
    <2>1. ASSUME NEW i \in E
          PROVE  (t \o u)[i] = (s \o u)[q[i]]
        <3>1. CASE i \in D
            <4>1. (t \o u)[i] = t[i] /\ t[i] = s[p[i]] /\ q[i] = p[i] /\ p[i] \in D
                BY <1>1, <1>3, <1>4, <3>1, Concatenation
            <4>2. (s \o u)[p[i]] = s[p[i]]
                BY <4>1, Concatenation
            <4> QED
                BY <4>1, <4>2
        <3>2. CASE i > n /\ q[i] = i
            BY <1>3, <3>2, Concatenation
        <3> QED
            BY <1>4, <3>1, <3>2
    <2>2. t \o u \in Seq(Nat) /\ DOMAIN (t \o u) = E
        BY <1>3, Concatenation
    <2>3. t \o u = [i \in DOMAIN (t \o u) |-> (t \o u)[i]]
        BY <2>2, Rebuilt
    <2> QED
        BY <2>1, <2>2, <2>3
<1> QED
    BY <1>0, <1>7, <1>8 DEF Reorders

\* One of the first places of a sequence has the largest number of them.
LEMMA LargestExists ==
    ASSUME NEW s \in Seq(Nat), s # <<>>
    PROVE  \E i \in 1 .. Len(s) : \A j \in 1 .. Len(s) : s[j] <= s[i]
<1> DEFINE Largest(k) == \E i \in 1 .. k : \A j \in 1 .. k : s[j] <= s[i]
           Bad == {k \in 1 .. Len(s) : ~Largest(k)}
<1>0. Len(s) \in Nat /\ Len(s) > 0 /\ \A i \in 1 .. Len(s) : s[i] \in Nat
    BY EmptySeq
<1>1. SUFFICES ASSUME Bad # {}
               PROVE  FALSE
    <2>1. Len(s) \in 1 .. Len(s)
        BY <1>0
    <2> HIDE DEF Largest
    <2>2. ASSUME Bad = {}
          PROVE  Largest(Len(s))
        BY <2>1, <2>2
    <2> QED
        BY <2>2 DEF Largest
<1>2. Bad \in SUBSET Nat
    BY <1>0
<1> HIDE DEF Bad
<1>3. PICK k \in Bad : \A l \in Bad : k <= l
    BY <1>1, <1>2, LeastExists
<1>4. k \in 1 .. Len(s) /\ ~Largest(k)
    BY <1>3 DEF Bad
<1>5. k # 1
    BY <1>0, <1>4
<1>6. k - 1 \in 1 .. Len(s) /\ k - 1 \notin Bad
    <2>1. Len(s) \in Nat /\ k \in 1 .. Len(s)
        BY <1>0, <1>4
    <2>2. k - 1 \in 1 .. Len(s) /\ ~(k <= k - 1)
        BY <1>5, <2>1
    <2> QED
        BY <1>3, <2>2
<1>7. PICK i \in 1 .. k - 1 : \A j \in 1 .. k - 1 : s[j] <= s[i]
    BY <1>6 DEF Bad
<1>8. s[i] \in Nat /\ s[k] \in Nat /\ i \in 1 .. k /\ k \in 1 .. k
    BY <1>0, <1>4, <1>7
<1>9. \A j \in 1 .. k : j \in 1 .. k - 1 \/ j = k
    BY <1>0, <1>4
<1>10. \A j \in 1 .. k : s[j] \in Nat
    BY <1>0, <1>4
<1>11. CASE s[i] <= s[k]
    <2>1. \A j \in 1 .. k : s[j] <= s[k]
        <3>1. ASSUME NEW j \in 1 .. k - 1
              PROVE  s[j] <= s[k]
            <4>1. s[j] <= s[i]
                BY <1>7
            <4>2. k \in Nat
                BY <1>0, <1>4
            <4>3. j \in 1 .. k
                BY <4>2
            <4>4. s[j] \in Nat
                BY <1>10, <4>3
            <4> QED
                BY <1>8, <1>11, <4>1, <4>4
        <3> QED
            BY <1>8, <1>9, <3>1
    <2> QED
        BY <1>4, <1>8, <2>1
<1>12. CASE s[k] <= s[i]
    <2>1. \A j \in 1 .. k : s[j] <= s[i]
        BY <1>7, <1>9, <1>12
    <2> QED
        BY <1>4, <1>8, <2>1
<1> QED
    BY <1>8, <1>11, <1>12

\* The largest may stand at the end.
LEMMA LargestLast ==
    ASSUME NEW s \in Seq(Nat), s # <<>>
    PROVE  \E r \in Seq(Nat), e \in Nat :
              Len(r) = Len(s) - 1 /\ (\A i \in 1 .. Len(r) : r[i] <= e) /\ Reorders(r \o <<e>>, s)
<1> DEFINE n == Len(s)
           D == 1 .. n
<1>0. n \in Nat /\ n > 0 /\ DOMAIN s = D /\ \A i \in D : s[i] \in Nat
    BY EmptySeq
<1>1. PICK i \in D : \A j \in D : s[j] <= s[i]
    BY LargestExists
<1> DEFINE p == [j \in D |-> IF j = i THEN n ELSE IF j = n THEN i ELSE j]
           r == [j \in 1 .. n - 1 |-> s[p[j]]]
<1>2. n \in D /\ (\A j \in 1 .. n - 1 : j \in D /\ j # n) /\ \A j \in D : j \in 1 .. n - 1 \/ j = n
    <2>1. n \in Nat /\ n > 0
        BY <1>0
    <2> HIDE DEF n
    <2> QED
        BY <2>1
<1>3. p \in [D -> D] /\ \A a \in D : p[p[a]] = a
    BY <1>2
<1>4. p[n] = i
    BY <1>2
<1> HIDE DEF p
<1>5. p \in Bijection(D, D)
    <2>1. \A a, b \in D : p[a] = p[b] => a = b
        BY <1>3
    <2>2. \A b \in D : \E a \in D : p[a] = b
        BY <1>3
    <2> QED
        BY <1>3, <2>1, <2>2, PermutationIs
<1>6. r \in Seq(Nat) /\ Len(r) = n - 1 /\ \A j \in 1 .. n - 1 : r[j] = s[p[j]] /\ p[j] \in D
    <2>1. n - 1 \in Nat
        BY <1>0
    <2>2. \A j \in 1 .. n - 1 : p[j] \in D /\ s[p[j]] \in Nat
        BY <1>0, <1>2, <1>3
    <2> HIDE DEF D, n
    <2>3. \A j \in 1 .. n - 1 : r[j] = s[p[j]]
        OBVIOUS
    <2>4. r \in [1 .. n - 1 -> Nat]
        BY <2>2
    <2> HIDE DEF r
    <2>5. r \in Seq(Nat) /\ Len(r) = n - 1
        BY <2>1, <2>4
    <2> QED
        BY <2>2, <2>3, <2>5
<1> HIDE DEF r
<1>7. \A j \in 1 .. Len(r) : r[j] <= s[i]
    BY <1>1, <1>6
<1>8. r \o <<s[i]>> = [j \in D |-> s[p[j]]]
    <2>0. <<s[i]>> \in Seq(Nat) /\ Len(<<s[i]>>) = 1 /\ <<s[i]>>[1] = s[i]
        BY <1>0
    <2>1. /\ r \o <<s[i]>> \in Seq(Nat) /\ DOMAIN (r \o <<s[i]>>) = D
          /\ \A j \in 1 .. n - 1 : (r \o <<s[i]>>)[j] = r[j]
          /\ (r \o <<s[i]>>)[n] = s[i]
        <3>1. 1 \in 1 .. Len(<<s[i]>>) /\ Len(r) + 1 = n /\ Len(r) + Len(<<s[i]>>) = n
            BY <1>0, <1>6, <2>0
        <3>2. (r \o <<s[i]>>)[Len(r) + 1] = <<s[i]>>[1]
            BY <1>6, <2>0, <3>1, Concatenation
        <3> QED
            BY <1>6, <2>0, <3>1, <3>2, Concatenation
    <2> DEFINE w == r \o <<s[i]>>
    <2> HIDE DEF w
    <2>2. w \in Seq(Nat) /\ DOMAIN w = D /\ (\A j \in 1 .. n - 1 : w[j] = r[j]) /\ w[n] = s[i]
        BY <2>1 DEF w
    <2>4. \A j \in D : w[j] = s[p[j]]
        BY <1>2, <1>4, <1>6, <2>2
    <2>5. w = [j \in D |-> w[j]]
        BY <2>2, Rebuilt
    <2>6. w = [j \in D |-> s[p[j]]]
        BY <2>4, <2>5
    <2> QED
        BY <2>6 DEF w
<1>9. Reorders(r \o <<s[i]>>, s)
    BY <1>0, <1>5, <1>8 DEF Reorders
<1> QED
    BY <1>0, <1>6, <1>7, <1>9

\* Every sequence can be put in order.
LEMMA SortExists ==
    ASSUME NEW s \in Seq(Nat)
    PROVE  \E t : Rising(t) /\ Reorders(t, s)
<1> DEFINE Sortable(u) == \E t : Rising(t) /\ Reorders(t, u)
           Bad == {n \in Nat : \E u \in Seq(Nat) : Len(u) = n /\ ~Sortable(u)}
<1>1. SUFFICES ASSUME Bad # {}
               PROVE  FALSE
    OBVIOUS
<1>2. Bad \in SUBSET Nat
    OBVIOUS
<1> HIDE DEF Bad
<1>3. PICK n \in Bad : \A m \in Bad : n <= m
    BY <1>1, <1>2, LeastExists
<1>4. PICK u \in Seq(Nat) : Len(u) = n /\ ~Sortable(u)
    BY <1>3 DEF Bad
<1>5. u # <<>>
    <2>1. ASSUME u = <<>>
          PROVE  Rising(u)
        BY <2>1 DEF Rising
    <2>2. Reorders(u, u)
        BY ReorderingsCompose
    <2> QED
        BY <1>4, <2>1, <2>2
<1>6. PICK r \in Seq(Nat), e \in Nat :
          Len(r) = Len(u) - 1 /\ (\A i \in 1 .. Len(r) : r[i] <= e) /\ Reorders(r \o <<e>>, u)
    BY <1>5, LargestLast
<1>7. Len(r) \in Nat /\ Len(r) \notin Bad
    BY <1>2, <1>3, <1>4, <1>6
<1>8. PICK t : Rising(t) /\ Reorders(t, r)
    BY <1>7 DEF Bad
<1>9. t \in Seq(Nat) /\ Len(t) = Len(r) /\ ToSet(t) = ToSet(r) /\ <<e>> \in Seq(Nat) /\ Len(<<e>>) = 1 /\ <<e>>[1] = e
    BY <1>8, ReorderingsCompose
<1>10. \A i \in DOMAIN t : t[i] <= e
    <2>1. \A i \in DOMAIN t : t[i] \in ToSet(r)
        BY <1>9 DEF ToSet
    <2> QED
        BY <1>6, <2>1 DEF ToSet
<1>11. Rising(t \o <<e>>)
    <2> DEFINE w == t \o <<e>>
    <2>1. /\ DOMAIN w = 1 .. Len(t) + 1 /\ w[Len(t) + 1] = e
          /\ \A i \in 1 .. Len(t) : w[i] = t[i]
        <3>1. 1 \in 1 .. Len(<<e>>)
            BY <1>9
        <3>2. w[Len(t) + 1] = <<e>>[1]
            <4>1. \A i \in 1 .. Len(<<e>>) : (t \o <<e>>)[Len(t) + i] = <<e>>[i]
                BY <1>9, Concatenation
            <4> QED
                BY <3>1, <4>1
        <3> QED
            BY <1>9, <3>2, Concatenation
    <2> HIDE DEF w
    <2>2. DOMAIN t = 1 .. Len(t) /\ Len(t) \in Nat
        BY <1>9
    <2>3. ASSUME NEW i \in DOMAIN w, NEW j \in DOMAIN w, i < j
          PROVE  w[i] <= w[j]
        <3>1. i \in DOMAIN t /\ (j \in DOMAIN t \/ j = Len(t) + 1)
            BY <2>1, <2>2, <2>3
        <3>2. CASE j \in DOMAIN t
            BY <1>8, <2>1, <2>2, <2>3, <3>1, <3>2 DEF Rising
        <3>3. CASE j = Len(t) + 1
            BY <1>10, <2>1, <2>2, <3>1, <3>3
        <3> QED
            BY <3>1, <3>2, <3>3
    <2> QED
        BY <2>3 DEF Rising, w
<1>12. Reorders(t \o <<e>>, r \o <<e>>)
    BY <1>8, <1>9, ReorderingsExtend
<1>13. Reorders(t \o <<e>>, u)
    BY <1>6, <1>12, ReorderingsCompose
<1> QED
    BY <1>4, <1>11, <1>13

\* What the sort makes of a file: the same nodes, in order.
LEMMA SortedIs ==
    ASSUME NEW s \in Seq(Nat)
    PROVE  /\ Sorted(s) \in Seq(Nat) /\ Len(Sorted(s)) = Len(s) /\ ToSet(Sorted(s)) = ToSet(s)
           /\ Rising(Sorted(s)) /\ Reorders(Sorted(s), s)
<1>1. PICK t : Rising(t) /\ Reorders(t, s)
    BY SortExists
<1>2. t \in [DOMAIN s -> ToSet(s)]
    <2>1. t \in Seq(Nat) /\ Len(t) = Len(s) /\ ToSet(t) = ToSet(s)
        BY <1>1, ReorderingsCompose
    <2>2. t = [i \in DOMAIN t |-> t[i]] /\ DOMAIN t = DOMAIN s
        BY <2>1, Rebuilt
    <2>3. \A i \in DOMAIN t : t[i] \in ToSet(s)
        BY <2>1 DEF ToSet
    <2> QED
        BY <2>2, <2>3
<1>3. Rising(Sorted(s)) /\ Reorders(Sorted(s), s)
    BY <1>1, <1>2 DEF Sorted
<1> QED
    BY <1>3, ReorderingsCompose

\* It is the same for all orders of the same nodes.
LEMMA SortedSame ==
    ASSUME NEW s \in Seq(Nat), NEW t, Reorders(t, s)
    PROVE  Sorted(t) = Sorted(s)
<1>1. t \in Seq(Nat) /\ Len(t) = Len(s) /\ ToSet(t) = ToSet(s) /\ Reorders(s, t)
    BY ReorderingsCompose
<1>2. \A u : Reorders(u, t) <=> Reorders(u, s)
    BY <1>1, ReorderingsCompose
<1>3. DOMAIN t = DOMAIN s
    BY <1>1
<1> QED
    BY <1>1, <1>2, <1>3, Zenon DEF Sorted

-----------------------------------------------------------------------------
(* Sequences joined one by one.                                            *)

\* The sequences put together so far, one by one.
Joining(f, seqs) ==
    f = [i \in 1 .. Len(seqs) |-> IF i = 1 THEN seqs[i] ELSE f[i - 1] \o seqs[i]]

\* What is joined so far only depends on the first sequences.
LEMMA JoiningSame ==
    ASSUME NEW s, NEW t, NEW f, NEW g, Joining(f, s), Joining(g, t), NEW n \in Nat,
           Len(s) \in Nat, Len(t) \in Nat, n <= Len(s), n <= Len(t), \A i \in 1 .. n : s[i] = t[i]
    PROVE  \A i \in 1 .. n : f[i] = g[i]
<1> DEFINE Bad == {i \in 1 .. n : f[i] # g[i]}
<1>1. SUFFICES ASSUME Bad # {}
               PROVE  FALSE
    OBVIOUS
<1>2. Bad \in SUBSET Nat
    OBVIOUS
<1>3. PICK i \in Bad : \A j \in Bad : i <= j
    BY <1>1, <1>2, LeastExists
<1>4. i \in 1 .. n /\ f[i] # g[i]
    BY <1>3
<1>5. i \in 1 .. Len(s) /\ i \in 1 .. Len(t) /\ s[i] = t[i]
    BY <1>4
<1>6. /\ f[i] = IF i = 1 THEN s[i] ELSE f[i - 1] \o s[i]
      /\ g[i] = IF i = 1 THEN t[i] ELSE g[i - 1] \o t[i]
    BY <1>5 DEF Joining
<1>7. i # 1
    BY <1>4, <1>5, <1>6
<1>8. i - 1 \in 1 .. n /\ ~(i <= i - 1)
    BY <1>4, <1>7
<1>9. f[i - 1] = g[i - 1]
    BY <1>3, <1>8
<1> QED
    BY <1>4, <1>5, <1>6, <1>7, <1>9

\* One more sequence is joined to what there is.
LEMMA JoiningMore ==
    ASSUME NEW S, NEW seqs \in Seq(S), NEW e \in S, NEW f, Joining(f, seqs)
    PROVE  \E g : Joining(g, Append(seqs, e))
<1> DEFINE n == Len(seqs)
           t == Append(seqs, e)
           g == [i \in 1 .. n + 1 |-> IF i = n + 1 THEN IF n = 0 THEN e ELSE f[n] \o e ELSE f[i]]
<1>1. n \in Nat /\ Len(t) = n + 1 /\ t[n + 1] = e /\ \A i \in 1 .. n : t[i] = seqs[i]
    OBVIOUS
<1>2. \A i \in 1 .. n : f[i] = IF i = 1 THEN seqs[i] ELSE f[i - 1] \o seqs[i]
    BY DEF Joining
<1> HIDE DEF n, t
<1>3. /\ g[n + 1] = IF n = 0 THEN e ELSE f[n] \o e
      /\ \A i \in 1 .. n : g[i] = f[i]
    <2>1. n + 1 \in 1 .. n + 1 /\ \A i \in 1 .. n : i \in 1 .. n + 1 /\ i # n + 1
        BY <1>1
    <2> QED
        BY <2>1
<1>4. g = [i \in 1 .. n + 1 |-> g[i]]
    OBVIOUS
<1> HIDE DEF g
<1>5. ASSUME NEW i \in 1 .. n + 1
      PROVE  g[i] = IF i = 1 THEN t[i] ELSE g[i - 1] \o t[i]
    <2>1. CASE i = n + 1
        <3>1. CASE n = 0
            BY <1>1, <1>3, <2>1, <3>1
        <3>2. CASE n # 0
            <4>1. n \in 1 .. n /\ i # 1 /\ i - 1 = n
                BY <1>1, <2>1, <3>2
            <4> QED
                BY <1>1, <1>3, <2>1, <3>2, <4>1
        <3> QED
            BY <3>1, <3>2
    <2>2. CASE i \in 1 .. n
        <3>1. i # 1 => i - 1 \in 1 .. n
            BY <1>1, <2>2
        <3> QED
            BY <1>1, <1>2, <1>3, <2>2, <3>1
    <2> QED
        BY <1>1, <2>1, <2>2
<1>6. Joining(g, t)
    BY <1>1, <1>4, <1>5 DEF Joining
<1> QED
    BY <1>6 DEF t

\* There is always a way to join.
LEMMA JoiningExists ==
    ASSUME NEW S, NEW seqs \in Seq(S)
    PROVE  \E f : Joining(f, seqs)
<1> DEFINE Joinable(u) == \E f : Joining(f, u)
           Bad == {n \in Nat : \E u \in Seq(S) : Len(u) = n /\ ~Joinable(u)}
<1>1. SUFFICES ASSUME Bad # {}
               PROVE  FALSE
    OBVIOUS
<1>2. Bad \in SUBSET Nat
    OBVIOUS
<1> HIDE DEF Bad
<1>3. PICK n \in Bad : \A m \in Bad : n <= m
    BY <1>1, <1>2, LeastExists
<1>4. PICK u \in Seq(S) : Len(u) = n /\ ~Joinable(u)
    BY <1>3 DEF Bad
<1>5. u # <<>>
    <2>1. ASSUME u = <<>>
          PROVE  Joining(<<>>, u)
        BY <2>1 DEF Joining
    <2> QED
        BY <1>4, <2>1
<1>6. PICK v \in Seq(S), e \in S : u = Append(v, e)
    BY <1>5, SequenceEmptyOrAppend
<1>7. Len(v) \in Nat /\ Len(v) \notin Bad
    <2>1. Len(v) \in Nat /\ Len(u) = Len(v) + 1
        BY <1>6, AppendProperties
    <2> QED
        BY <1>3, <1>4, <2>1
<1>8. Joinable(v)
    BY <1>6, <1>7 DEF Bad
<1> QED
    BY <1>4, <1>6, <1>8, JoiningMore

\* Flattening joins them all.
LEMMA FlattenIs ==
    ASSUME NEW S, NEW seqs \in Seq(S), Len(seqs) # 0
    PROVE  \E f : Joining(f, seqs) /\ FlattenSeq(seqs) = f[Len(seqs)]
<1> DEFINE g == CHOOSE f : Joining(f, seqs)
<1>1. FlattenSeq(seqs) = g[Len(seqs)]
    BY DEF FlattenSeq, Joining
<1>2. Joining(g, seqs)
    BY JoiningExists
<1> QED
    BY <1>1, <1>2

\* Nothing is joined to nothing.
LEMMA FlattenNone == FlattenSeq(<<>>) = <<>>
BY DEF FlattenSeq

\* Flattening goes on where it was.
LEMMA FlattenMore ==
    ASSUME NEW S, NEW seqs \in Seq(S), NEW e \in S
    PROVE  FlattenSeq(Append(seqs, e)) = IF Len(seqs) = 0 THEN e ELSE FlattenSeq(seqs) \o e
<1> DEFINE n == Len(seqs)
           t == Append(seqs, e)
<1>1. /\ n \in Nat /\ t \in Seq(S) /\ Len(t) = n + 1 /\ t[n + 1] = e
      /\ \A i \in 1 .. n : t[i] = seqs[i]
    BY AppendProperties
<1>2. PICK g : Joining(g, t) /\ FlattenSeq(t) = g[n + 1]
    <2>1. Len(t) # 0 /\ Len(t) = n + 1
        BY <1>1
    <2> HIDE DEF t, n
    <2>2. \E f : Joining(f, t) /\ FlattenSeq(t) = f[Len(t)]
        BY <1>1, <2>1, FlattenIs
    <2> QED
        BY <2>1, <2>2
<1> HIDE DEF t
<1>3. g[n + 1] = IF n = 0 THEN e ELSE g[n] \o e
    <2>1. n + 1 \in 1 .. n + 1 /\ (n + 1 = 1 <=> n = 0) /\ (n + 1) - 1 = n
        BY <1>1
    <2>2. \A i \in 1 .. Len(t) : g[i] = IF i = 1 THEN t[i] ELSE g[i - 1] \o t[i]
        BY <1>2 DEF Joining
    <2> QED
        BY <1>1, <2>1, <2>2
<1>4. CASE n = 0
    BY <1>2, <1>3, <1>4 DEF t
<1>5. CASE n # 0
    <2>1. PICK f : Joining(f, seqs) /\ FlattenSeq(seqs) = f[n]
        BY <1>5, FlattenIs
    <2>2. f[n] = g[n]
        <3>1. n \in 1 .. n /\ n <= n /\ n <= n + 1
            BY <1>1, <1>5
        <3> QED
            BY <1>1, <1>2, <2>1, <3>1, JoiningSame
    <2> QED
        BY <1>2, <1>3, <1>5, <2>1, <2>2 DEF t
<1> QED
    BY <1>4, <1>5

-----------------------------------------------------------------------------
(* The nodes of a stretch of the file.                                     *)

\* The nodes of a stretch, read blob by blob.
LEMMA NodesAhead ==
    ASSUME WorldShape, NEW a \in Nat
    PROVE  /\ NodesIn(a, a) = <<>>
           /\ \A m \in Nat : a <= m /\ m < End =>
                NodesIn(a, m + 1) = IF m = a THEN Blobs[m + 1].nodes ELSE NodesIn(a, m) \o Blobs[m + 1].nodes
<1>1. NodesIn(a, a) = <<>>
    <2> DEFINE s == [i \in 1 .. (a - a) |-> Blobs[a + i].nodes]
    <2>1. s = <<>>
        OBVIOUS
    <2> QED
        BY <2>1, FlattenNone DEF NodesIn
<1>2. ASSUME NEW m \in Nat, a <= m, m < End
      PROVE  NodesIn(a, m + 1) = IF m = a THEN Blobs[m + 1].nodes ELSE NodesIn(a, m) \o Blobs[m + 1].nodes
    <2> DEFINE k == m - a
               N(i) == Blobs[a + i].nodes
               s == [i \in 1 .. k |-> N(i)]
               t == [i \in 1 .. k + 1 |-> N(i)]
    <2>1. k \in Nat /\ (m + 1) - a = k + 1 /\ a + (k + 1) = m + 1 /\ (k = 0 <=> m = a)
        BY <1>2
    <2>2. \A i \in 1 .. k + 1 : N(i) \in Seq(Nat)
        <3>1. \A i \in 1 .. k + 1 : a + i \in 1 .. End
            BY <1>2, BlobsAreTyped
        <3> QED
            BY <3>1, BlobsAreTyped
    <2>3. NodesIn(a, m) = FlattenSeq(s) /\ NodesIn(a, m + 1) = FlattenSeq(t) /\ N(k + 1) = Blobs[m + 1].nodes
        BY <2>1 DEF NodesIn
    <2> DEFINE S == Seq(Nat)
    <2>4. \A i \in 1 .. k + 1 : N(i) \in S
        BY <2>2
    <2> HIDE DEF N, k, S
    <2>5. s \in Seq(S) /\ Len(s) = k
        <3>1. \A i \in 1 .. k : i \in 1 .. k + 1
            BY <2>1
        <3>2. s \in [1 .. k -> S]
            BY <2>4, <3>1
        <3> HIDE DEF s
        <3> QED
            BY <2>1, <3>2
    <2>6. N(k + 1) \in S
        <3>1. k + 1 \in 1 .. k + 1
            BY <2>1
        <3> QED
            BY <2>4, <3>1
    <2>7. t = Append(s, N(k + 1))
        <3> DEFINE u == Append(s, N(k + 1))
        <3>1. u \in Seq(S) /\ Len(u) = k + 1 /\ u[k + 1] = N(k + 1) /\ \A i \in 1 .. k : u[i] = s[i]
            <4> HIDE DEF s
            <4> QED
                BY <2>5, <2>6, AppendProperties
        <3>2. t \in [1 .. k + 1 -> S]
            BY <2>4
        <3>3. \A i \in 1 .. k + 1 : t[i] = N(i) /\ (i = k + 1 \/ i \in 1 .. k)
            BY <2>1
        <3>4. \A i \in 1 .. k : s[i] = N(i)
            OBVIOUS
        <3> HIDE DEF s, t, u
        <3>5. \A i \in 1 .. k + 1 : u[i] = t[i]
            BY <3>1, <3>3, <3>4
        <3>6. DOMAIN u = 1 .. k + 1 /\ u = [i \in DOMAIN u |-> u[i]]
            BY <3>1
        <3>7. t = [i \in 1 .. k + 1 |-> t[i]]
            BY <3>2
        <3> QED
            BY <3>5, <3>6, <3>7 DEF u
    <2>8. FlattenSeq(t) = IF k = 0 THEN N(k + 1) ELSE FlattenSeq(s) \o N(k + 1)
        BY <2>5, <2>6, <2>7, FlattenMore
    <2> QED
        BY <2>1, <2>3, <2>8
<1> QED
    BY <1>1, <1>2

\* The nodes of a stretch are those of its blobs, and those that another blob adds.
LEMMA NodesRead ==
    ASSUME WorldShape, NEW a \in Nat
    PROVE  \A b \in Nat : a <= b /\ b <= End =>
              /\ NodesIn(a, b) \in Seq(Nat) /\ ToSet(NodesIn(a, b)) = NodeIds(a, b)
              /\ b < End => NodesIn(a, b + 1) = NodesIn(a, b) \o Blobs[b + 1].nodes
<1> DEFINE Fine(b) == /\ NodesIn(a, b) \in Seq(Nat) /\ ToSet(NodesIn(a, b)) = NodeIds(a, b)
                      /\ b < End => NodesIn(a, b + 1) = NodesIn(a, b) \o Blobs[b + 1].nodes
           Bad == {b \in Nat : a <= b /\ b <= End /\ ~Fine(b)}
<1>0. End \in Nat /\ <<>> \in Seq(Nat) /\ ToSet(<<>>) = {}
    BY BlobsAreTyped DEF ToSet
<1>1. SUFFICES ASSUME Bad # {}
               PROVE  FALSE
    OBVIOUS
<1>2. Bad \in SUBSET Nat
    OBVIOUS
<1> HIDE DEF Bad
<1>3. PICK b \in Bad : \A m \in Bad : b <= m
    BY <1>1, <1>2, LeastExists
<1>4. b \in Nat /\ a <= b /\ b <= End /\ ~Fine(b)
    BY <1>3 DEF Bad
<1>5. CASE b = a
    <2>1. NodesIn(a, b) = <<>> /\ NodeIds(a, b) = {}
        BY <1>5, NodesAhead, NodesLie
    <2>2. ASSUME b < End
          PROVE  NodesIn(a, b + 1) = <<>> \o Blobs[b + 1].nodes
        <3>1. NodesIn(a, b + 1) = Blobs[b + 1].nodes /\ Blobs[b + 1].nodes \in Seq(Nat)
            BY <1>4, <1>5, <2>2, NodesAhead, NodesLie
        <3> QED
            BY <3>1, ConcatEmptySeq
    <2> QED
        BY <1>0, <1>4, <2>1, <2>2
<1>6. CASE b # a
    <2>1. b - 1 \in Nat /\ a <= b - 1 /\ b - 1 < End /\ (b - 1) + 1 = b /\ ~(b <= b - 1)
        BY <1>0, <1>4, <1>6
    <2>2. Fine(b - 1)
        <3>1. b - 1 \notin Bad
            BY <1>3, <2>1
        <3> HIDE DEF Fine
        <3> QED
            BY <1>0, <2>1, <3>1 DEF Bad
    <2> DEFINE new == Blobs[b].nodes
    <2>3. NodesIn(a, b) = NodesIn(a, b - 1) \o new /\ NodesIn(a, b - 1) \in Seq(Nat)
          /\ ToSet(NodesIn(a, b - 1)) = NodeIds(a, b - 1)
        BY <2>1, <2>2
    <2>4. new \in Seq(Nat) /\ NodeIds(b - 1, b) = ToSet(new) /\ NodeIds(a, b) = NodeIds(a, b - 1) \cup NodeIds(b - 1, b)
        <3>1. NodeIds(b - 1, (b - 1) + 1) = ToSet(Blobs[(b - 1) + 1].nodes) /\ Blobs[(b - 1) + 1].nodes \in Seq(Nat)
            BY <2>1, NodesLie
        <3>2. NodeIds(a, b) = NodeIds(a, b - 1) \cup NodeIds(b - 1, b)
            BY <1>4, <2>1, NodesLie
        <3> QED
            BY <2>1, <3>1, <3>2
    <2> HIDE DEF new
    <2>5. NodesIn(a, b) \in Seq(Nat) /\ ToSet(NodesIn(a, b)) = NodeIds(a, b)
        BY <2>3, <2>4, Joined
    <2>6. b < End => NodesIn(a, b + 1) = NodesIn(a, b) \o Blobs[b + 1].nodes
        BY <1>4, <1>6, NodesAhead
    <2> QED
        BY <1>4, <2>5, <2>6
<1> QED
    BY <1>5, <1>6

\* Three sequences are joined alike from either end.
LEMMA JoinsAssociate ==
    \A x, y, z \in Seq(Nat) : (x \o y) \o z = x \o (y \o z)
<1> TAKE x, y, z \in Seq(Nat)
<1> QED
    BY ConcatAssociative

\* A stretch may be read in two parts.
LEMMA NodesSplit ==
    ASSUME WorldShape, NEW a \in Nat, NEW m \in Nat, a <= m
    PROVE  \A b \in Nat : m <= b /\ b <= End => NodesIn(a, b) = NodesIn(a, m) \o NodesIn(m, b)
<1> DEFINE Fine(b) == NodesIn(a, b) = NodesIn(a, m) \o NodesIn(m, b)
           Bad == {b \in Nat : m <= b /\ b <= End /\ ~Fine(b)}
<1>0. End \in Nat
    BY BlobsAreTyped
<1>1. SUFFICES ASSUME Bad # {}
               PROVE  FALSE
    OBVIOUS
<1>2. Bad \in SUBSET Nat
    OBVIOUS
<1> HIDE DEF Bad
<1>3. PICK b \in Bad : \A n \in Bad : b <= n
    BY <1>1, <1>2, LeastExists
<1>4. b \in Nat /\ m <= b /\ b <= End /\ ~Fine(b)
    BY <1>3 DEF Bad
<1>7. NodesIn(a, m) \in Seq(Nat)
    <2>1. m <= End
        BY <1>0, <1>4
    <2> QED
        BY <2>1, NodesRead
<1>5. CASE b = m
    <2>1. NodesIn(m, b) = <<>>
        BY <1>5, NodesAhead
    <2> QED
        BY <1>4, <1>5, <1>7, <2>1, ConcatEmptySeq
<1>6. CASE b # m
    <2>1. b - 1 \in Nat /\ m <= b - 1 /\ a <= b - 1 /\ b - 1 < End /\ b - 1 <= End /\ (b - 1) + 1 = b /\ ~(b <= b - 1)
        BY <1>0, <1>4, <1>6
    <2>2. Fine(b - 1)
        <3>1. b - 1 \notin Bad
            BY <1>3, <2>1
        <3> HIDE DEF Fine
        <3> QED
            BY <1>0, <2>1, <3>1 DEF Bad
    <2> DEFINE new == Blobs[b].nodes
    <2>3. NodesIn(a, (b - 1) + 1) = NodesIn(a, b - 1) \o Blobs[(b - 1) + 1].nodes
        BY <2>1, NodesRead
    <2>4. NodesIn(m, (b - 1) + 1) = NodesIn(m, b - 1) \o Blobs[(b - 1) + 1].nodes /\ NodesIn(m, b - 1) \in Seq(Nat)
        BY <2>1, NodesRead
    <2>5. new \in Seq(Nat)
        BY <2>1, NodesLie
    <2>6. NodesIn(a, b) = (NodesIn(a, m) \o NodesIn(m, b - 1)) \o new /\ NodesIn(m, b) = NodesIn(m, b - 1) \o new
        BY <2>1, <2>2, <2>3, <2>4
    <2> HIDE DEF new
    <2>7. (NodesIn(a, m) \o NodesIn(m, b - 1)) \o new = NodesIn(a, m) \o (NodesIn(m, b - 1) \o new)
        <3>1. \A x, y, z \in Seq(Nat) : (x \o y) \o z = x \o (y \o z)
            BY JoinsAssociate
        <3> QED
            BY <1>7, <2>4, <2>5, <3>1, Zenon
    <2> QED
        BY <1>4, <2>6, <2>7
<1> QED
    BY <1>5, <1>6

-----------------------------------------------------------------------------
(* The node file of a flat build.                                          *)

\* The nodes lie where they lay as long as the file's blobs do.
LEMMA NodesStand ==
    ASSUME UNCHANGED scene
    PROVE  /\ End' = End /\ \A a, b : NodesIn(a, b)' = NodesIn(a, b)
           /\ NodesIn(0, cp.offset)' = NodesIn(0, cp'.offset)
           /\ NodesIn(cp.offset, run.pos)' = NodesIn(cp'.offset, run'.pos)
           /\ NodesIn(0, run.pos)' = NodesIn(0, run'.pos)
           /\ NodesIn(0, End)' = NodesIn(0, End)
BY DEF End, Blobs, NodesIn

\* The front of a file.
LEMMA Fronts ==
    ASSUME NEW s \in Seq(Nat), NEW n \in Nat, n <= Len(s)
    PROVE  /\ SubSeq(s, 1, n) \in Seq(Nat) /\ Len(SubSeq(s, 1, n)) = n
           /\ SubSeq(SubSeq(s, 1, n), 1, n) = SubSeq(s, 1, n)
           /\ SubSeq(s, 1, Len(s)) = s
           /\ \A u \in Seq(Nat) : n <= Len(s \o u) /\ SubSeq(s \o u, 1, n) = SubSeq(s, 1, n)
<1>0. Len(s) \in Nat /\ \A i \in 1 .. Len(s) : s[i] \in Nat
    OBVIOUS
<1>1. ASSUME NEW t \in Seq(Nat), NEW k \in Nat, k <= Len(t)
      PROVE  SubSeq(t, 1, k) \in Seq(Nat) /\ Len(SubSeq(t, 1, k)) = k /\ \A i \in 1 .. k : SubSeq(t, 1, k)[i] = t[i]
    BY <1>1, SubSeqProperties
<1>2. SubSeq(s, 1, n) \in Seq(Nat) /\ Len(SubSeq(s, 1, n)) = n /\ \A i \in 1 .. n : SubSeq(s, 1, n)[i] = s[i]
    BY <1>1
<1>3. SubSeq(s, 1, Len(s)) = s
    <2>1. /\ SubSeq(s, 1, Len(s)) \in Seq(Nat) /\ Len(SubSeq(s, 1, Len(s))) = Len(s)
          /\ \A i \in 1 .. Len(s) : SubSeq(s, 1, Len(s))[i] = s[i]
        BY <1>0, <1>1
    <2> QED
        BY <2>1, SameSequence
<1>4. SubSeq(SubSeq(s, 1, n), 1, n) = SubSeq(s, 1, n)
    <2> DEFINE t == SubSeq(s, 1, n)
    <2>1. t \in Seq(Nat) /\ Len(t) = n
        BY <1>2
    <2> HIDE DEF t
    <2>2. SubSeq(t, 1, n) \in Seq(Nat) /\ Len(SubSeq(t, 1, n)) = n /\ \A i \in 1 .. n : SubSeq(t, 1, n)[i] = t[i]
        BY <1>1, <2>1
    <2>3. SubSeq(t, 1, n) = t
        BY <2>1, <2>2, SameSequence
    <2> QED
        BY <2>3 DEF t
<1>5. ASSUME NEW u \in Seq(Nat)
      PROVE  n <= Len(s \o u) /\ SubSeq(s \o u, 1, n) = SubSeq(s, 1, n)
    <2> DEFINE t == s \o u
    <2>1. t \in Seq(Nat) /\ Len(t) = Len(s) + Len(u) /\ \A i \in 1 .. Len(s) : t[i] = s[i]
        BY Concatenation
    <2>2. Len(u) \in Nat
        OBVIOUS
    <2> HIDE DEF t
    <2>3. n <= Len(t)
        BY <1>0, <2>1, <2>2
    <2>4. SubSeq(t, 1, n) \in Seq(Nat) /\ Len(SubSeq(t, 1, n)) = n /\ \A i \in 1 .. n : SubSeq(t, 1, n)[i] = t[i]
        BY <1>1, <2>1, <2>3
    <2>5. \A i \in 1 .. n : i \in 1 .. Len(s)
        BY <1>0
    <2>6. SubSeq(t, 1, n) = SubSeq(s, 1, n)
        BY <1>2, <2>1, <2>4, <2>5, SameSequence
    <2> QED
        BY <2>3, <2>6 DEF t
<1> QED
    BY <1>2, <1>3, <1>4, <1>5

\* What has to be shown of a step that writes to the file or saves its place.
LEMMA FilingMoves ==
    ASSUME UNCHANGED scene, cp'.count \in Nat,
           cp'.offset > 0 => /\ Len(nodeFile') >= cp'.count
                             /\ Reorders(SubSeq(nodeFile', 1, cp'.count), NodesIn(0, cp'.offset)),
           cp'.done => nodeFile' = Sorted(NodesIn(0, End)),
           job'.mode = "flat" /\ run'.pc \in {"readNodes", "writeNodes"} =>
              /\ cp'.offset <= run'.pos /\ run'.nodes = NodesIn(cp'.offset, run'.pos)
              /\ Reorders(nodeFile', NodesIn(0, cp'.offset)),
           job'.mode = "flat" /\ run'.pc = "saveNodes" => Reorders(nodeFile', NodesIn(0, run'.pos)),
           job'.mode = "flat" /\ run'.pc \in {"sortNodes", "markSorted"} =>
              /\ cp'.offset = End /\ cp'.count = Len(nodeFile')
              /\ Reorders(nodeFile', NodesIn(0, End)),
           job'.mode = "flat" /\ run'.pc = "markSorted" => nodeFile' = Sorted(NodesIn(0, End))
    PROVE  Filing' /\ NodeFileHolds'
BY NodesStand DEF Filing, NodeFileHolds, at

\* What is there while nothing writes to the file.
LEMMA FilingKept ==
    ASSUME Filing, NodeFileHolds, UNCHANGED <<scene, nodeFile, cp.offset, cp.count, cp.done>>,
           job'.mode = "flat" => run'.pc \notin FlatStages
    PROVE  Filing' /\ NodeFileHolds'
BY NodesStand DEF Filing, NodeFileHolds, FlatStages, at

\* A build that ends leaves the file as it is.
LEMMA FilingEnds ==
    ASSUME Filing, NodeFileHolds, Stop, UNCHANGED <<scene, nodeFile, cp.offset, cp.count, cp.done>>
    PROVE  Filing' /\ NodeFileHolds'
BY FilingKept DEF Stop, NoJob

\* The file is opened at its place.
LEMMA FilingOpens ==
    ASSUME Shape, Indexing, NodeTypeOK, Filing, NodeFileHolds, OpenNodeFile
    PROVE  Filing' /\ NodeFileHolds'
<1>0. /\ DOMAIN run = DOMAIN NoRun /\ UNCHANGED <<scene, cp>> /\ run.nodes = <<>> /\ WorldShape
      /\ nodeFile \in Seq(Nat) /\ cp.offset \in Nat /\ cp.count \in Nat /\ job.mode = "flat" /\ ~cp.done
    BY DEF Shape, RunShape, PlaceShape, StageShape, OpenNodeFile, Works, Indexing, NodeTypeOK, Filing, at,
        WayStages, AdminStages, ScanStages
<1>1. CASE Stop /\ UNCHANGED nodeFile
    BY <1>0, <1>1, FilingEnds
<1>2. CASE /\ ~(cp.offset > 0 /\ Len(nodeFile) < cp.count) /\ UNCHANGED job
           /\ nodeFile' = IF cp.offset = 0 THEN <<>> ELSE SubSeq(nodeFile, 1, cp.count)
           /\ run' = [run EXCEPT !.pc = "readNodes", !.from = planet, !.pos = cp.offset]
    <2>1. run'.pc = "readNodes" /\ run'.pos = cp.offset /\ run'.nodes = <<>>
        BY <1>0, <1>2, Fields
    <2>2. NodesIn(cp.offset, cp.offset) = <<>> /\ NodesIn(0, 0) = <<>>
        BY <1>0, NodesAhead
    <2>3. CASE cp.offset = 0
        <3>1. nodeFile' = <<>>
            BY <1>2, <2>3
        <3>2. <<>> \in Seq(Nat)
            OBVIOUS
        <3>3. Reorders(<<>>, <<>>)
            BY <3>2, ReorderingsCompose
        <3> QED
            BY <1>0, <1>2, <2>1, <2>2, <2>3, <3>1, <3>3, FilingMoves
    <2>4. CASE cp.offset > 0
        <3>1. nodeFile' = SubSeq(nodeFile, 1, cp.count) /\ cp.count <= Len(nodeFile)
            BY <1>0, <1>2, <2>4
        <3>2. Len(nodeFile') = cp.count /\ SubSeq(nodeFile', 1, cp.count) = nodeFile'
            BY <1>0, <3>1, Fronts
        <3>3. Reorders(nodeFile', NodesIn(0, cp.offset))
            BY <2>4, <3>1 DEF NodeFileHolds
        <3> QED
            <4>1. /\ Len(nodeFile') >= cp'.count /\ cp'.count \in Nat /\ ~cp'.done /\ cp'.offset <= run'.pos
                  /\ Reorders(nodeFile', NodesIn(0, cp'.offset)) /\ run'.nodes = NodesIn(cp'.offset, run'.pos)
                  /\ Reorders(SubSeq(nodeFile', 1, cp'.count), NodesIn(0, cp'.offset))
                <5>1. cp' = cp /\ cp.count \in Nat /\ ~cp.done
                    BY <1>0
                <5>2. cp.offset <= run'.pos /\ Len(nodeFile') >= cp.count
                    BY <1>0, <2>1, <3>2
                <5>3. run'.nodes = NodesIn(cp.offset, run'.pos)
                    BY <2>1, <2>2
                <5>4. Reorders(SubSeq(nodeFile', 1, cp.count), NodesIn(0, cp.offset))
                    BY <3>2, <3>3
                <5> QED
                    BY <3>3, <5>1, <5>2, <5>3, <5>4
            <4>2. UNCHANGED scene
                BY <1>0
            <4> QED
                BY <2>1, <4>1, <4>2, FilingMoves
    <2> QED
        BY <1>0, <2>3, <2>4
<1> QED
    BY <1>0, <1>1, <1>2 DEF OpenNodeFile

\* What a flat build has read is written behind what it has.
LEMMA FilingReads ==
    ASSUME Shape, Indexing, NodeTypeOK, PlanetTypeOK, Filing, NodeFileHolds,
           OpenIndex \/ OpenCandidates \/ ReadNodes \/ EndOfNodes \/ CommitBlocks \/ MarkIndexed \/ BindBuild
              \/ CommitCandidates \/ CompleteCandidates
    PROVE  Filing' /\ NodeFileHolds'
<1>0. /\ DOMAIN run = DOMAIN NoRun /\ UNCHANGED <<scene, cp, nodeFile>> /\ WorldShape /\ End \in Nat
      /\ nodeFile \in Seq(Nat) /\ cp.offset \in Nat /\ cp.count \in Nat /\ run.pos \in Nat
    BY BlobsAreTyped DEF Shape, RunShape, PlaceShape, OpenIndex, OpenCandidates, ReadNodes, EndOfNodes, CommitBlocks,
        MarkIndexed, BindBuild, CommitCandidates, CompleteCandidates, Works, Fails, Disturb, NodeTypeOK, Filing, nodeVars
<1>1. CASE Stop
    BY <1>0, <1>1, FilingEnds
<1>2. CASE UNCHANGED job /\ job.mode # "flat"
    BY <1>0, <1>2, FilingKept
<1>3. CASE ReadNodes /\ ~Stop /\ job.mode = "flat"
    <2>1. /\ UNCHANGED job /\ run.pos < End /\ run.pc = "readNodes"
          /\ \E pc \in {"readNodes", "writeNodes"} :
                run' = [run EXCEPT !.pos = run.pos + 1, !.nodes = @ \o Blobs[run.pos + 1].nodes, !.pc = pc]
        BY <1>3 DEF ReadNodes, Fails, at
    <2>2. /\ run'.pos = run.pos + 1 /\ run'.nodes = run.nodes \o Blobs[run.pos + 1].nodes
          /\ run'.pc \in {"readNodes", "writeNodes"}
        BY <1>0, <2>1, Fields
    <2>3. /\ cp.offset <= run.pos /\ run.nodes = NodesIn(cp.offset, run.pos)
          /\ Reorders(nodeFile, NodesIn(0, cp.offset))
        BY <1>3, <2>1 DEF Filing
    <2>4. NodesIn(cp.offset, run.pos + 1) = NodesIn(cp.offset, run.pos) \o Blobs[run.pos + 1].nodes
        <3>1. run.pos <= End
            BY <1>0, <2>1
        <3> QED
            BY <1>0, <2>1, <2>3, <3>1, NodesRead
    <2>5. cp.offset <= run.pos + 1
        BY <1>0, <2>3
    <2> QED
        BY <1>0, <2>1, <2>2, <2>3, <2>4, <2>5, FilingMoves DEF NodeFileHolds
<1>4. CASE EndOfNodes /\ ~Stop /\ job.mode = "flat"
    <2>1. UNCHANGED job /\ run.pc = "readNodes" /\ run'.pc = "writeNodes" /\ run'.pos = run.pos /\ run'.nodes = run.nodes
        BY <1>0, <1>4, Fields DEF EndOfNodes, goto, at
    <2>2. /\ cp.offset <= run.pos /\ run.nodes = NodesIn(cp.offset, run.pos)
          /\ Reorders(nodeFile, NodesIn(0, cp.offset))
        BY <1>4, <2>1 DEF Filing
    <2> QED
        BY <1>0, <2>1, <2>2, FilingMoves DEF NodeFileHolds
<1>5. Stop \/ UNCHANGED job
    BY DEF OpenIndex, OpenCandidates, ReadNodes, EndOfNodes, CommitBlocks, MarkIndexed, BindBuild, CommitCandidates,
        CompleteCandidates, Fails
<1>6. job.mode = "flat" => ReadNodes \/ EndOfNodes
    BY DEF OpenIndex, OpenCandidates, ReadNodes, EndOfNodes, CommitBlocks, MarkIndexed, BindBuild, CommitCandidates,
        CompleteCandidates, Shape, StageShape, Indexed, at
<1> QED
    BY <1>1, <1>2, <1>3, <1>4, <1>5, <1>6

\* The batch goes to the file, and then its place to the checkpoint.
LEMMA FilingWrites ==
    ASSUME Shape, Indexing, NodeTypeOK, PlanetTypeOK, Filing, NodeFileHolds, WriteNodes \/ SaveNodeOffset
    PROVE  Filing' /\ NodeFileHolds'
<1>0. /\ DOMAIN run = DOMAIN NoRun /\ UNCHANGED scene /\ WorldShape /\ End \in Nat
      /\ nodeFile \in Seq(Nat) /\ cp.offset \in Nat /\ cp.count \in Nat /\ run.pos \in Nat /\ run.pos <= End
      /\ job.mode = "flat" /\ ~cp.done /\ DOMAIN cp = {"offset", "count", "done", "ways"}
    <2>1. /\ DOMAIN run = DOMAIN NoRun /\ UNCHANGED scene /\ WorldShape /\ End \in Nat
          /\ DOMAIN cp = {"offset", "count", "done", "ways"} /\ cp.offset \in Nat /\ cp.count \in Nat
        BY BlobsAreTyped DEF Shape, RunShape, PlaceShape, WriteNodes, SaveNodeOffset, Works, Fails, Disturb, Filing
    <2>2. nodeFile \in Seq(Nat) /\ run.pos \in Nat /\ run.pos <= End
        BY <2>1 DEF NodeTypeOK, PlanetTypeOK
    <2>3. job.mode = "flat" /\ ~cp.done
        BY DEF Shape, StageShape, WriteNodes, SaveNodeOffset, at, WayStages, AdminStages, ScanStages
    <2> QED
        BY <2>1, <2>2, <2>3
<1>1. CASE Stop /\ UNCHANGED <<cp, nodeFile>>
    BY <1>0, <1>1, FilingEnds
<1>2. CASE /\ UNCHANGED <<job, cp>> /\ nodeFile' = nodeFile \o run.nodes /\ run.pc = "writeNodes"
           /\ run' = [run EXCEPT !.pc = "saveNodes", !.nodes = <<>>]
    <2>1. /\ UNCHANGED <<job, cp>> /\ nodeFile' = nodeFile \o run.nodes /\ run.pc = "writeNodes"
          /\ run' = [run EXCEPT !.pc = "saveNodes", !.nodes = <<>>]
        BY <1>2
    <2>2. run'.pc = "saveNodes" /\ run'.pos = run.pos
        BY <1>0, <2>1, Fields
    <2>3. /\ cp.offset <= run.pos /\ run.nodes = NodesIn(cp.offset, run.pos)
          /\ Reorders(nodeFile, NodesIn(0, cp.offset))
        BY <1>0, <2>1 DEF Filing
    <2>4. /\ NodesIn(0, run.pos) = NodesIn(0, cp.offset) \o NodesIn(cp.offset, run.pos)
          /\ NodesIn(0, cp.offset) \in Seq(Nat) /\ NodesIn(cp.offset, run.pos) \in Seq(Nat)
        <3>1. 0 <= cp.offset /\ cp.offset <= End /\ 0 \in Nat
            BY <1>0, <2>3
        <3>2. NodesIn(0, cp.offset) \in Seq(Nat) /\ NodesIn(cp.offset, run.pos) \in Seq(Nat)
            BY <1>0, <2>3, <3>1, NodesRead
        <3>3. \A b \in Nat : cp.offset <= b /\ b <= End => NodesIn(0, b) = NodesIn(0, cp.offset) \o NodesIn(cp.offset, b)
            BY <1>0, <3>1, NodesSplit
        <3> QED
            BY <1>0, <2>3, <3>2, <3>3
    <2>5. Reorders(nodeFile', NodesIn(0, run.pos))
        BY <2>1, <2>3, <2>4, ReorderingsExtend
    <2>6. ASSUME cp.offset > 0
          PROVE  /\ Len(nodeFile') >= cp.count
                 /\ Reorders(SubSeq(nodeFile', 1, cp.count), NodesIn(0, cp.offset))
        <3>1. cp.count <= Len(nodeFile)
            BY <1>0, <2>6 DEF NodeFileHolds
        <3>2. cp.count <= Len(nodeFile') /\ SubSeq(nodeFile', 1, cp.count) = SubSeq(nodeFile, 1, cp.count)
            BY <1>0, <2>1, <2>3, <2>4, <3>1, Fronts
        <3>3. nodeFile' \in Seq(Nat)
            BY <1>0, <2>1, <2>3, <2>4
        <3>4. Len(nodeFile') >= cp.count
            BY <1>0, <3>2, <3>3
        <3> QED
            BY <2>6, <3>2, <3>4 DEF NodeFileHolds
    <2> QED
        BY <1>0, <2>1, <2>2, <2>5, <2>6, FilingMoves
<1>3. CASE SaveNodeOffset
    <2>1. /\ UNCHANGED <<job, nodeFile>> /\ run.pc = "saveNodes" /\ run.nodes = <<>>
          /\ cp' = [cp EXCEPT !.offset = run.pos, !.count = Len(nodeFile)]
          /\ run' = [run EXCEPT !.pc = IF run.pos = End THEN "sortNodes" ELSE "readNodes"]
        BY <1>3 DEF SaveNodeOffset, goto, at, Indexing
    <2>2. /\ run'.pc = (IF run.pos = End THEN "sortNodes" ELSE "readNodes") /\ run'.pos = run.pos /\ run'.nodes = <<>>
          /\ cp'.offset = run.pos /\ cp'.count = Len(nodeFile) /\ ~cp'.done
        BY <1>0, <2>1, Fields
    <2>3. Reorders(nodeFile, NodesIn(0, run.pos))
        BY <1>0, <2>1 DEF Filing, at
    <2>4. SubSeq(nodeFile, 1, Len(nodeFile)) = nodeFile /\ Len(nodeFile) \in Nat
        <3>1. Len(nodeFile) \in Nat /\ Len(nodeFile) <= Len(nodeFile)
            BY <1>0
        <3> QED
            BY <1>0, <3>1, Fronts
    <2>5. NodesIn(run.pos, run.pos) = <<>>
        BY <1>0, NodesAhead
    <2>6. Len(nodeFile') >= cp'.count /\ cp'.offset <= run'.pos /\ cp'.count \in Nat
        BY <1>0, <2>1, <2>2, <2>4
    <2>7. Reorders(SubSeq(nodeFile', 1, cp'.count), NodesIn(0, cp'.offset))
        BY <2>1, <2>2, <2>3, <2>4
    <2>8. CASE run.pos = End
        BY <1>0, <2>1, <2>2, <2>3, <2>6, <2>7, <2>8, FilingMoves
    <2>9. CASE run.pos # End
        BY <1>0, <2>1, <2>2, <2>3, <2>5, <2>6, <2>7, <2>9, FilingMoves
    <2> QED
        BY <2>8, <2>9
<1> QED
    BY <1>1, <1>2, <1>3 DEF WriteNodes, Fails, at

\* A file that is whole is put in order, and marked.
LEMMA FilingSorts ==
    ASSUME Shape, Indexing, NodeTypeOK, Filing, NodeFileHolds, SortNodes \/ MarkSorted
    PROVE  Filing' /\ NodeFileHolds'
<1>0. /\ DOMAIN run = DOMAIN NoRun /\ UNCHANGED scene /\ WorldShape /\ End \in Nat
      /\ nodeFile \in Seq(Nat) /\ cp.count \in Nat /\ Len(nodeFile) \in Nat
      /\ job.mode = "flat" /\ ~cp.done /\ DOMAIN cp = {"offset", "count", "done", "ways"}
      /\ cp.offset = End /\ cp.count = Len(nodeFile) /\ Reorders(nodeFile, NodesIn(0, End))
    BY BlobsAreTyped DEF Shape, RunShape, PlaceShape, StageShape, SortNodes, MarkSorted, Works, Fails, Disturb,
        NodeTypeOK, Filing, at, WayStages, AdminStages, ScanStages
<1>1. CASE Stop /\ UNCHANGED <<cp, nodeFile>>
    BY <1>0, <1>1, FilingEnds
<1>2. CASE UNCHANGED <<job, cp>> /\ nodeFile' = Sorted(nodeFile) /\ run' = [run EXCEPT !.pc = "markSorted"]
    <2>1. /\ UNCHANGED <<job, cp>> /\ nodeFile' = Sorted(nodeFile) /\ run' = [run EXCEPT !.pc = "markSorted"]
        BY <1>2
    <2>2. run'.pc = "markSorted"
        BY <1>0, <2>1, Fields
    <2>3. nodeFile' \in Seq(Nat) /\ Len(nodeFile') = Len(nodeFile) /\ Reorders(nodeFile', nodeFile)
        BY <1>0, <2>1, SortedIs
    <2>4. NodesIn(0, End) \in Seq(Nat)
        <3>1. 0 \in Nat /\ 0 <= End /\ End <= End
            BY <1>0
        <3> QED
            BY <1>0, <3>1, NodesRead
    <2>5. Reorders(nodeFile', NodesIn(0, End)) /\ nodeFile' = Sorted(NodesIn(0, End))
        BY <1>0, <2>1, <2>3, <2>4, ReorderingsCompose, SortedSame
    <2>6. SubSeq(nodeFile', 1, cp.count) = nodeFile' /\ Len(nodeFile') >= cp.count
        <3>1. Len(nodeFile') <= Len(nodeFile') /\ Len(nodeFile') >= cp.count
            BY <1>0, <2>3
        <3> QED
            BY <1>0, <2>3, <3>1, Fronts
    <2> QED
        BY <1>0, <2>1, <2>2, <2>3, <2>5, <2>6, FilingMoves
<1>3. CASE MarkSorted
    <2>1. /\ UNCHANGED <<job, nodeFile>> /\ cp' = [cp EXCEPT !.done = TRUE, !.offset = 0]
          /\ run' = [run EXCEPT !.pc = "openWays"] /\ run.pc = "markSorted"
        BY <1>3 DEF MarkSorted, goto, at
    <2>2. run'.pc = "openWays" /\ cp'.offset = 0 /\ cp'.count = cp.count
        BY <1>0, <2>1, Fields
    <2>3. nodeFile = Sorted(NodesIn(0, End))
        BY <1>0, <2>1 DEF Filing, at
    <2> QED
        BY <1>0, <2>1, <2>2, <2>3, FilingMoves
<1> QED
    BY <1>1, <1>2, <1>3 DEF SortNodes, Fails, goto

\* The way pass moves only its own place.
LEMMA WayLeavesNodes ==
    ASSUME PlaceShape, RunShape, WayStep
    PROVE  UNCHANGED <<nodeFile, cp.offset, cp.count, cp.done, cand.offset, cand.nodes, cand.complete>>
<1>0. /\ DOMAIN cp = {"offset", "count", "done", "ways"} /\ DOMAIN cand = {"nodes", "offset", "complete", "ways"}
    BY DEF PlaceShape, NoCandidates
<1>1. CASE UNCHANGED nodeVars
    BY <1>1 DEF nodeVars
<1>2. CASE SaveWayOffset
    <2>1. ASSUME NEW pos, PlaceSaved(pos), UNCHANGED nodeFile
          PROVE  UNCHANGED <<nodeFile, cp.offset, cp.count, cp.done, cand.offset, cand.nodes, cand.complete>>
        BY <1>0, <2>1 DEF PlaceSaved
    <2>2. CASE UNCHANGED <<cp, index, cand>>
        BY <1>2, <2>2, <1>1 DEF SaveWayOffset, nodeVars
    <2> QED
        BY <1>2, <2>1, <2>2 DEF SaveWayOffset
<1> QED
    BY <1>1, <1>2 DEF WayStep, OpenWays, ReadBlob, EndOfWays, ReadWays, TakeWay, WriteCell

\* The node file keeps what was saved, whatever happens.
LEMMA FilingStep ==
    ASSUME Shape, Scanning, Indexing, NodeTypeOK, PlanetTypeOK, Filing, NodeFileHolds, [Next]_vars
    PROVE  Filing' /\ NodeFileHolds'
<1>0. /\ DOMAIN run = DOMAIN NoRun /\ RunShape /\ PlaceShape /\ WorldShape /\ OutputShape /\ StageShape
      /\ at("openScan") => Scan \in {"relations", "members"}
      /\ nodeFile \in Seq(Nat) /\ run.nodes \in Seq(Nat) /\ cp.count \in Nat
      /\ DOMAIN cp = {"offset", "count", "done", "ways"}
    BY DEF Shape, RunShape, PlaceShape, Indexing, Scanning, ScanStages, at, NodeTypeOK, Filing
<1>1. CASE WayStep \/ AdminStep
    <2>1. UNCHANGED <<scene, nodeFile>> /\ run'.pc \notin FlatStages
        BY <1>0, <1>1, WayFlow, AdminFlow, WayKeeps, AdminKeeps, Fields
            DEF Ends, GoesOn, Stop, WayStages, AdminStages, ScanStages, FlatStages
    <2>2. UNCHANGED <<cp.offset, cp.count, cp.done>>
        <3>1. CASE AdminStep
            BY <1>0, <3>1, AdminKeeps
        <3>2. CASE WayStep
            BY <1>0, <3>2, WayLeavesNodes
        <3> QED
            BY <1>1, <3>1, <3>2
    <2> QED
        BY <2>1, <2>2, FilingKept
<1>2. ASSUME NEW j \in scene.requests, Start(j)
      PROVE  Filing' /\ NodeFileHolds'
    <2>1. UNCHANGED <<scene, nodeFile, cp>> /\ run'.pc \in {"openWays", "openNodes"}
        BY <1>0, <1>2, Fields DEF Start, goto, Works, nodeVars
    <2> QED
        BY <2>1, FilingKept DEF FlatStages
<1>3. CASE Crash
    <2>0. Stop /\ UNCHANGED <<scene, cp>>
        BY <1>3 DEF Crash, Disturb
    <2>1. CASE UNCHANGED nodeFile
        BY <2>0, <2>1, FilingEnds
    <2>2. ASSUME NEW n \in 0 .. Len(run.nodes), nodeFile' = nodeFile \o SubSeq(run.nodes, 1, n), ~cp.done
          PROVE  Filing' /\ NodeFileHolds'
        <3>1. SubSeq(run.nodes, 1, n) \in Seq(Nat)
            <4>1. n \in Nat /\ n <= Len(run.nodes)
                BY <1>0, <2>2
            <4> QED
                BY <1>0, <4>1, Fronts
        <3>2. ASSUME cp.offset > 0
              PROVE  /\ Len(nodeFile') >= cp.count
                     /\ Reorders(SubSeq(nodeFile', 1, cp.count), NodesIn(0, cp.offset))
            <4>1. cp.count <= Len(nodeFile)
                BY <1>0, <3>2 DEF NodeFileHolds
            <4>2. cp.count <= Len(nodeFile') /\ SubSeq(nodeFile', 1, cp.count) = SubSeq(nodeFile, 1, cp.count)
                BY <1>0, <2>2, <3>1, <4>1, Fronts
            <4>3. nodeFile' \in Seq(Nat)
                BY <1>0, <2>2, <3>1
            <4>4. Len(nodeFile') >= cp.count
                BY <1>0, <4>2, <4>3
            <4> QED
                BY <3>2, <4>2, <4>4 DEF NodeFileHolds
        <3>3. job'.mode # "flat"
            BY <2>0 DEF Stop, NoJob
        <3> QED
            BY <1>0, <2>0, <2>2, <3>2, <3>3, FilingMoves
    <2>3. job.mode = "flat" /\ run.pc \in {"readNodes", "writeNodes"} => ~cp.done
        BY <1>0 DEF StageShape, WayStages, AdminStages, ScanStages
    <2> QED
        BY <1>3, <2>1, <2>2, <2>3 DEF Crash
<1>4. CASE Replace \/ UNCHANGED vars
    BY <1>4, NodesStand DEF Replace, ReplacePlanet, Disturb, vars, nodeVars, Filing, NodeFileHolds, at
<1>5. CASE NodeStep
    BY <1>5, FilingOpens, FilingReads, FilingWrites, FilingSorts DEF NodeStep
<1> QED
    BY <1>1, <1>2, <1>3, <1>4, <1>5 DEF Next, Build

-----------------------------------------------------------------------------
(* The nodes of a focused build.                                           *)

\* The nodes in front of a place are those of the blobs in front of it.
LEMMA NodesInFront ==
    ASSUME WorldShape
    PROVE  \A b \in 0 .. End : NodesIn(0, b) \in Seq(Nat) /\ ToSet(NodesIn(0, b)) = NodeIds(0, b)
<1>1. End \in Nat /\ 0 \in Nat
    BY BlobsAreTyped
<1>2. \A b \in 0 .. End : b \in Nat /\ 0 <= b /\ b <= End
    BY <1>1
<1>3. \A b \in Nat : 0 <= b /\ b <= End => NodesIn(0, b) \in Seq(Nat) /\ ToSet(NodesIn(0, b)) = NodeIds(0, b)
    BY <1>1, NodesRead
<1> QED
    BY <1>2, <1>3

\* What has to be shown of a step of a focused build.
LEMMA ChoosingMoves ==
    ASSUME UNCHANGED scene, WorldShape, cand'.offset \in 0 .. End,
           cand'.offset > 0 \/ (job'.mode = "bbox" /\ run'.pc \in {"readNodes", "writeNodes", "markComplete"}) =>
              cand'.nodes = NodeIds(0, cand'.offset) \cap Bounds,
           cand'.complete => cand'.nodes = NodeIds(0, End) \cap Bounds,
           job'.mode = "bbox" /\ run'.pc \in NodeStages => ~cand'.complete,
           job'.mode = "bbox" /\ run'.pc \in {"readNodes", "writeNodes"} =>
              cand'.offset <= run'.pos /\ ToSet(run'.nodes) = NodeIds(cand'.offset, run'.pos),
           job'.mode = "bbox" /\ run'.pc = "markComplete" => cand'.offset = End
    PROVE  Choosing' /\ CandidatesHold'
<1>1. End \in Nat /\ 0 <= End
    BY BlobsAreTyped
<1>2. ToSet(NodesIn(0, End)) = NodeIds(0, End) /\ ToSet(NodesIn(0, cand'.offset)) = NodeIds(0, cand'.offset)
    <2>1. End \in 0 .. End
        BY <1>1
    <2> QED
        BY <2>1, NodesInFront
<1>3. End' = End /\ \A a, b : NodesIn(a, b)' = NodesIn(a, b) /\ NodeIds(a, b)' = NodeIds(a, b)
    BY NodesStand, NodesKept
<1>4. Choosing'
    BY <1>3 DEF Choosing, at, End, NodeIds, Blobs, Between
<1>5. CandidatesHold'
    BY <1>2, <1>3 DEF CandidatesHold, End, NodesIn, Blobs
<1> QED
    BY <1>4, <1>5

\* What has been found says what it said.
LEMMA ChosenNodes ==
    ASSUME WorldShape, cand.offset \in 0 .. End, CandidatesHold
    PROVE  /\ cand.offset > 0 => cand.nodes = NodeIds(0, cand.offset) \cap Bounds
           /\ cand.complete => cand.nodes = NodeIds(0, End) \cap Bounds
<1>1. End \in Nat /\ 0 <= End
    BY BlobsAreTyped
<1>2. ToSet(NodesIn(0, End)) = NodeIds(0, End) /\ ToSet(NodesIn(0, cand.offset)) = NodeIds(0, cand.offset)
    <2>1. End \in 0 .. End
        BY <1>1
    <2> QED
        BY <2>1, NodesInFront
<1> QED
    BY <1>2 DEF CandidatesHold

\* A step that does not look for nodes.
LEMMA ChoosingKept ==
    ASSUME WorldShape, NodeTypeOK, Choosing, CandidatesHold,
           UNCHANGED <<scene, cand.offset, cand.nodes, cand.complete>>,
           job'.mode = "bbox" => run'.pc \notin {"readNodes", "writeNodes", "markComplete"},
           job'.mode = "bbox" /\ run'.pc \in NodeStages => ~cand.complete
    PROVE  Choosing' /\ CandidatesHold'
<1>1. /\ cand.offset \in 0 .. End
      /\ cand.offset > 0 => cand.nodes = NodeIds(0, cand.offset) \cap Bounds
      /\ cand.complete => cand.nodes = NodeIds(0, End) \cap Bounds
    BY ChosenNodes DEF NodeTypeOK
<1> QED
    BY <1>1, ChoosingMoves

\* A build that ends leaves the candidates.
LEMMA ChoosingEnds ==
    ASSUME WorldShape, NodeTypeOK, Choosing, CandidatesHold, Stop,
           UNCHANGED <<scene, cand.offset, cand.nodes, cand.complete>>
    PROVE  Choosing' /\ CandidatesHold'
BY ChoosingKept DEF Stop, NoJob

\* A focused build reads blob by blob, and commits what it found with its place.
LEMMA NodeChoosing ==
    ASSUME Shape, Indexing, NodeTypeOK, PlanetTypeOK, Choosing, CandidatesHold, NodeStep
    PROVE  Choosing' /\ CandidatesHold'
<1>0. /\ DOMAIN run = DOMAIN NoRun /\ WorldShape /\ End \in Nat /\ UNCHANGED scene
      /\ run.nodes \in Seq(Nat) /\ run.pos \in Nat /\ cand.offset \in Nat
      /\ DOMAIN cand = {"nodes", "offset", "complete", "ways"}
    BY BlobsAreTyped, NodeFlow DEF Shape, RunShape, PlaceShape, Indexing, NoCandidates, Ends, GoesOn
<1>1. /\ cand.offset \in 0 .. End /\ run.pos \in 0 .. End
      /\ cand.offset > 0 => cand.nodes = NodeIds(0, cand.offset) \cap Bounds
      /\ cand.complete => cand.nodes = NodeIds(0, End) \cap Bounds
    BY <1>0, ChosenNodes DEF NodeTypeOK, PlanetTypeOK
<1>2. CASE Stop /\ UNCHANGED cand
    BY <1>0, <1>2, ChoosingEnds
<1>3. CASE UNCHANGED <<job, cand>> /\ job.mode # "bbox"
    BY <1>0, <1>3, ChoosingKept
<1>4. CASE OpenCandidates
    <2>1. /\ UNCHANGED job /\ job.mode = "bbox" /\ run.pc = "openNodes" /\ run.nodes = <<>>
          /\ cand' = IF cand.offset = 0 THEN NoCandidates ELSE cand
          /\ run' = [run EXCEPT !.pc = "readNodes", !.from = planet, !.pos = cand.offset]
        BY <1>4 DEF OpenCandidates, Indexing, at
    <2>2. run'.pc = "readNodes" /\ run'.pos = cand.offset /\ run'.nodes = <<>>
        BY <1>0, <2>1, Fields
    <2>3. ~cand.complete
        BY <2>1 DEF Choosing, NodeStages
    <2>4. NodeIds(cand.offset, cand.offset) = {} /\ NodeIds(0, 0) = {} /\ ToSet(<<>>) = {}
        BY <1>0, NodesLie DEF ToSet
    <2>5. NoCandidates.offset = 0 /\ NoCandidates.nodes = {} /\ ~NoCandidates.complete
        BY DEF NoCandidates
    <2>8. /\ cand'.offset = cand.offset /\ ~cand'.complete /\ cand'.nodes = NodeIds(0, cand'.offset) \cap Bounds
        <3>1. CASE cand.offset = 0
            BY <2>1, <2>4, <2>5, <3>1
        <3>2. CASE cand.offset > 0
            BY <1>1, <2>1, <2>3, <3>2
        <3> QED
            BY <1>0, <3>1, <3>2
    <2>9. cand'.offset <= run'.pos /\ ToSet(run'.nodes) = NodeIds(cand'.offset, run'.pos) /\ cand'.offset \in 0 .. End
        <3>1. cand.offset <= cand.offset /\ ToSet(<<>>) = NodeIds(cand.offset, cand.offset)
            BY <1>0, <2>4
        <3>2. ToSet(run'.nodes) = NodeIds(cand.offset, cand.offset)
            BY <2>2, <3>1
        <3>3. NodeIds(cand'.offset, run'.pos) = NodeIds(cand.offset, cand.offset)
            BY <2>2, <2>8
        <3> QED
            BY <1>1, <2>2, <2>8, <3>1, <3>2, <3>3
    <2> QED
        BY <1>0, <2>2, <2>8, <2>9, ChoosingMoves
<1>5. CASE ReadNodes /\ ~Stop /\ job.mode = "bbox"
    <2>1. /\ UNCHANGED <<job, cand>> /\ run.pos < End /\ run.pc = "readNodes"
          /\ \E pc \in {"readNodes", "writeNodes"} :
                run' = [run EXCEPT !.pos = run.pos + 1, !.nodes = @ \o Blobs[run.pos + 1].nodes, !.pc = pc]
        BY <1>5 DEF ReadNodes, Fails, nodeVars, at
    <2>2. /\ run'.pos = run.pos + 1 /\ run'.nodes = run.nodes \o Blobs[run.pos + 1].nodes
          /\ run'.pc \in {"readNodes", "writeNodes"}
        BY <1>0, <2>1, Fields
    <2>3. /\ cand.offset <= run.pos /\ ToSet(run.nodes) = NodeIds(cand.offset, run.pos) /\ ~cand.complete
          /\ cand.nodes = NodeIds(0, cand.offset) \cap Bounds
        BY <1>5, <2>1 DEF Choosing, NodeStages
    <2>4. /\ Blobs[run.pos + 1].nodes \in Seq(Nat)
          /\ NodeIds(run.pos, run.pos + 1) = ToSet(Blobs[run.pos + 1].nodes)
        BY <1>0, <2>1, NodesLie
    <2>5. NodeIds(cand.offset, run.pos + 1) = NodeIds(cand.offset, run.pos) \cup NodeIds(run.pos, run.pos + 1)
        <3>1. run.pos <= run.pos + 1 /\ run.pos + 1 \in Nat
            BY <1>0
        <3> QED
            BY <1>0, <2>3, <3>1, NodesLie
    <2>6. ToSet(run'.nodes) = NodeIds(cand.offset, run'.pos)
        BY <1>0, <2>2, <2>3, <2>4, <2>5, Joined
    <2>7. cand.offset <= run'.pos
        BY <1>0, <2>2, <2>3
    <2> QED
        BY <1>0, <1>1, <2>1, <2>2, <2>3, <2>6, <2>7, ChoosingMoves
<1>6. CASE EndOfNodes /\ job.mode = "bbox"
    <2>1. /\ UNCHANGED <<job, cand>> /\ run.pc = "readNodes" /\ run'.pc = "writeNodes" /\ run'.pos = run.pos
          /\ run'.nodes = run.nodes
        BY <1>0, <1>6, Fields DEF EndOfNodes, goto, nodeVars, at
    <2>2. /\ cand.offset <= run.pos /\ ToSet(run.nodes) = NodeIds(cand.offset, run.pos) /\ ~cand.complete
          /\ cand.nodes = NodeIds(0, cand.offset) \cap Bounds
        BY <1>6, <2>1 DEF Choosing, NodeStages
    <2> QED
        BY <1>0, <1>1, <2>1, <2>2, ChoosingMoves
<1>7. CASE CommitCandidates /\ ~(Stop /\ UNCHANGED cand)
    <2>1. /\ UNCHANGED job /\ job.mode = "bbox" /\ run.pc = "writeNodes"
          /\ cand' = [cand EXCEPT !.offset = run.pos, !.nodes = @ \cup (ToSet(run.nodes) \cap Bounds)]
          /\ run' = [run EXCEPT !.nodes = <<>>, !.pc = IF run.pos = End THEN "markComplete" ELSE "readNodes"]
        BY <1>7 DEF CommitCandidates, Fails, at
    <2>2. /\ run'.pos = run.pos /\ run'.nodes = <<>>
          /\ run'.pc = (IF run.pos = End THEN "markComplete" ELSE "readNodes")
          /\ cand'.offset = run.pos /\ cand'.nodes = cand.nodes \cup (ToSet(run.nodes) \cap Bounds)
          /\ cand'.complete = cand.complete
        BY <1>0, <2>1, Fields
    <2>3. /\ cand.offset <= run.pos /\ ToSet(run.nodes) = NodeIds(cand.offset, run.pos) /\ ~cand.complete
          /\ cand.nodes = NodeIds(0, cand.offset) \cap Bounds
        BY <2>1 DEF Choosing, NodeStages
    <2>4. NodeIds(0, run.pos) = NodeIds(0, cand.offset) \cup NodeIds(cand.offset, run.pos)
        <3>1. 0 \in Nat /\ 0 <= cand.offset
            BY <1>0
        <3> QED
            BY <1>0, <2>3, <3>1, NodesLie
    <2>5. cand'.nodes = NodeIds(0, run.pos) \cap Bounds
        BY <2>2, <2>3, <2>4
    <2>6. NodeIds(run.pos, run.pos) = {} /\ ToSet(<<>>) = {} /\ run.pos <= run.pos
        BY <1>0, NodesLie DEF ToSet
    <2> QED
        <3>1. /\ cand'.offset \in 0 .. End /\ ~cand'.complete /\ cand'.nodes = NodeIds(0, cand'.offset) \cap Bounds
              /\ cand'.offset <= run'.pos /\ ToSet(run'.nodes) = NodeIds(cand'.offset, run'.pos)
            BY <1>1, <2>2, <2>3, <2>5, <2>6
        <3>2. run'.pc = "markComplete" => cand'.offset = End
            BY <2>2
        <3> QED
            BY <1>0, <3>1, <3>2, ChoosingMoves
<1>8. CASE CompleteCandidates
    <2>1. /\ run.pc = "markComplete" /\ cand' = [cand EXCEPT !.complete = TRUE, !.offset = 0]
          /\ run' = [run EXCEPT !.pc = "openWays"] /\ UNCHANGED job /\ job.mode = "bbox"
        BY <1>8 DEF CompleteCandidates, goto, at, Shape, StageShape
    <2>2. cand'.offset = 0 /\ cand'.complete /\ cand'.nodes = cand.nodes /\ run'.pc = "openWays"
        BY <1>0, <2>1, Fields
    <2>3. cand.nodes = NodeIds(0, End) \cap Bounds
        BY <2>1 DEF Choosing, at
    <2> QED
        BY <1>0, <2>2, <2>3, ChoosingMoves DEF NodeStages
<1>9. CASE job.mode # "bbox"
    <2>1. UNCHANGED cand /\ (Stop \/ UNCHANGED job)
        BY <1>9 DEF NodeStep, OpenNodeFile, OpenIndex, OpenCandidates, ReadNodes, EndOfNodes, WriteNodes, SaveNodeOffset,
            SortNodes, MarkSorted, CommitBlocks, MarkIndexed, BindBuild, CommitCandidates, CompleteCandidates, Fails,
            nodeVars, Shape, StageShape
    <2> QED
        BY <1>2, <1>3, <1>9, <2>1
<1>10. job.mode = "bbox" => OpenCandidates \/ ReadNodes \/ EndOfNodes \/ CommitCandidates \/ CompleteCandidates
    BY DEF NodeStep, OpenNodeFile, OpenIndex, WriteNodes, SaveNodeOffset, SortNodes, MarkSorted, CommitBlocks,
        MarkIndexed, BindBuild, Shape, StageShape, Indexed, at
<1>11. ReadNodes => UNCHANGED cand
    BY DEF ReadNodes, nodeVars
<1> QED
    BY <1>2, <1>4, <1>5, <1>6, <1>7, <1>8, <1>9, <1>10, <1>11

\* What a focused build has found stays.
LEMMA ChoosingStep ==
    ASSUME Shape, Scanning, Indexing, NodeTypeOK, PlanetTypeOK, Choosing, CandidatesHold, [Next]_vars
    PROVE  Choosing' /\ CandidatesHold'
<1>0. /\ DOMAIN run = DOMAIN NoRun /\ RunShape /\ PlaceShape /\ WorldShape /\ OutputShape /\ StageShape
      /\ at("openScan") => Scan \in {"relations", "members"}
      /\ DOMAIN cand = {"nodes", "offset", "complete", "ways"}
    BY DEF Shape, RunShape, PlaceShape, Scanning, ScanStages, at, NoCandidates
<1>1. CASE WayStep \/ AdminStep
    <2>1. UNCHANGED scene /\ run'.pc \notin NodeStages
        BY <1>0, <1>1, WayFlow, AdminFlow, Fields
            DEF Ends, GoesOn, Stop, WayStages, AdminStages, ScanStages, NodeStages
    <2>2. UNCHANGED <<cand.offset, cand.nodes, cand.complete>>
        <3>1. CASE AdminStep
            BY <1>0, <3>1, AdminKeeps
        <3>2. CASE WayStep
            BY <1>0, <3>2, WayLeavesNodes
        <3> QED
            BY <1>1, <3>1, <3>2
    <2> QED
        BY <1>0, <2>1, <2>2, ChoosingKept DEF NodeStages
<1>2. ASSUME NEW j \in scene.requests, Start(j)
      PROVE  Choosing' /\ CandidatesHold'
    <2>1. /\ UNCHANGED <<scene, cand>> /\ run'.pc \in {"openWays", "openNodes"}
          /\ job' = j
          /\ run'.pc = "openNodes" /\ j.mode = "bbox" => ~cand.complete
        BY <1>0, <1>2, Fields DEF Start, goto, Works, nodeVars
    <2> QED
        BY <1>0, <2>1, ChoosingKept DEF NodeStages
<1>3. CASE Crash
    BY <1>0, <1>3, ChoosingEnds DEF Crash, Disturb
<1>4. CASE Replace \/ UNCHANGED vars
    <2>1. UNCHANGED <<scene, run, job, cand>>
        BY <1>4 DEF Replace, ReplacePlanet, Disturb, vars, nodeVars
    <2> QED
        BY <2>1 DEF Choosing, CandidatesHold, End, NodesIn, NodeIds, Blobs, Between, at
<1> QED
    BY <1>1, <1>2, <1>3, <1>4, NodeChoosing DEF Next, Build

-----------------------------------------------------------------------------
(* The types.                                                              *)

\* The scene stays; the budget is kept to; a file is only replaced by the newer one.
LEMMA WorldMoves ==
    ASSUME PlanetTypeOK, [Next]_vars
    PROVE  /\ UNCHANGED scene /\ trouble' \in 0 .. scene.budget
           /\ planet' \in {1, 2} /\ planet <= planet' /\ planet \in {1, 2}
           /\ ~Replace => UNCHANGED planet
<1>0. /\ scene.budget \in Nat /\ trouble \in 0 .. scene.budget /\ planet \in {1, 2}
    BY CasesAssumption DEF PlanetTypeOK
<1> DEFINE Moved == \/ Works
                    \/ Disturb /\ UNCHANGED planet
                    \/ Disturb /\ planet = 1 /\ planet' = planet + 1
<1>1. Moved
    <2>1. CASE NodeStep
        BY <2>1 DEF NodeStep, OpenNodeFile, OpenIndex, OpenCandidates, ReadNodes, EndOfNodes, WriteNodes, SaveNodeOffset,
            SortNodes, MarkSorted, CommitBlocks, MarkIndexed, BindBuild, CommitCandidates, CompleteCandidates, Fails
    <2>2. CASE WayStep
        BY <2>2 DEF WayStep, OpenWays, ReadBlob, EndOfWays, ReadWays, TakeWay, WriteCell, WrittenOver, SaveWayOffset, Fails
    <2>3. CASE AdminStep
        BY <2>3 DEF AdminStep, PrepareSource, OpenScan, ReadScan, EndOfScan, SaveScan, SaveScanOffset, MarkScan,
            OpenAssembly, Republish, PublishMore, LevelDone, WriteLevels, Finish, SaveRegion, Publish, Fails
    <2>4. CASE (\E j \in scene.requests : Start(j)) \/ Crash \/ Replace \/ UNCHANGED vars
        BY <2>4 DEF Start, Crash, Replace, ReplacePlanet, vars, Works
    <2> QED
        BY <2>1, <2>2, <2>3, <2>4 DEF Next, Build
<1>2. UNCHANGED scene /\ (UNCHANGED trouble \/ (trouble < scene.budget /\ trouble' = trouble + 1))
    BY <1>1 DEF Works, Disturb
<1>3. UNCHANGED planet \/ (planet = 1 /\ planet' = planet + 1)
    BY <1>1 DEF Works
<1>4. ~Replace => UNCHANGED planet
    <2>1. CASE NodeStep
        BY <2>1 DEF NodeStep, OpenNodeFile, OpenIndex, OpenCandidates, ReadNodes, EndOfNodes, WriteNodes, SaveNodeOffset,
            SortNodes, MarkSorted, CommitBlocks, MarkIndexed, BindBuild, CommitCandidates, CompleteCandidates, Fails, Works
    <2>2. CASE WayStep
        <3>1. ASSUME NEW c \in run.pending, WriteCell(c)
              PROVE  UNCHANGED planet
            BY <3>1, CellWritten
        <3> QED
            BY <2>2, <3>1 DEF WayStep, OpenWays, ReadBlob, EndOfWays, ReadWays, TakeWay, SaveWayOffset, Fails, Works
    <2>3. CASE AdminStep
        BY <2>3 DEF AdminStep, PrepareSource, OpenScan, ReadScan, EndOfScan, SaveScan, SaveScanOffset, MarkScan,
            OpenAssembly, Republish, PublishMore, LevelDone, WriteLevels, Finish, SaveRegion, Publish, Fails, Works
    <2>4. CASE (\E j \in scene.requests : Start(j)) \/ Crash \/ UNCHANGED vars
        BY <2>4 DEF Start, Crash, vars, Works
    <2> QED
        BY <2>1, <2>2, <2>3, <2>4 DEF Next, Build
<1> QED
    BY <1>0, <1>2, <1>3, <1>4

\* A reader stands somewhere in a file that is or was there.
Reads == run'.from \in {run.from, planet, 0} /\ run'.pos \in 0 .. End

\* What the way pass holds is held on to, or let go.
Carries == /\ run'.features \in {{}, run.features} /\ run'.rest \in {{}, run.rest}
           /\ run'.pending \in {{}, run.pending}

\* A build that ends holds nothing.
LEMMA EndsReading ==
    ASSUME Stop, End \in Nat
    PROVE  /\ Reads /\ Carries /\ run'.pc = "off" /\ run'.from = 0
           /\ run'.features = {} /\ run'.rest = {} /\ run'.pending = {}
BY DEF Stop, Reads, Carries, NoRun

\* The readers of the first pass.
LEMMA NodeReads ==
    ASSUME Shape, NodeTypeOK, PlanetTypeOK, NodeStep
    PROVE  Reads /\ Carries
<1>0. /\ DOMAIN run = DOMAIN NoRun /\ run.pos \in 0 .. End /\ End \in Nat
      /\ cp.offset \in 0 .. End /\ index.offset \in 0 .. End /\ cand.offset \in 0 .. End
    BY BlobsAreTyped DEF Shape, RunShape, NodeTypeOK, PlanetTypeOK
<1>1. CASE Stop
    BY <1>0, <1>1, EndsReading
<1>2. CASE OpenNodeFile \/ OpenIndex \/ OpenCandidates
    <2>2. PlaceShape
        BY DEF Shape
    <2>1. ASSUME NEW pc, NEW pos \in 0 .. End, run' = [run EXCEPT !.pc = pc, !.from = planet, !.pos = pos]
          PROVE  Reads /\ Carries
        BY <1>0, <2>1, Fields DEF Reads, Carries
    <2> QED
        BY <1>0, <1>1, <1>2, <2>1, <2>2, IndexOpens DEF OpenNodeFile, OpenCandidates
<1>3. CASE ReadNodes
    <2>1. ASSUME NEW pc, NEW nodes, run' = [run EXCEPT !.pos = run.pos + 1, !.nodes = nodes, !.pc = pc], run.pos < End
          PROVE  Reads /\ Carries
        BY <1>0, <2>1, Fields DEF Reads, Carries
    <2> QED
        BY <1>1, <1>3, <2>1 DEF ReadNodes, Fails
<1>4. CASE EndOfNodes \/ WriteNodes \/ SaveNodeOffset \/ SortNodes \/ MarkSorted \/ CommitBlocks \/ MarkIndexed
           \/ BindBuild \/ CommitCandidates \/ CompleteCandidates
    <2>1. ASSUME NEW pc, goto(pc) \/ run' = [run EXCEPT !.pc = pc, !.nodes = <<>>]
                            \/ run' = [run EXCEPT !.nodes = <<>>, !.pc = pc]
          PROVE  Reads /\ Carries
        <3>1. CASE goto(pc)
            BY <1>0, <3>1, Fields DEF goto, Reads, Carries
        <3>2. CASE run' = [run EXCEPT !.pc = pc, !.nodes = <<>>]
            BY <1>0, <3>2, Fields DEF Reads, Carries
        <3>3. CASE run' = [run EXCEPT !.nodes = <<>>, !.pc = pc]
            BY <1>0, <3>3, Fields DEF Reads, Carries
        <3> QED
            BY <2>1, <3>1, <3>2, <3>3
    <2>2. CASE EndOfNodes \/ SaveNodeOffset \/ SortNodes \/ MarkSorted \/ MarkIndexed \/ BindBuild \/ CompleteCandidates
        BY <1>1, <2>1, <2>2 DEF EndOfNodes, SaveNodeOffset, SortNodes, MarkSorted, MarkIndexed, BindBuild,
            CompleteCandidates, Fails
    <2>3. CASE WriteNodes \/ CommitBlocks \/ CommitCandidates
        BY <1>1, <2>1, <2>3 DEF WriteNodes, CommitBlocks, CommitCandidates, Fails
    <2> QED
        BY <1>4, <2>2, <2>3
<1> QED
    BY <1>2, <1>3, <1>4 DEF NodeStep

\* Whatever lies between two places is a way.
LEMMA WaysLie ==
    ASSUME WorldShape
    PROVE  \A a, b : WaysIn(a, b) \subseteq Ways
BY BlobsAreTyped DEF WaysIn, Between

\* Features are drawings of the file that is read.
LEMMA FeaturesAreDrawings ==
    ASSUME NEW ways \in SUBSET Ways, run.from \in {1, 2}
    PROVE  Features(ways) \subseteq Drawings
<1>1. ASSUME NEW w \in Ways
      PROVE  [way |-> w, points |-> RefsOf[w] \cap Known, from |-> run.from] \in Drawings
    <2>1. RefsOf[w] \cap Known \subseteq Nat
        BY PlanetAssumption
    <2> QED
        BY <1>1, <2>1 DEF Drawings
<1> QED
    BY <1>1 DEF Features

\* What a flush leaves as it is, and what it will write.
LEMMA Flushes ==
    ASSUME NEW next, DOMAIN next = DOMAIN NoRun, next.features \subseteq Drawings
    PROVE  /\ Flushing(next).from = next.from /\ Flushing(next).pos = next.pos /\ Flushing(next).rest = next.rest
           /\ Flushing(next).features = next.features /\ Flushing(next).pending \subseteq Cells
<1>1. Touched(next.features) \subseteq Cells
    BY PlanetAssumption DEF Touched, Drawings
<1> QED
    BY <1>1, Fields DEF Flushing

\* The readers of the way pass, and what they hold.
LEMMA WayReads ==
    ASSUME Shape, TypeOK, Dates, WayStep
    PROVE  /\ Reads
           /\ run'.pc \in {"readWays", "writeCells"} => run'.from > 0
           /\ run'.features \subseteq Drawings /\ run'.rest \subseteq Ways /\ run'.pending \subseteq Cells
<1> DEFINE H == /\ run'.pos \in 0 .. End
                /\ run'.features \subseteq Drawings /\ run'.rest \subseteq Ways /\ run'.pending \subseteq Cells
           G == /\ Reads /\ (run'.pc \in {"readWays", "writeCells"} => run'.from > 0) /\ H
<1>0. /\ DOMAIN run = DOMAIN NoRun /\ run.pos \in 0 .. End /\ End \in Nat /\ WorldShape
      /\ cp.ways \in 0 .. End /\ index.ways \in 0 .. End /\ cand.ways \in 0 .. End /\ DOMAIN Blobs = 1 .. End
      /\ run.features \subseteq Drawings /\ run.rest \subseteq Ways /\ run.pending \subseteq Cells
      /\ planet \in {1, 2} /\ run.from \in 0 .. planet
    BY BlobsAreTyped DEF Shape, RunShape, TypeOK, NodeTypeOK, PlanetTypeOK, WayTypeOK
<1>1. ASSUME Stop
      PROVE  G
    BY <1>0, <1>1, EndsReading DEF Reads
<1>2. CASE OpenWays
    <2>1. SavedPlace(job.mode) \in 0 .. End
        BY <1>0 DEF SavedPlace
    <2>2. ASSUME goto("prepareAdmin")
          PROVE  G
        BY <1>0, <2>2, Fields DEF goto, Reads
    <2>3. ASSUME NEW pos \in 0 .. End,
                 run' = [run EXCEPT !.pc = "readWays", !.from = planet, !.last = FALSE, !.pos = pos]
          PROVE  G
        BY <1>0, <2>3, Fields DEF Reads
    <2> QED
        BY <1>2, <2>1, <2>2, <2>3 DEF OpenWays
<1>3. ASSUME run.pc \in {"readWays", "writeCells"}, run'.from = run.from, H
      PROVE  G
    <2>1. run.from > 0
        BY <1>3 DEF Dates
    <2> QED
        BY <1>3, <2>1 DEF Reads
<1>4. ASSUME NEW next, DOMAIN next = DOMAIN NoRun, run' \in {next, Flushing(next)},
             run.pc \in {"readWays", "writeCells"}, next.from = run.from, next.pos \in 0 .. End,
             next.features \subseteq Drawings, next.rest \subseteq Ways, next.pending \subseteq Cells
      PROVE  G
    <2>1. H /\ run'.from = run.from
        BY <1>4, Flushes
    <2> QED
        BY <1>3, <1>4, <2>1
<1>5. CASE ReadBlob
    <2>1. CASE run' = [run EXCEPT !.pos = @ + 1, !.rest = WaysIn(run.pos, run.pos + 1) \cap job.layers]
        <3>1. PICK rest \in SUBSET Ways : run' = [run EXCEPT !.pos = run.pos + 1, !.rest = rest]
            BY <1>0, <2>1, WaysLie
        <3>2. /\ run'.from = run.from /\ run'.pos = run.pos + 1 /\ run'.rest = rest
              /\ run'.features = run.features /\ run'.pending = run.pending
            BY <1>0, <3>1, Fields
        <3>3. run.pos + 1 \in 0 .. End /\ run.pc = "readWays"
            BY <1>0, <1>5 DEF ReadBlob, at
        <3> QED
            BY <1>0, <1>3, <3>2, <3>3
    <2> QED
        BY <1>1, <1>5, <2>1 DEF ReadBlob, Fails
<1>6. CASE EndOfWays
    <2> DEFINE next == [run EXCEPT !.last = TRUE]
    <2>1. /\ DOMAIN next = DOMAIN NoRun /\ next.from = run.from /\ next.pos = run.pos
          /\ next.features = run.features /\ next.rest = run.rest /\ next.pending = run.pending
        BY <1>0, Fields
    <2>2. Stop \/ (run' \in {next, Flushing(next)} /\ run.pc = "readWays")
        BY <1>6 DEF EndOfWays, at
    <2> HIDE DEF next
    <2> QED
        BY <1>0, <1>1, <1>4, <2>1, <2>2
<1>7. CASE SaveWayOffset
    <2>1. ASSUME NEW pc, run' = [run EXCEPT !.features = {}, !.last = FALSE, !.pc = pc]
          PROVE  H /\ run'.from = run.from
        BY <1>0, <2>1, Fields
    <2>2. Stop \/ (H /\ run'.from = run.from)
        BY <1>7, <2>1 DEF SaveWayOffset
    <2>3. run.pc = "writeCells"
        BY <1>7 DEF SaveWayOffset, at
    <2> QED
        BY <1>1, <1>3, <2>2, <2>3
<1>8. ASSUME NEW k \in DOMAIN Blobs, ReadWays(k)
      PROVE  G
    <2> DEFINE new == Features(WaysIn(run.pos, k) \cap job.layers)
               next == [run EXCEPT !.pos = k, !.features = @ \cup new]
    <2>0. run.pc = "readWays" /\ k \in 0 .. End
        BY <1>0, <1>8 DEF ReadWays, at
    <2>1. Stop \/ run' \in {next, Flushing(next)}
        BY <1>8 DEF ReadWays, Fails
    <2>2. new \subseteq Drawings
        <3>1. run.from \in {1, 2}
            BY <1>0, <2>0 DEF Dates
        <3>2. WaysIn(run.pos, k) \cap job.layers \in SUBSET Ways
            BY <1>0, WaysLie
        <3> QED
            BY <3>1, <3>2, FeaturesAreDrawings
    <2> HIDE DEF new
    <2>3. /\ DOMAIN next = DOMAIN NoRun /\ next.from = run.from /\ next.pos = k
          /\ next.features = run.features \cup new /\ next.rest = run.rest /\ next.pending = run.pending
        BY <1>0, Fields
    <2> HIDE DEF next
    <2>4. next.pos \in 0 .. End /\ next.features \subseteq Drawings /\ next.rest \subseteq Ways /\ next.pending \subseteq Cells
        BY <1>0, <2>0, <2>2, <2>3
    <2>5. CASE run' \in {next, Flushing(next)}
        BY <1>4, <2>0, <2>3, <2>4, <2>5
    <2> QED
        BY <1>1, <2>1, <2>5
<1>9. ASSUME NEW w \in run.rest, TakeWay(w)
      PROVE  G
    <2> DEFINE new == Features({w})
               next == [run EXCEPT !.rest = @ \ {w}, !.features = @ \cup new]
    <2>0. run.pc = "readWays"
        BY <1>9 DEF TakeWay, at
    <2>1. run' \in {next, Flushing(next)}
        BY <1>9 DEF TakeWay
    <2>2. new \subseteq Drawings
        <3>1. run.from \in {1, 2}
            BY <1>0, <2>0 DEF Dates
        <3>2. {w} \in SUBSET Ways
            BY <1>0
        <3> QED
            BY <3>1, <3>2, FeaturesAreDrawings
    <2> HIDE DEF new
    <2>3. /\ DOMAIN next = DOMAIN NoRun /\ next.from = run.from /\ next.pos = run.pos
          /\ next.features = run.features \cup new /\ next.rest = run.rest \ {w} /\ next.pending = run.pending
        BY <1>0, Fields
    <2> HIDE DEF next
    <2> QED
        BY <1>0, <1>4, <2>0, <2>1, <2>2, <2>3
<1>10. ASSUME NEW c \in run.pending, WriteCell(c)
       PROVE  G
    <2>1. ASSUME run' = [run EXCEPT !.pending = @ \ {c}]
          PROVE  H /\ run'.from = run.from
        BY <1>0, <2>1, Fields
    <2>2. Stop \/ (H /\ run'.from = run.from)
        BY <1>10, <2>1 DEF WriteCell, Fails
    <2>3. run.pc = "writeCells"
        BY <1>10 DEF WriteCell, at
    <2>4. CASE H /\ run'.from = run.from
        BY <1>3, <2>3, <2>4
    <2> QED
        BY <1>1, <2>2, <2>4
<1> QED
    BY <1>2, <1>5, <1>6, <1>7, <1>8, <1>9, <1>10 DEF WayStep

\* The readers of the scans.
LEMMA AdminReads ==
    ASSUME Shape, Scanning, PlanetTypeOK, AdminTypeOK, AdminStep
    PROVE  Reads /\ Carries
<1> DEFINE G == Reads /\ Carries
<1>0. /\ DOMAIN run = DOMAIN NoRun /\ run.pos \in 0 .. End /\ End \in Nat /\ Store \in {"bbox", "planet"}
    BY BlobsAreTyped DEF Shape, RunShape, PlanetTypeOK, Store
<1>1. CASE Stop
    BY <1>0, <1>1, EndsReading
<1>2. ASSUME run'.from = run.from, run'.pos = run.pos, Carries
      PROVE  G
    BY <1>0, <1>2 DEF Reads
<1>3. CASE OpenScan
    <2>1. Scan \in {"relations", "members"}
        BY <1>3 DEF OpenScan, Scanning, ScanStages, at
    <2>2. Adm.offset[Scan] \in 0 .. End
        BY <1>0, <2>1 DEF AdminTypeOK, Adm
    <2>3. ASSUME NEW pc, NEW pos \in 0 .. End, run' = [run EXCEPT !.from = planet, !.pos = pos, !.pc = pc]
          PROVE  G
        BY <1>0, <2>3, Fields DEF Reads, Carries
    <2> QED
        BY <1>3, <2>2, <2>3 DEF OpenScan
<1>4. CASE ReadScan
    <2>1. ASSUME NEW pc, NEW found, run' = [run EXCEPT !.pos = run.pos + 1, !.found = found, !.pc = pc], run.pos < End
          PROVE  G
        BY <1>0, <2>1, Fields DEF Reads, Carries
    <2> QED
        BY <1>1, <1>4, <2>1 DEF ReadScan, Fails
<1>5. ASSUME NEW pc, goto(pc)
      PROVE  G
    BY <1>0, <1>2, <1>5, Fields DEF goto, Carries
<1>6. ASSUME NEW next, DOMAIN next = DOMAIN NoRun, run' = next, next.from = run.from, next.pos = run.pos,
             next.features = run.features, next.rest = run.rest, next.pending = run.pending
      PROVE  G
    BY <1>2, <1>6 DEF Carries
<1>7. CASE PrepareSource \/ MarkScan
    <2> DEFINE next == AfterScan(adm'[Store])
               done == [next EXCEPT !.last = FALSE]
    <2>1. /\ DOMAIN next = DOMAIN NoRun /\ next.from = run.from /\ next.pos = run.pos
          /\ next.features = run.features /\ next.rest = run.rest /\ next.pending = run.pending
        BY <1>0, Fields DEF AfterScan
    <2>2. goto("finish") \/ run' \in {next, done}
        BY <1>7 DEF PrepareSource, MarkScan
    <2> HIDE DEF next
    <2>3. /\ DOMAIN done = DOMAIN NoRun /\ done.from = run.from /\ done.pos = run.pos
          /\ done.features = run.features /\ done.rest = run.rest /\ done.pending = run.pending
        BY <2>1, Fields
    <2> HIDE DEF done
    <2> QED
        BY <1>5, <1>6, <2>1, <2>2, <2>3
<1>8. ASSUME NEW pc, NEW found, NEW last, NEW level,
             \/ run' = [run EXCEPT !.pc = pc, !.last = last] \/ run' = [run EXCEPT !.found = found, !.pc = pc]
             \/ run' = [run EXCEPT !.pc = pc, !.level = level] \/ run' = [run EXCEPT !.level = level, !.pc = pc]
             \/ run' = [run EXCEPT !.pc = pc] \/ run' = run
      PROVE  G
    <2>1. CASE run' = [run EXCEPT !.pc = pc, !.last = last]
        BY <1>0, <1>2, <2>1, Fields DEF Carries
    <2>2. CASE run' = [run EXCEPT !.found = found, !.pc = pc]
        BY <1>0, <1>2, <2>2, Fields DEF Carries
    <2>3. CASE run' = [run EXCEPT !.pc = pc, !.level = level]
        BY <1>0, <1>2, <2>3, Fields DEF Carries
    <2>4. CASE run' = [run EXCEPT !.level = level, !.pc = pc]
        BY <1>0, <1>2, <2>4, Fields DEF Carries
    <2>5. CASE run' = [run EXCEPT !.pc = pc] \/ run' = run
        BY <1>0, <1>2, <2>5, Fields DEF Carries
    <2> QED
        BY <1>8, <2>1, <2>2, <2>3, <2>4, <2>5
<1>9. CASE EndOfScan \/ SaveScan \/ SaveScanOffset \/ OpenAssembly
    BY <1>1, <1>5, <1>8, <1>9 DEF EndOfScan, SaveScan, SaveScanOffset, OpenAssembly, Fails
<1>10. CASE Republish \/ PublishMore \/ LevelDone
    BY <1>1, <1>8, <1>10 DEF Republish, PublishMore, LevelDone, Publish, Fails
<1>11. CASE WriteLevels
    BY <1>1, <1>8, <1>11 DEF WriteLevels, Fails
<1>12. ASSUME NEW r \in Relations, SaveRegion(r)
       PROVE  G
    BY <1>1, <1>5, <1>8, <1>12 DEF SaveRegion, Fails
<1>13. CASE Finish
    BY <1>1, <1>13 DEF Finish
<1> QED
    BY <1>3, <1>4, <1>7, <1>9, <1>10, <1>11, <1>12, <1>13 DEF AdminStep

\* The readers keep to the file, and the world to its bounds.
LEMMA PlanetTypes ==
    ASSUME Shape, Shape', Scanning, TypeOK, Dates, [Next]_vars
    PROVE  /\ PlanetTypeOK'
           /\ run'.features \subseteq Drawings /\ run'.rest \subseteq Ways /\ run'.pending \subseteq Cells
<1> DEFINE H == run'.features \subseteq Drawings /\ run'.rest \subseteq Ways /\ run'.pending \subseteq Cells
<1>0. /\ UNCHANGED scene /\ trouble' \in 0 .. scene.budget /\ planet' \in {1, 2} /\ planet \in {1, 2}
      /\ planet <= planet' /\ End' = End
    BY WorldMoves DEF TypeOK, End, Blobs
<1>1. (run'.pc = "off" <=> job' = NoJob) /\ (job' # NoJob => job' \in scene'.requests) /\ scene' \in Cases
    BY DEF Shape, StageShape, WorldShape, at
<1>2. Reads /\ H
    <2>0. /\ DOMAIN run = DOMAIN NoRun /\ run.pos \in 0 .. End /\ End \in Nat
          /\ run.features \subseteq Drawings /\ run.rest \subseteq Ways /\ run.pending \subseteq Cells
          /\ NodeTypeOK /\ PlanetTypeOK /\ AdminTypeOK
        BY BlobsAreTyped DEF Shape, RunShape, TypeOK, PlanetTypeOK, WayTypeOK
    <2>1. Carries => H
        BY <2>0 DEF Carries
    <2>2. CASE NodeStep \/ WayStep \/ AdminStep
        BY <2>0, <2>1, <2>2, NodeReads, WayReads, AdminReads
    <2>3. CASE \E j \in scene.requests : Start(j)
        <3>1. PICK pc : goto(pc)
            BY <2>3 DEF Start
        <3> QED
            BY <2>0, <2>1, <3>1, Fields DEF goto, Reads, Carries
    <2>4. CASE UNCHANGED run
        BY <2>0, <2>1, <2>4 DEF Reads, Carries
    <2>5. CASE Crash
        BY <2>0, <2>1, <2>5, EndsReading DEF Crash
    <2> QED
        BY <2>2, <2>3, <2>4, <2>5 DEF Next, Build, Replace, vars
<1>3. run'.from \in 0 .. planet' /\ run'.pos \in 0 .. End'
    <2>1. run.from \in 0 .. planet
        BY DEF TypeOK, PlanetTypeOK
    <2> QED
        BY <1>0, <1>2, <2>1 DEF Reads
<1> QED
    BY <1>0, <1>1, <1>2, <1>3 DEF PlanetTypeOK

\* The node file is a sequence of nodes.
LEMMA NodeFileTypes ==
    ASSUME Shape, Scanning, Indexing, NodeTypeOK, Filing, NodeFileHolds, [Next]_vars
    PROVE  nodeFile' \in Seq(Nat)
<1>0. /\ nodeFile \in Seq(Nat) /\ run.nodes \in Seq(Nat) /\ cp.count \in Nat /\ cp.offset \in Nat
      /\ PlaceShape /\ RunShape /\ <<>> \in Seq(Nat)
    BY DEF Shape, PlaceShape, Indexing, NodeTypeOK, Filing
<1>1. CASE OpenNodeFile
    <2>1. CASE cp.offset > 0
        <3>1. cp.count <= Len(nodeFile)
            BY <1>0, <2>1 DEF NodeFileHolds
        <3>2. SubSeq(nodeFile, 1, cp.count) \in Seq(Nat)
            BY <1>0, <3>1, Fronts
        <3> QED
            BY <1>0, <1>1, <3>2 DEF OpenNodeFile
    <2>2. CASE cp.offset = 0
        BY <1>0, <1>1, <2>2 DEF OpenNodeFile
    <2> QED
        BY <1>0, <2>1, <2>2
<1>2. CASE WriteNodes
    <2>1. nodeFile \o run.nodes \in Seq(Nat)
        BY <1>0, Concatenation
    <2>2. nodeFile' \in {nodeFile, nodeFile \o run.nodes}
        BY <1>2 DEF WriteNodes
    <2> QED
        BY <1>0, <2>1, <2>2
<1>3. CASE SortNodes
    BY <1>0, <1>3, SortedIs DEF SortNodes
<1>4. CASE Crash
    <2>1. ASSUME NEW n \in 0 .. Len(run.nodes), nodeFile' = nodeFile \o SubSeq(run.nodes, 1, n)
          PROVE  nodeFile' \in Seq(Nat)
        <3>1. n \in Nat /\ n <= Len(run.nodes)
            BY <1>0, <2>1
        <3>2. SubSeq(run.nodes, 1, n) \in Seq(Nat)
            BY <1>0, <3>1, Fronts
        <3> QED
            BY <1>0, <2>1, <3>2, Concatenation
    <2> QED
        BY <1>0, <1>4, <2>1 DEF Crash
<1>5. CASE WayStep \/ AdminStep
    BY <1>0, <1>5, WayLeavesNodes, AdminKeeps
<1>6. CASE \/ OpenIndex \/ OpenCandidates \/ ReadNodes \/ EndOfNodes \/ SaveNodeOffset \/ MarkSorted
           \/ CommitBlocks \/ MarkIndexed \/ BindBuild \/ CommitCandidates \/ CompleteCandidates
    BY <1>0, <1>6 DEF OpenIndex, OpenCandidates, ReadNodes, EndOfNodes, SaveNodeOffset, MarkSorted, CommitBlocks,
        MarkIndexed, BindBuild, CommitCandidates, CompleteCandidates, nodeVars
<1>7. CASE (\E j \in scene.requests : Start(j)) \/ Replace \/ UNCHANGED vars
    BY <1>0, <1>7 DEF Start, Replace, nodeVars, vars
<1> QED
    BY <1>1, <1>2, <1>3, <1>4, <1>5, <1>6, <1>7 DEF Next, Build, NodeStep

\* The places are in the file.
PlacesLie ==
    /\ cp.offset \in 0 .. End /\ cp.ways \in 0 .. End
    /\ index.source \in 0 .. planet /\ index.offset \in 0 .. End /\ index.ways \in 0 .. End
    /\ cand.offset \in 0 .. End /\ cand.ways \in 0 .. End /\ cand.nodes \subseteq Nat

\* The passes save no place that is not in the file.
LEMMA NodePlacesLie ==
    ASSUME Shape, PlanetTypeOK, PlacesLie, NodeStep
    PROVE  PlacesLie'
<1>0. /\ PlaceShape /\ PlacesLie /\ run.pos \in 0 .. End /\ End \in Nat /\ 0 \in 0 .. End
      /\ planet \in 0 .. planet /\ Bounds \subseteq Nat
      /\ DOMAIN cp = {"offset", "count", "done", "ways"}
      /\ DOMAIN index = {"source", "offset", "blocks", "indexed", "build", "done", "ways", "broken"}
      /\ DOMAIN cand = {"nodes", "offset", "complete", "ways"}
      /\ NoCandidates.offset = 0 /\ NoCandidates.ways = 0 /\ NoCandidates.nodes = {}
    BY BlobsAreTyped, PlanetAssumption DEF Shape, PlaceShape, PlanetTypeOK, NoIndex, NoCandidates
<1>1. UNCHANGED scene /\ planet' = planet
    BY NodeFlow DEF Shape, Ends, GoesOn
<1>2. End' = End
    BY <1>1 DEF End, Blobs
<1> SUFFICES /\ cp'.offset \in 0 .. End /\ cp'.ways \in 0 .. End
             /\ index'.source \in 0 .. planet /\ index'.offset \in 0 .. End /\ index'.ways \in 0 .. End
             /\ cand'.offset \in 0 .. End /\ cand'.ways \in 0 .. End /\ cand'.nodes \subseteq Nat
    BY <1>1, <1>2 DEF PlacesLie
<1> DEFINE CpLies == cp'.offset \in 0 .. End /\ cp'.ways \in 0 .. End
           IndexLies == index'.source \in 0 .. planet /\ index'.offset \in 0 .. End /\ index'.ways \in 0 .. End
           CandLies == cand'.offset \in 0 .. End /\ cand'.ways \in 0 .. End /\ cand'.nodes \subseteq Nat
<1>3. CpLies
    BY <1>0 DEF PlacesLie, NodeStep, OpenNodeFile, OpenIndex, OpenCandidates, ReadNodes, EndOfNodes, WriteNodes,
        SaveNodeOffset, SortNodes, MarkSorted, CommitBlocks, MarkIndexed, BindBuild, CommitCandidates,
        CompleteCandidates, nodeVars
<1>4. IndexLies
    <2>1. CASE OpenIndex
        BY <1>0, <2>1, IndexOpens DEF PlacesLie
    <2>2. CASE CommitBlocks
        BY <1>0, <2>2 DEF PlacesLie, CommitBlocks
    <2>3. CASE MarkIndexed
        BY <1>0, <2>3 DEF PlacesLie, MarkIndexed
    <2>4. CASE BindBuild
        BY <1>0, <2>4 DEF PlacesLie, BindBuild
    <2>5. CASE UNCHANGED index
        BY <1>0, <2>5 DEF PlacesLie
    <2> QED
        BY <2>1, <2>2, <2>3, <2>4, <2>5 DEF NodeStep, OpenNodeFile, OpenCandidates, ReadNodes, EndOfNodes, WriteNodes,
            SaveNodeOffset, SortNodes, MarkSorted, CommitCandidates, CompleteCandidates, nodeVars
<1>5. CandLies
    <2>1. CASE OpenCandidates
        BY <1>0, <2>1 DEF PlacesLie, OpenCandidates
    <2>2. CASE CommitCandidates
        <3>1. CASE cand' = [cand EXCEPT !.offset = run.pos, !.nodes = @ \cup (ToSet(run.nodes) \cap Bounds)]
            <4>1. /\ cand'.offset = run.pos /\ cand'.ways = cand.ways
                  /\ cand'.nodes = cand.nodes \cup (ToSet(run.nodes) \cap Bounds)
                BY <1>0, <3>1
            <4> QED
                BY <1>0, <4>1 DEF PlacesLie
        <3>2. CASE UNCHANGED cand
            BY <1>0, <3>2 DEF PlacesLie
        <3> QED
            BY <2>2, <3>1, <3>2 DEF CommitCandidates
    <2>3. CASE CompleteCandidates
        BY <1>0, <2>3 DEF PlacesLie, CompleteCandidates
    <2>4. CASE UNCHANGED cand
        BY <1>0, <2>4 DEF PlacesLie
    <2> QED
        BY <2>1, <2>2, <2>3, <2>4 DEF NodeStep, OpenNodeFile, OpenIndex, ReadNodes, EndOfNodes, WriteNodes,
            SaveNodeOffset, SortNodes, MarkSorted, CommitBlocks, MarkIndexed, BindBuild, nodeVars
<1> QED
    BY <1>3, <1>4, <1>5

\* The places stay in the file at every step.
LEMMA PlacesLieStep ==
    ASSUME Shape, PlanetTypeOK, PlacesLie, [Next]_vars
    PROVE  PlacesLie'
<1>0. /\ PlaceShape /\ PlacesLie /\ run.pos \in 0 .. End /\ End \in Nat /\ 0 \in 0 .. End
      /\ DOMAIN cp = {"offset", "count", "done", "ways"}
      /\ DOMAIN index = {"source", "offset", "blocks", "indexed", "build", "done", "ways", "broken"}
      /\ DOMAIN cand = {"nodes", "offset", "complete", "ways"}
    BY BlobsAreTyped DEF Shape, PlaceShape, PlanetTypeOK, NoIndex, NoCandidates
<1>1. UNCHANGED scene /\ planet' \in Nat /\ planet <= planet' /\ planet \in Nat
    BY WorldMoves
<1>2. End' = End /\ \A n : n \in 0 .. planet => n \in 0 .. planet'
    BY <1>1 DEF End, Blobs
<1>3. CASE UNCHANGED <<cp, index, cand>>
    BY <1>0, <1>2, <1>3 DEF PlacesLie
<1>4. CASE SaveWayOffset
    <2>1. ASSUME NEW pos \in 0 .. End, PlaceSaved(pos)
          PROVE  PlacesLie'
        <3>1. \/ cp' = [cp EXCEPT !.ways = pos] /\ UNCHANGED <<index, cand>>
              \/ cand' = [cand EXCEPT !.ways = pos] /\ UNCHANGED <<cp, index>>
              \/ index' = [index EXCEPT !.ways = pos] /\ UNCHANGED <<cp, cand>>
            BY <2>1 DEF PlaceSaved
        <3>2. CASE cp' = [cp EXCEPT !.ways = pos] /\ UNCHANGED <<index, cand>>
            BY <1>0, <1>2, <3>2 DEF PlacesLie
        <3>3. CASE cand' = [cand EXCEPT !.ways = pos] /\ UNCHANGED <<cp, index>>
            BY <1>0, <1>2, <3>3 DEF PlacesLie
        <3>4. CASE index' = [index EXCEPT !.ways = pos] /\ UNCHANGED <<cp, cand>>
            BY <1>0, <1>2, <3>4 DEF PlacesLie
        <3> QED
            BY <3>1, <3>2, <3>3, <3>4
    <2> QED
        BY <1>0, <1>3, <1>4, <2>1 DEF SaveWayOffset
<1>5. CASE Finish
    <2>1. UNCHANGED <<cp, cand>> /\ index' \in {index, [index EXCEPT !.done = TRUE]}
        BY <1>5 DEF Finish
    <2> QED
        BY <1>0, <1>2, <2>1 DEF PlacesLie
<1>6. CASE NodeStep
    BY <1>6, NodePlacesLie
<1> QED
    BY <1>3, <1>4, <1>5, <1>6 DEF Next, Build, Start, Crash, Replace, vars, nodeVars, WayStep, OpenWays, ReadBlob,
        EndOfWays, ReadWays, TakeWay, WriteCell, AdminStep, PrepareSource, OpenScan, ReadScan, EndOfScan, SaveScan,
        SaveScanOffset, MarkScan, OpenAssembly, Republish, PublishMore, LevelDone, WriteLevels, SaveRegion

\* Whatever lies between two places is a node.
LEMMA NodeIdsAreNodes ==
    WorldShape => \A a, b : NodeIds(a, b) \subseteq Nat
<1> SUFFICES ASSUME WorldShape
             PROVE  \A a, b : NodeIds(a, b) \subseteq Nat
    OBVIOUS
<1>1. \A i \in DOMAIN Blobs : ToSet(Blobs[i].nodes) \subseteq Nat
    BY BlobsAreTyped DEF ToSet
<1> QED
    BY <1>1 DEF NodeIds, Between

\* What the node pass has saved keeps its type.
LEMMA NodeTypes ==
    ASSUME Shape, Shape', Scanning, Indexing, Indexing', TypeOK, Filing, NodeFileHolds, [Next]_vars
    PROVE  NodeTypeOK'
<1>1. PlacesLie /\ NodeTypeOK /\ PlanetTypeOK
    BY DEF TypeOK, NodeTypeOK, PlacesLie
<1>2. PlacesLie'
    BY <1>1, PlacesLieStep
<1>3. nodeFile' \in Seq(Nat)
    BY <1>1, NodeFileTypes
<1>5. (WorldShape => \A a, b : NodeIds(a, b) \subseteq Nat)'
    BY NodeIdsAreNodes, PTL
<1>6. index'.blocks \subseteq Nat
    <2>1. index'.blocks = NodeIds(0, index.offset)'
        BY DEF Indexing
    <2>2. NodeIds(0, index.offset)' \subseteq Nat
        BY <1>5 DEF Shape
    <2> QED
        BY <2>1, <2>2
<1> QED
    BY <1>2, <1>3, <1>6 DEF NodeTypeOK, PlacesLie

\* What is drawn and written keeps its type.
LEMMA WayTypes ==
    ASSUME Shape, Shape', Scanning, TypeOK, Dates, [Next]_vars
    PROVE  WayTypeOK'
<1>0. /\ DOMAIN cells = Cells /\ lost \in BOOLEAN /\ run.features \subseteq Drawings
      /\ \A c \in Cells : cells[c] \subseteq Drawings
    BY DEF Shape, OutputShape, TypeOK, WayTypeOK
<1>1. ASSUME NEW c
      PROVE  Merged(c, {f \in run.features : c \in CellsOf[f.way]}) \subseteq cells[c] \cup run.features
    BY DEF Merged
<1>2. (\A c \in Cells : cells'[c] \subseteq Drawings) /\ lost' \in BOOLEAN
    <2>1. ASSUME NEW c, NEW new, new \subseteq cells[c] \cup run.features,
                 cells' \in {[cells EXCEPT ![c] = new], [cells EXCEPT ![c] = {}]}, lost' \in {lost, TRUE}
          PROVE  (\A d \in Cells : cells'[d] \subseteq Drawings) /\ lost' \in BOOLEAN
        BY <1>0, <2>1
    <2>2. CASE UNCHANGED <<cells, lost>>
        BY <1>0, <2>2
    <2>3. ASSUME NEW c \in run.pending, WriteCell(c)
          PROVE  (\A d \in Cells : cells'[d] \subseteq Drawings) /\ lost' \in BOOLEAN
        <3> DEFINE some == {f \in run.features : c \in CellsOf[f.way]}
                   new == Merged(c, some)
        <3>1. \/ UNCHANGED <<cells, lost>>
              \/ /\ \/ cells' \in {[cells EXCEPT ![c] = new], [cells EXCEPT ![c] = {}]}
                    \/ cells' \in {[cells EXCEPT ![c] = some], [cells EXCEPT ![c] = {}]}
                 /\ lost' \in {lost, TRUE}
            BY <2>3, CellWritten
        <3>2. new \subseteq cells[c] \cup run.features /\ some \subseteq cells[c] \cup run.features
            BY <1>1
        <3> HIDE DEF new, some
        <3> QED
            BY <2>1, <2>2, <3>1, <3>2
    <2>4. CASE Crash
        <3>1. UNCHANGED <<cells, lost>> \/ \E c : cells' = [cells EXCEPT ![c] = {}] /\ lost' = TRUE
            BY <2>4 DEF Crash, CellsCut
        <3> QED
            BY <2>1, <2>2, <3>1
    <2> QED
        BY <2>2, <2>3, <2>4 DEF Next, Build, Start, Replace, vars, wayVars, WayStep, OpenWays, ReadBlob, EndOfWays,
            ReadWays, TakeWay, SaveWayOffset, AdminStep, PrepareSource, OpenScan, ReadScan, EndOfScan, SaveScan,
            SaveScanOffset, MarkScan, OpenAssembly, Republish, PublishMore, LevelDone, WriteLevels, Finish, SaveRegion
<1>3. promised' \in [Builders -> SUBSET Ways]
    BY DEF Shape, OutputShape
<1> QED
    BY <1>2, <1>3, PlanetTypes DEF WayTypeOK

\* The scans' places are in the file.
OffsetsLie == \A s \in Stores : \A k \in Kinds : adm[s].offset[k] \in 0 .. End

\* A scan saves no place that is not in the file.
LEMMA ScanOffsetsLie ==
    ASSUME Shape, Scanning, PlanetTypeOK, OffsetsLie, AdminStep
    PROVE  \A s \in Stores : \A k \in Kinds : adm'[s].offset[k] \in 0 .. End
<1> DEFINE G == \A s \in Stores : \A k \in Kinds : adm'[s].offset[k] \in 0 .. End
<1>0. /\ run.pos \in 0 .. End /\ End \in Nat /\ 0 \in 0 .. End /\ adm \in [Stores -> Scanned] /\ Store \in Stores
    BY BlobsAreTyped DEF Shape, OutputShape, PlanetTypeOK, Stores, Store
<1>1. CASE UNCHANGED adm
    BY <1>1 DEF OffsetsLie
<1>2. CASE PrepareSource
    <2>1. NoScan.offset = [relations |-> 0, members |-> 0]
          /\ [NoScan EXCEPT !.source = planet].offset = [relations |-> 0, members |-> 0]
        BY DEF NoScan
    <2>2. CASE UNCHANGED adm
        BY <1>1, <2>2
    <2>3. CASE adm' = [adm EXCEPT ![Store] = IF @.source = planet THEN @ ELSE [NoScan EXCEPT !.source = planet]]
        <3>1. \A s \in Stores : adm'[s] = adm[s] \/ adm'[s].offset = [relations |-> 0, members |-> 0]
            BY <1>0, <2>1, <2>3
        <3> QED
            BY <1>0, <3>1 DEF OffsetsLie, Kinds
    <2> QED
        BY <1>2, <2>2, <2>3 DEF PrepareSource
<1>3. CASE SaveScan \/ SaveScanOffset \/ MarkScan
    <2>1. /\ Scan \in Kinds /\ Adm = adm[Store] /\ run.found \subseteq Things(Scan)
        BY <1>3, ScanFacts DEF SaveScan, SaveScanOffset, MarkScan, at, ScanStages
    <2>2. Adm.offset[Scan] \in 0 .. End
        BY <1>0, <2>1 DEF OffsetsLie
    <2>3. CASE adm' = [adm EXCEPT ![Store].saved[Scan] = @ \cup run.found]
        <3>1. adm[Store].saved[Scan] \subseteq Things(Scan)
            BY <1>0, <2>1 DEF Scanned, Kinds, Things
        <3>2. PICK v \in SUBSET Things(Scan) : v = adm[Store].saved[Scan] \cup run.found
            BY <2>1, <3>1
        <3>3. Saves(adm', adm, Store, Scan, v)
            BY <2>3, <3>2 DEF Saves
        <3>4. adm'[Store].offset = adm[Store].offset /\ \A t \in Stores : t # Store => adm'[t] = adm[t]
            BY <1>0, <2>1, <3>3, SavedUpdate
        <3> QED
            BY <3>4 DEF OffsetsLie
    <2>4. ASSUME NEW n \in 0 .. End, adm'[Store].offset[Scan] = n,
                 \A j \in Kinds : j # Scan => adm'[Store].offset[j] = adm[Store].offset[j],
                 \A t \in Stores : t # Store => adm'[t] = adm[t]
          PROVE  G
        BY <1>0, <2>4 DEF OffsetsLie
    <2>5. CASE adm' = [adm EXCEPT ![Store].offset[Scan] = run.pos]
        <3>1. run.pos \in Nat /\ adm \in [Stores -> Scanned] /\ Store \in Stores /\ Scan \in Kinds
            BY <1>0, <2>1
        <3>2. \A t \in Stores : t # Store => adm'[t] = adm[t]
            BY <2>5, <3>1, OffsetUpdate
        <3>3. adm[Store] \in Scanned
            BY <3>1
        <3>4. adm'[Store].offset = [adm[Store].offset EXCEPT ![Scan] = run.pos]
            BY <2>5, <3>1, <3>3 DEF Scanned
        <3>5. \A j \in Kinds : adm'[Store].offset[j] = IF j = Scan THEN run.pos ELSE adm[Store].offset[j]
            BY <3>1, <3>3, <3>4 DEF Scanned, Kinds
        <3> QED
            BY <1>0, <2>1, <2>4, <3>2, <3>5
    <2>6. CASE MarkScan
        <3>1. PICK kept \in {0, Adm.offset[Scan]} :
                  adm' = [adm EXCEPT ![Store].done[Scan] = TRUE, ![Store].offset[Scan] = kept]
            BY <2>6 DEF MarkScan
        <3>2. kept \in Nat /\ kept \in 0 .. End
            BY <1>0, <2>2
        <3>3. Marks(adm', adm, Store, Scan, kept)
            BY <3>1 DEF Marks
        <3>4. /\ adm'[Store].offset[Scan] = kept
              /\ \A j \in Kinds : j # Scan => adm'[Store].offset[j] = adm[Store].offset[j]
              /\ \A t \in Stores : t # Store => adm'[t] = adm[t]
            BY <1>0, <2>1, <3>2, <3>3, DoneUpdate
        <3> QED
            BY <2>4, <3>2, <3>4
    <2> QED
        BY <1>1, <1>3, <2>3, <2>5, <2>6 DEF SaveScan, SaveScanOffset
<1> QED
    BY <1>1, <1>2, <1>3 DEF AdminStep, OpenScan, ReadScan, EndOfScan, OpenAssembly, Republish, PublishMore,
        LevelDone, WriteLevels, Finish, SaveRegion, adminVars

\* The regions, put together and published, are regions of the file scanned.
RegionsAre == assembly.regions \subseteq Regions /\ \A l \in Levels : published[l] \subseteq Regions

\* They are made of what the scans of a file that was there have stored.
LEMMA RegionsMade ==
    ASSUME Shape, PlanetTypeOK, AdminTypeOK, Dates, AdminStep
    PROVE  RegionsAre' /\ assembly'.source \in 0 .. planet
<1>0. /\ DOMAIN published = Levels /\ RegionsAre /\ assembly.source \in 0 .. planet /\ Store \in {"bbox", "planet"}
      /\ Adm.source \in 0 .. planet /\ Adm.saved.relations \subseteq Relations /\ planet \in {1, 2}
    BY DEF Shape, OutputShape, AdminTypeOK, RegionsAre, PlanetTypeOK, Store, Adm
<1>1. CASE UNCHANGED <<assembly, published>>
    BY <1>0, <1>1 DEF RegionsAre
<1>2. run.pc \in {"assemble", "writeLevels"} => \A r \in Relations : Region(r) \in Regions
    <2> SUFFICES ASSUME run.pc \in {"assemble", "writeLevels"}, NEW r \in Relations
                 PROVE  Region(r) \in Regions
        OBVIOUS
    <2>1. Adm.source \in {1, 2}
        BY <1>0 DEF Dates, AdminStages
    <2>2. PICK whole \in BOOLEAN : Region(r) = [relation |-> r, whole |-> whole, from |-> Adm.source]
        BY DEF Region
    <2> QED
        BY <2>1, <2>2 DEF Regions
<1>3. ASSUME NEW next, Publish(next), UNCHANGED assembly
      PROVE  RegionsAre' /\ assembly'.source \in 0 .. planet
    <2>1. AtLevel(assembly.regions, run.level) \subseteq Regions
        BY <1>0 DEF AtLevel, RegionsAre
    <2>2. \A l \in Levels : published'[l] \subseteq Regions
        BY <1>0, <1>3, <2>1 DEF Publish, RegionsAre
    <2> QED
        BY <1>0, <1>3, <2>2 DEF RegionsAre
<1>4. CASE OpenAssembly
    <2>1. /\ assembly' \in {assembly, [source |-> Adm.source, regions |-> {}]} /\ UNCHANGED published
        BY <1>4 DEF OpenAssembly
    <2>2. assembly'.regions \in {assembly.regions, {}} /\ assembly'.source \in {assembly.source, Adm.source}
        BY <2>1
    <2> QED
        BY <1>0, <2>1, <2>2 DEF RegionsAre
<1>5. ASSUME NEW r \in Relations, SaveRegion(r)
      PROVE  RegionsAre' /\ assembly'.source \in 0 .. planet
    <2>1. CASE assembly' = [assembly EXCEPT !.regions = @ \cup {Region(r)}] /\ UNCHANGED published
        <3>1. Region(r) \in Regions
            BY <1>2, <1>5 DEF SaveRegion, at
        <3>2. /\ assembly'.source = assembly.source \/ assembly' = assembly
              /\ assembly'.regions \subseteq assembly.regions \cup {Region(r)}
            BY <2>1
        <3> QED
            BY <1>0, <2>1, <3>1, <3>2 DEF RegionsAre
    <2> QED
        BY <1>1, <1>5, <2>1 DEF SaveRegion
<1>6. CASE WriteLevels
    <2>1. ASSUME NEW m, MergeLevel(m)
          PROVE  \A l \in Levels : published'[l] \subseteq Regions
        <3>1. Drawn(m) \subseteq Regions
            <4>1. \A r \in Relations : Region(r) \in Regions
                BY <1>2, <1>6 DEF WriteLevels, at
            <4> QED
                BY <1>0, <4>1 DEF Drawn, AtLevel
        <3>2. PICK s \in SUBSET (Drawn(m) \cup published[m]) : published' = [published EXCEPT ![m] = s]
            BY <2>1 DEF MergeLevel
        <3> QED
            BY <1>0, <3>1, <3>2 DEF RegionsAre
    <2>2. UNCHANGED assembly
        BY <1>6 DEF WriteLevels
    <2>3. \A l \in Levels : published'[l] \subseteq Regions
        BY <1>0, <1>6, <2>1 DEF WriteLevels, RegionsAre
    <2> QED
        BY <1>0, <2>2, <2>3 DEF RegionsAre
<1> QED
    BY <1>1, <1>3, <1>4, <1>5, <1>6 DEF AdminStep, PrepareSource, OpenScan, ReadScan, EndOfScan, SaveScan,
        SaveScanOffset, MarkScan, Republish, PublishMore, LevelDone, Finish, adminVars

\* What is stored of the boundaries keeps its type.
LEMMA AdminTypes ==
    ASSUME Shape, Shape', Scanning, TypeOK, Dates, [Next]_vars
    PROVE  AdminTypeOK'
<1>0. /\ UNCHANGED scene /\ planet' \in Nat /\ planet <= planet' /\ planet \in Nat /\ PlanetTypeOK /\ AdminTypeOK
    BY WorldMoves DEF TypeOK
<1>1. End' = End /\ \A n : n \in 0 .. planet => n \in 0 .. planet'
    BY <1>0 DEF End, Blobs
<1>2. OffsetsLie /\ RegionsAre
    BY <1>0 DEF AdminTypeOK, OffsetsLie, RegionsAre, Stores, Kinds
<1>3. adm' \in [Stores -> Scanned]
    BY DEF Shape, OutputShape, Stores
<1>4. \A s \in Stores : adm'[s].saved.relations \subseteq Relations /\ adm'[s].saved.members \subseteq Ways
    BY <1>3 DEF Scanned
<1>5. /\ \A s \in Stores : adm'[s].source \in 0 .. planet' /\ \A k \in Kinds : adm'[s].offset[k] \in 0 .. End
      /\ assembly'.source \in 0 .. planet' /\ RegionsAre'
    <2>1. CASE AdminStep
        <3>1. \A s \in Stores : adm'[s].source \in 0 .. planet
            <4>1. \A s \in Stores : adm[s].source \in 0 .. planet
                BY <1>0 DEF AdminTypeOK, Stores
            <4>2. CASE \A s \in Stores : adm'[s].source = adm[s].source
                BY <4>1, <4>2
            <4>3. CASE PrepareSource /\ adm'[Store].source = planet
                <5>1. \A s \in Stores : s # Store => adm'[s] = adm[s]
                    BY <4>3 DEF PrepareSource, Shape, OutputShape, Stores
                <5> QED
                    BY <1>0, <4>1, <4>3, <5>1
            <4> QED
                BY <2>1, <4>2, <4>3, AdmSources
        <3>2. \A s \in Stores : \A k \in Kinds : adm'[s].offset[k] \in 0 .. End
            BY <1>0, <1>2, <2>1, ScanOffsetsLie
        <3>3. RegionsAre' /\ assembly'.source \in 0 .. planet
            BY <1>0, <2>1, RegionsMade
        <3> QED
            BY <1>1, <3>1, <3>2, <3>3
    <2>2. CASE UNCHANGED adminVars
        BY <1>0, <1>1, <1>2, <2>2 DEF adminVars, AdminTypeOK, RegionsAre, OffsetsLie, Stores
    <2> QED
        BY <2>1, <2>2 DEF Next, Build, Start, Crash, Replace, vars
<1> QED
    BY <1>1, <1>4, <1>5 DEF AdminTypeOK, RegionsAre, Stores, Kinds

\* What is read is of a file that was there, after every step.
LEMMA DatesStep ==
    ASSUME Shape, Scanning, TypeOK, Dates, [Next]_vars
    PROVE  Dates'
<1>0. /\ RunShape /\ PlaceShape /\ WorldShape /\ OutputShape /\ DOMAIN run = DOMAIN NoRun
      /\ at("openScan") => Scan \in {"relations", "members"}
      /\ planet > 0 /\ Store \in Stores
    BY DEF Shape, RunShape, WorldShape, Scanning, ScanStages, at, Store, Stores
<1>1. CASE Stop
    BY <1>1, EndsReading DEF Stop, NoRun, Dates, AdminStages, ScanStages
<1>2. CASE NodeStep /\ ~Stop
    <2>1. run'.pc \in NodeStages \cup {"openWays", "prepareAdmin"}
        BY <1>0, <1>2, NodeFlow DEF Ends, GoesOn
    <2> QED
        BY <2>1 DEF Dates, NodeStages, AdminStages, ScanStages
<1>3. CASE WayStep /\ ~Stop
    <2>1. run'.pc \in {"readWays", "writeCells", "prepareAdmin"}
        BY <1>0, <1>3, WayFlow DEF Ends, GoesOn
    <2> QED
        BY <1>3, <2>1, WayReads DEF Dates, AdminStages, ScanStages
<1>4. CASE AdminStep /\ ~Stop
    <2>1. run.pc \in AdminStages /\ GoesOn(AdminStages)
        BY <1>0, <1>4, AdminFlow DEF Ends
    <2>2. Store' = Store /\ Adm' = adm'[Store]
        BY <2>1 DEF GoesOn, Store, Adm
    <2>3. run'.pc \in AdminStages \ {"prepareAdmin", "finish"} => adm'[Store].source > 0
        <3>1. CASE PrepareSource
            <4>1. CASE job.admin
                <5>1. adm'[Store] = IF adm[Store].source = planet THEN adm[Store] ELSE [NoScan EXCEPT !.source = planet]
                    BY <1>0, <3>1, <4>1 DEF PrepareSource, OutputShape, Stores
                <5>2. adm'[Store].source = planet
                    BY <5>1 DEF NoScan
                <5> QED
                    BY <1>0, <5>2
            <4>2. CASE ~job.admin
                BY <1>0, <3>1, <4>2, Fields DEF PrepareSource, goto
            <4> QED
                BY <4>1, <4>2
        <3>2. CASE run.pc \notin {"prepareAdmin", "finish"}
            <4>1. Adm.source > 0
                BY <2>1, <3>2 DEF Dates
            <4>2. ~PrepareSource
                BY <3>2 DEF PrepareSource, at
            <4>3. adm'[Store].source = adm[Store].source
                BY <1>0, <1>4, <4>2, AdmSources
            <4> QED
                BY <4>1, <4>3 DEF Adm
        <3>3. ~PrepareSource => run.pc \notin {"prepareAdmin", "finish"}
            BY <1>4 DEF AdminStep, OpenScan, ReadScan, EndOfScan, SaveScan, SaveScanOffset, MarkScan, OpenAssembly,
                Republish, PublishMore, LevelDone, WriteLevels, Finish, SaveRegion, at
        <3> QED
            BY <3>1, <3>2, <3>3
    <2> QED
        BY <2>1, <2>2, <2>3 DEF GoesOn, Dates, AdminStages, ScanStages
<1>5. CASE \E j \in scene.requests : Start(j)
    <2>1. run'.pc \in {"openNodes", "openWays"}
        BY <1>0, <1>5, Fields DEF Start, goto
    <2> QED
        BY <2>1 DEF Dates, AdminStages, ScanStages
<1>6. CASE Replace \/ UNCHANGED vars
    BY <1>6 DEF Replace, vars, adminVars, Dates, Adm, Store
<1>7. CASE Crash
    BY <1>1, <1>7 DEF Crash
<1> QED
    BY <1>1, <1>2, <1>3, <1>4, <1>5, <1>6, <1>7 DEF Next, Build

\* The index has the nodes in front of its place in either reading.
LEMMA IndexHolds ==
    Shape /\ Indexing /\ NodeTypeOK => index.blocks = ToSet(NodesIn(0, index.offset))
<1> SUFFICES ASSUME Shape, Indexing, NodeTypeOK
             PROVE  index.blocks = ToSet(NodesIn(0, index.offset))
    OBVIOUS
<1>1. ToSet(NodesIn(0, index.offset)) = NodeIds(0, index.offset)
    BY NodesInFront DEF Shape, NodeTypeOK
<1> QED
    BY <1>1 DEF Indexing

-----------------------------------------------------------------------------
(* The data of the node pass.                                             *)

\* The builder starts with its places and its data together.
LEMMA NodesHoldInit == Init => NodesHold
<1> SUFFICES ASSUME Init
             PROVE  NodesHold
    OBVIOUS
<1>1. Shape /\ Scanning /\ Indexing /\ WorldShape
    BY ShapeInit, CompletesInit DEF Completes, Shape
<1>2. /\ planet = 1 /\ job = NoJob /\ run = NoRun /\ index = NoIndex /\ cand = NoCandidates /\ trouble = 0
      /\ cp = [offset |-> 0, count |-> 0, done |-> FALSE, ways |-> 0] /\ nodeFile = <<>> /\ lost = FALSE
      /\ scene \in Cases /\ promised = [m \in Builders |-> {}]
      /\ cells = [c \in Cells |-> {}] /\ adm = [s \in {"bbox", "planet"} |-> NoScan]
      /\ assembly = [source |-> 0, regions |-> {}] /\ published = [l \in Levels |-> {}]
    BY DEF Init, PlanetInit, NodeInit, WayInit, AdminInit
<1>3. /\ job.mode = "none" /\ run.pc = "off" /\ run.from = 0 /\ run.pos = 0 /\ run.features = {} /\ run.rest = {}
      /\ run.pending = {} /\ cp.offset = 0 /\ cp.count = 0 /\ cp.ways = 0 /\ ~cp.done
      /\ index.source = 0 /\ index.offset = 0 /\ index.blocks = {} /\ index.ways = 0
      /\ cand.offset = 0 /\ cand.nodes = {} /\ cand.ways = 0 /\ ~cand.complete /\ <<>> \in Seq(Nat)
      /\ End \in Nat /\ scene.budget \in Nat
    BY <1>1, <1>2, BlobsAreTyped, CasesAssumption DEF NoJob, NoRun, NoIndex, NoCandidates
<1>4. PlanetTypeOK
    BY <1>2, <1>3 DEF PlanetTypeOK
<1>5. NodeTypeOK
    BY <1>2, <1>3 DEF NodeTypeOK
<1>6. WayTypeOK
    BY <1>2, <1>3 DEF WayTypeOK
<1>7. AdminTypeOK
    BY <1>2, <1>3 DEF AdminTypeOK, NoScan
<1>8. Dates
    BY <1>3 DEF Dates, AdminStages, ScanStages
<1>9. NodeCheckpointsHold
    BY <1>1, <1>3, <1>5, IndexHolds DEF NodeCheckpointsHold, NodeFileHolds, CandidatesHold
<1>10. Filing /\ Choosing
    BY <1>3 DEF Filing, Choosing
<1> QED
    BY <1>4, <1>5, <1>6, <1>7, <1>8, <1>9, <1>10 DEF NodesHold, TypeOK

\* Every step leaves them together.
LEMMA NodesHoldStep == IInv /\ IInv' /\ NodesHold /\ [Next]_vars => NodesHold'
<1> SUFFICES ASSUME IInv, IInv', NodesHold, [Next]_vars
             PROVE  NodesHold'
    OBVIOUS
<1>1. Shape /\ Scanning /\ Indexing /\ Shape' /\ Indexing'
    BY DEF IInv, Resumes, Completes
<1>2. /\ TypeOK /\ PlanetTypeOK /\ NodeTypeOK /\ Dates /\ NodeFileHolds /\ CandidatesHold /\ Filing /\ Choosing
    BY DEF NodesHold, TypeOK, NodeCheckpointsHold
<1>3. TypeOK'
    BY <1>1, <1>2, PlanetTypes, NodeTypes, WayTypes, AdminTypes DEF TypeOK
<1>4. Dates'
    BY <1>1, <1>2, DatesStep
<1>5. Filing' /\ NodeFileHolds' /\ Choosing' /\ CandidatesHold'
    BY <1>1, <1>2, FilingStep, ChoosingStep
<1>6. (index.blocks = ToSet(NodesIn(0, index.offset)))'
    <2>1. (Shape /\ Indexing /\ NodeTypeOK => index.blocks = ToSet(NodesIn(0, index.offset)))'
        BY IndexHolds, PTL
    <2> QED
        BY <1>1, <1>3, <2>1 DEF TypeOK
<1> QED
    BY <1>3, <1>4, <1>5, <1>6 DEF NodesHold, NodeCheckpointsHold

-----------------------------------------------------------------------------
(* The invariant and what follows from it.                                 *)

\* Whatever the settings, the failures and the crashes: saved places are behind their
\* output, finished scans are whole, nothing is mixed from two files, and a compact
\* build keeps what it will be marked as done for.
THEOREM BuildsResume == Spec => []IInv
<1>1. Init => IInv
    BY ResumesInit, CompletesInit DEF IInv
<1>2. IInv /\ [Next]_vars => IInv'
    BY ResumesStep, CompletesStep DEF IInv
<1> QED
    BY <1>1, <1>2, PTL DEF Spec

\* A compact build marked as done left every way and every boundary it was asked for.
THEOREM DoneBuildsAreWhole == Spec => []DoneIsWhole
BY BuildsResume, DoneWhole, PTL

\* Whatever stopped the builds before: what a saved place of the node pass says is
\* there, once, and in order where it says so.
THEOREM NodesStayHeld == Spec => []NodesHold
<1>1. Init => NodesHold
    BY NodesHoldInit
<1>2. IInv /\ IInv' /\ NodesHold /\ [Next]_vars => NodesHold'
    BY NodesHoldStep
<1> QED
    BY <1>1, <1>2, BuildsResume, PTL DEF Spec

\* A place saved by the way pass is never ahead of the cell files.
THEOREM PlacesAreBehindOutput == Spec => []OffsetCoversOutput
BY BuildsResume, PTL DEF IInv, Resumes

\* A focused build never takes away the whole region of a relation.
THEOREM GlobalTopologyStays == Spec => WholeRegionsStay
<1> DEFINE Kept == \A l \in Levels : \A x \in published[l] :
                      x.whole => \E y \in published'[l] : y.relation = x.relation /\ y.whole
<1>1. ASSUME IInv, [Next]_vars, at("writeLevels")
      PROVE  Kept
    <2>1. CASE UNCHANGED published
        BY <2>1
    <2>2. CASE WriteLevels /\ ~UNCHANGED published
        <3>1. PICK m : MergeLevel(m)
            BY <2>2 DEF WriteLevels
        <3>2. DOMAIN published = Levels
            BY <1>1 DEF IInv, Resumes, Shape, OutputShape
        <3> SUFFICES ASSUME NEW l \in Levels, NEW x \in published[l], x.whole
                     PROVE  \E y \in published'[l] : y.relation = x.relation /\ y.whole
            OBVIOUS
        <3>3. CASE l # m
            <4>1. published'[l] = published[l]
                BY <3>1, <3>2, <3>3 DEF MergeLevel
            <4> QED
                BY <4>1
        <3>4. CASE l = m
            <4> DEFINE new == Drawn(m)
                       whole(regions) == {y.relation : y \in {z \in regions : z.whole}}
            <4>1. published'[m] = {y \in new : y.whole \/ y.relation \notin whole(published[m])}
                                      \cup {y \in published[m] : y.relation \notin whole(new)}
                BY <3>1, <3>2, <3>4 DEF MergeLevel
            <4> HIDE DEF new
            <4>2. CASE x.relation \in whole(new)
                BY <3>4, <4>1, <4>2
            <4>3. CASE x.relation \notin whole(new)
                BY <3>4, <4>1, <4>3
            <4> QED
                BY <4>2, <4>3
        <3> QED
            BY <3>3, <3>4
    <2>3. UNCHANGED published \/ WriteLevels
        BY <1>1 DEF Next, Build, Start, Crash, Replace, AdminStep, PrepareSource, OpenScan, ReadScan, EndOfScan,
            SaveScan, SaveScanOffset, MarkScan, OpenAssembly, Republish, PublishMore, LevelDone, Finish, SaveRegion,
            adminVars, vars, at
    <2> QED
        BY <2>1, <2>2, <2>3
<1>2. IInv /\ [Next]_vars => [at("writeLevels") => Kept]_<<adminVars, run>>
    BY <1>1
<1> QED
    BY <1>2, BuildsResume, PTL DEF Spec, WholeRegionsStay

=============================================================================
