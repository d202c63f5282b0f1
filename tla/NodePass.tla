------------------------------- MODULE NodePass -------------------------------
(***************************************************************************)
(* The first pass of a cache build finds the coordinates of the nodes.     *)
(* A planet build writes them to a flat file and sorts it, or only indexes *)
(* the blocks of the original file; a focused build keeps the nodes inside *)
(* its bounds in a database.  Each saves its place and resumes there.      *)
(***************************************************************************)
EXTENDS PlanetFile, SequencesExt

VARIABLES
    nodeFile,   \* planet_nodes.bin
    cp,         \* checkpoint.txt: pass1_offset, pass1_record_count, pass1_complete,
                \* pass2_offset
    index,      \* indexed-pbf-v1: source, blocks, scan offset, the build bound to it,
                \* and ways_checkpoint.txt
    cand        \* candidate_nodes_all_*.sqlite: nodes and build_state

nodeVars == <<nodeFile, cp, index, cand>>

\* broken: nodes.sqlite is there without all of its marks and tables.
NoIndex == [source |-> 0, offset |-> 0, blocks |-> {}, indexed |-> FALSE,
            build |-> NoJob, done |-> FALSE, ways |-> 0, broken |-> FALSE]
NoCandidates == [nodes |-> {}, offset |-> 0, complete |-> FALSE, ways |-> 0]

NodeInit ==
    /\ nodeFile = <<>> /\ cp = [offset |-> 0, count |-> 0, done |-> FALSE, ways |-> 0]
    /\ index = NoIndex /\ cand = NoCandidates

NodesIn(a, b) == FlattenSeq([i \in 1..(b - a) |-> Blobs[a + i].nodes])
NodeIds(a, b) == UNION {ToSet(Blobs[i].nodes) : i \in Between(a, b)}
Ascending(s) == \A i, j \in DOMAIN s : i < j => s[i] < s[j]

\* The same nodes, each as often, in another order; and in theirs, as the sort leaves them.
Reorders(s, t) == \E p \in Bijection(DOMAIN t, DOMAIN t) : s = [i \in DOMAIN t |-> t[p[i]]]
Rising(s) == \A i, j \in DOMAIN s : i < j => s[i] <= s[j]
Sorted(s) == CHOOSE t \in [DOMAIN s -> ToSet(s)] : Rising(t) /\ Reorders(t, s)

\* The nodes a way scan can look up.
Known == CASE job.mode = "flat" -> ToSet(nodeFile)
           [] job.mode = "bbox" -> cand.nodes
           [] OTHER             -> index.blocks

--------------------------------------------------------------------------------

\* NodeWriter: a new file, or the old one cut back to its checkpoint.
OpenNodeFile ==
    /\ at("openNodes") /\ job.mode = "flat" /\ Works
    /\ IF cp.offset > 0 /\ Len(nodeFile) < cp.count
       THEN Stop /\ UNCHANGED nodeFile
       ELSE /\ nodeFile' = IF cp.offset = 0 THEN <<>> ELSE SubSeq(nodeFile, 1, cp.count)
            /\ run' = [run EXCEPT !.pc = "readNodes", !.from = planet, !.pos = cp.offset]
            /\ UNCHANGED job
    /\ UNCHANGED <<cp, index, cand>>

\* An index is bound to the file it was begun for.  Its database is made in steps of
\* which each is kept, and only where there is none: one that is left half made is
\* refused from then on.
OpenIndex ==
    /\ at("openNodes") /\ job.mode \in {"compact", "import"}
    /\ \/ /\ Works /\ ~index.broken
          /\ index' = IF index.source = 0 THEN [index EXCEPT !.source = planet] ELSE index
          /\ IF ~SameSource(index'.source)
             THEN Stop
             ELSE /\ run' = [run EXCEPT !.pc = IF index.indexed THEN "bind" ELSE "readNodes",
                                        !.from = planet, !.pos = index.offset]
                  /\ UNCHANGED job
       \/ Works /\ index.broken /\ Stop /\ UNCHANGED index
       \/ Fails /\ index.source = 0 /\ index' = [index EXCEPT !.broken = TRUE]
    /\ UNCHANGED <<nodeFile, cp, cand>>

\* Without a saved place the store starts empty.
OpenCandidates ==
    /\ at("openNodes") /\ job.mode = "bbox" /\ Works
    /\ cand' = IF cand.offset = 0 THEN NoCandidates ELSE cand
    /\ run' = [run EXCEPT !.pc = "readNodes", !.from = planet, !.pos = cand.offset]
    /\ UNCHANGED <<job, nodeFile, cp, index>>

\* A blob, the last of a batch or not; a compact index takes ascending nodes only.
ReadNodes ==
    /\ at("readNodes") /\ run.pos < End
    /\ LET next == run.pos + 1
           found == Blobs[next].nodes
       IN  IF job.mode \in {"compact", "import"}
              /\ ~(Ascending(found) /\ \A n \in ToSet(found), o \in index.blocks \cup ToSet(run.nodes) : o < n)
           THEN Stop /\ Works
           ELSE \/ /\ Works /\ UNCHANGED job
                   /\ \E pc \in {"readNodes", "writeNodes"} :
                        run' = [run EXCEPT !.pos = next, !.nodes = @ \o found, !.pc = pc]
                \/ Fails
    /\ UNCHANGED nodeVars

\* What is left of a batch is written; an index is complete when all of it is.
EndOfNodes ==
    /\ at("readNodes") /\ run.pos = End /\ Works
    /\ goto(IF job.mode \in {"compact", "import"} /\ index.offset = End THEN "markIndexed"
            ELSE "writeNodes")
    /\ UNCHANGED <<job, nodeVars>>

\* mutant: the checkpoint runs ahead of the file
SavedFirst ==
    /\ at("writeNodes") /\ job.mode = "flat" /\ Works
    /\ IF cp.offset # run.pos
       THEN cp' = [cp EXCEPT !.offset = run.pos, !.count = Len(nodeFile) + Len(run.nodes)]
            /\ UNCHANGED <<run, nodeFile>>
       ELSE /\ nodeFile' = nodeFile \o run.nodes /\ UNCHANGED cp
            /\ run' = [run EXCEPT !.nodes = <<>>,
                          !.pc = IF run.pos = End THEN "sortNodes" ELSE "readNodes"]
    /\ UNCHANGED <<job, index, cand>>

\* The file is made durable ...
WriteNodes ==
    /\ at("writeNodes") /\ job.mode = "flat"
    /\ \/ /\ Works /\ nodeFile' = nodeFile \o run.nodes
          /\ run' = [run EXCEPT !.pc = "saveNodes", !.nodes = <<>>]
          /\ UNCHANGED job
       \/ Fails /\ UNCHANGED nodeFile
    /\ UNCHANGED <<cp, index, cand>>

\* ... before the checkpoint says so.
SaveNodeOffset ==
    /\ at("saveNodes") /\ Works
    /\ cp' = [cp EXCEPT !.offset = run.pos, !.count = Len(nodeFile)]
    /\ goto(IF run.pos = End THEN "sortNodes" ELSE "readNodes")
    /\ UNCHANGED <<job, nodeFile, index, cand>>

\* Chunks and the merged file are written aside and renamed over the node file.
SortNodes ==
    /\ at("sortNodes")
    /\ \/ Works /\ nodeFile' = Sorted(nodeFile) /\ goto("markSorted") /\ UNCHANGED job
       \/ Fails /\ UNCHANGED nodeFile
    /\ UNCHANGED <<cp, index, cand>>

MarkSorted ==
    /\ at("markSorted") /\ Works
    /\ cp' = [cp EXCEPT !.done = TRUE, !.offset = 0]
    /\ goto("openWays") /\ UNCHANGED <<job, nodeFile, index, cand>>

\* Block descriptors and the scan offset in one transaction, of a file that is
\* still the one the index is bound to.
CommitBlocks ==
    /\ at("writeNodes") /\ job.mode \in {"compact", "import"}
    /\ \/ /\ Works /\ SameSource(index.source)
          /\ index' = [index EXCEPT !.offset = run.pos, !.blocks = @ \cup ToSet(run.nodes)]
          /\ run' = [run EXCEPT !.pc = "readNodes", !.nodes = <<>>] /\ UNCHANGED job
       \/ Works /\ ~SameSource(index.source) /\ Stop /\ UNCHANGED index
       \/ Fails /\ UNCHANGED index
    /\ UNCHANGED <<nodeFile, cp, cand>>

MarkIndexed ==
    /\ at("markIndexed") /\ Works
    /\ IF SameSource(index.source)
       THEN index' = [index EXCEPT !.indexed = TRUE] /\ goto("bind") /\ UNCHANGED job
       ELSE Stop /\ UNCHANGED index
    /\ UNCHANGED <<nodeFile, cp, cand>>

\* mutant: other settings replace those the saved place was reached with
SettingsReplaced ==
    /\ at("bind") /\ Works
    /\ index' = IF job.mode = "compact" THEN [index EXCEPT !.build = job] ELSE index
    /\ goto(IF job.mode = "import" \/ index.done THEN "prepareAdmin" ELSE "openWays")
    /\ UNCHANGED <<job, nodeFile, cp, cand>>

\* The build's settings are bound to the index; a finished build only brings its
\* boundaries up to date.  An import of boundaries binds nothing.
BindBuild ==
    /\ at("bind") /\ Works
    /\ IF job.mode = "compact" /\ index.build \notin {NoJob, job}
       THEN Stop /\ UNCHANGED index
       ELSE /\ index' = IF job.mode = "compact" THEN [index EXCEPT !.build = job] ELSE index
            /\ goto(IF job.mode = "import" \/ index.done THEN "prepareAdmin" ELSE "openWays")
            /\ UNCHANGED job
    /\ UNCHANGED <<nodeFile, cp, cand>>

\* Candidates and the scan offset in one transaction.
CommitCandidates ==
    /\ at("writeNodes") /\ job.mode = "bbox"
    /\ \/ /\ Works /\ UNCHANGED job
          /\ cand' = [cand EXCEPT !.offset = run.pos,
                                  !.nodes = @ \cup (ToSet(run.nodes) \cap Bounds)]
          /\ run' = [run EXCEPT !.nodes = <<>>,
                        !.pc = IF run.pos = End THEN "markComplete" ELSE "readNodes"]
       \/ Fails /\ UNCHANGED cand
    /\ UNCHANGED <<nodeFile, cp, index>>

CompleteCandidates ==
    /\ at("markComplete") /\ Works
    /\ cand' = [cand EXCEPT !.complete = TRUE, !.offset = 0]
    /\ goto("openWays") /\ UNCHANGED <<job, nodeFile, cp, index>>

NodeStep ==
    \/ OpenNodeFile \/ OpenIndex \/ OpenCandidates
    \/ ReadNodes \/ EndOfNodes \/ WriteNodes \/ SaveNodeOffset \/ SortNodes \/ MarkSorted
    \/ CommitBlocks \/ MarkIndexed \/ BindBuild \/ CommitCandidates \/ CompleteCandidates

--------------------------------------------------------------------------------

NodeTypeOK ==
    /\ nodeFile \in Seq(Nat) /\ cp.offset \in 0..End /\ cp.ways \in 0..End
    /\ index.source \in 0..planet /\ index.offset \in 0..End /\ index.ways \in 0..End
    /\ cand.offset \in 0..End /\ cand.ways \in 0..End
    /\ index.blocks \cup cand.nodes \subseteq Nat

\* The node file has the nodes in front of the place, whatever a crash left behind them;
\* once it is sorted it has them all.
NodeFileHolds ==
    /\ cp.offset > 0 =>
        /\ Len(nodeFile) >= cp.count
        /\ Reorders(SubSeq(nodeFile, 1, cp.count), NodesIn(0, cp.offset))
    /\ cp.done => nodeFile = Sorted(NodesIn(0, End))

\* A focused build has those of them that are inside its bounds.
CandidatesHold ==
    /\ cand.offset > 0 => cand.nodes = ToSet(NodesIn(0, cand.offset)) \cap Bounds
    /\ cand.complete => cand.nodes = ToSet(NodesIn(0, End)) \cap Bounds

\* A saved place is never ahead of the nodes behind it, nor are they there twice:
\* "A checkpoint must never point beyond data that can be reopened."
NodeCheckpointsHold ==
    /\ NodeFileHolds /\ CandidatesHold
    /\ index.blocks = ToSet(NodesIn(0, index.offset))

=============================================================================
