------------------------------- MODULE WayPass --------------------------------
(***************************************************************************)
(* The second pass of a cache build: ways of the asked layers become       *)
(* features, which are gathered in memory and merged, a cell file at a     *)
(* time, into what the files hold.  A planet build saves its place after   *)
(* whole batches of blobs, a focused build in the middle of a blob.        *)
(***************************************************************************)
EXTENDS NodePass

VARIABLES
    cells,      \* the features of the cell files: none where there is no file, or
                \* one that was cut short and does not parse
    lost,       \* for the properties only: a write of a cell file was cut short in this
                \* behaviour, or a file that could not be read was written anew
    promised    \* per kind of build: ways that every run since the pass began was asked for

wayVars == <<cells, lost, promised>>

WayInit ==
    /\ cells = [c \in Cells |-> {}] /\ lost = FALSE
    /\ promised = [m \in Builders |-> {}]

\* Where the next run will take up the pass, 0 being the start.
SavedPlace(mode) == CASE mode = "flat" -> cp.ways [] mode = "bbox" -> cand.ways
                      [] OTHER -> index.ways
PlaceSaved(pos) ==
    CASE job.mode = "flat" -> cp' = [cp EXCEPT !.ways = pos] /\ UNCHANGED <<index, cand>>
      [] job.mode = "bbox" -> cand' = [cand EXCEPT !.ways = pos] /\ UNCHANGED <<cp, index>>
      [] OTHER             -> index' = [index EXCEPT !.ways = pos] /\ UNCHANGED <<cp, cand>>

\* A way with fewer than two nodes found is no feature.
Features(ways) == {[way |-> w, points |-> RefsOf[w] \cap Known, from |-> run.from] :
                      w \in {x \in ways : Cardinality(RefsOf[x] \cap Known) >= 2}}
Touched(features) == UNION {CellsOf[f.way] : f \in features}
Ids(features) == {f.way : f \in features}

\* A planet build without way layers goes on to the boundaries at once.
OpenWays ==
    /\ at("openWays") /\ Works
    /\ IF job.layers = {} /\ job.mode # "bbox"
       THEN goto("prepareAdmin") /\ UNCHANGED promised
       ELSE /\ run' = [run EXCEPT !.pc = "readWays", !.from = planet, !.last = FALSE,
                                  !.pos = SavedPlace(job.mode)]
            /\ promised' = [promised EXCEPT ![job.mode] =
                              IF SavedPlace(job.mode) = 0 THEN job.layers ELSE @ \cap job.layers]
    /\ UNCHANGED <<job, nodeVars, cells, lost>>

Flushing(next) == [next EXCEPT !.pc = "writeCells", !.pending = Touched(next.features)]

\* A batch of blobs of a planet build; the file is compared before and after.
ReadWays(k) ==
    /\ at("readWays") /\ job.mode # "bbox" /\ k \in Between(run.pos, End)
    /\ \/ /\ Works /\ SameSource(index.source) /\ UNCHANGED job
          /\ LET next == [run EXCEPT !.pos = k,
                             !.features = @ \cup Features(WaysIn(run.pos, k) \cap job.layers)]
             IN  run' \in {next, Flushing(next)}
       \/ Works /\ ~SameSource(index.source) /\ Stop
       \/ Fails
    /\ UNCHANGED <<nodeVars, wayVars>>

\* A focused build takes a blob ...
ReadBlob ==
    /\ at("readWays") /\ job.mode = "bbox" /\ run.rest = {} /\ run.pos < End
    /\ \/ /\ Works /\ UNCHANGED job
          /\ run' = [run EXCEPT !.pos = @ + 1,
                        !.rest = WaysIn(run.pos, run.pos + 1) \cap job.layers]
       \/ Fails
    /\ UNCHANGED <<nodeVars, wayVars>>

\* ... and its ways one by one; after any of them what was gathered may be written.
TakeWay(w) ==
    /\ at("readWays") /\ job.mode = "bbox" /\ w \in run.rest /\ Works
    /\ LET next == [run EXCEPT !.rest = @ \ {w}, !.features = @ \cup Features({w})]
       IN  run' \in {next, Flushing(next)}
    /\ UNCHANGED <<job, nodeVars, wayVars>>

EndOfWays ==
    /\ at("readWays") /\ run.pos = End /\ run.rest = {} /\ Works
    /\ IF SameSource(index.source)
       THEN run' = Flushing([run EXCEPT !.last = TRUE]) /\ UNCHANGED job
       ELSE Stop
    /\ UNCHANGED <<nodeVars, wayVars>>

\* mutant: the file is written anew
NotMerged(c, new) == new

\* Features replace those of the same way; a file that would hold no more ways
\* than before is left as it is.
Merged(c, new) ==
    IF Ids(new) \subseteq Ids(cells[c])
    THEN cells[c]
    ELSE new \cup {f \in cells[c] : f.way \notin Ids(new)}

\* A file that is there and cannot be read is taken for an empty one, and the build
\* goes on: what it held is written over.
WrittenOver(c, gathered) ==
    /\ cells[c] # {} /\ Disturb /\ UNCHANGED planet
    /\ cells' = [cells EXCEPT ![c] = gathered] /\ lost' = TRUE

\* One cell file, written in place.
WriteCell(c) ==
    /\ at("writeCells") /\ c \in run.pending
    /\ LET gathered == {f \in run.features : c \in CellsOf[f.way]}
           new == Merged(c, gathered)
       IN  \/ /\ \/ Works /\ cells' = [cells EXCEPT ![c] = new] /\ UNCHANGED lost
                 \/ WrittenOver(c, gathered)
              /\ run' = [run EXCEPT !.pending = @ \ {c}] /\ UNCHANGED job
           \/ /\ Fails /\ new # cells[c]
              /\ \/ UNCHANGED <<cells, lost>>
                 \/ cells' = [cells EXCEPT ![c] = {}] /\ lost' = TRUE
    /\ UNCHANGED <<nodeVars, promised>>

\* Only then is the place saved, or given up at the end of the pass.
SaveWayOffset ==
    /\ at("writeCells") /\ run.pending = {} /\ Works
    /\ IF ~SameSource(index.source)
       THEN Stop /\ UNCHANGED <<cp, index, cand>>
       ELSE /\ PlaceSaved(IF run.last THEN 0 ELSE run.pos)
            /\ run' = [run EXCEPT !.features = {}, !.last = FALSE,
                                  !.pc = IF run.last THEN "prepareAdmin" ELSE "readWays"]
            /\ UNCHANGED job
    /\ UNCHANGED <<nodeFile, wayVars>>

\* The program ends while a cell file is being written.
CellsCut(c) ==
    /\ at("writeCells") /\ c \in run.pending
    /\ Merged(c, {f \in run.features : c \in CellsOf[f.way]}) # cells[c]
    /\ cells' = [cells EXCEPT ![c] = {}] /\ lost' = TRUE

WayStep ==
    \/ OpenWays \/ ReadBlob \/ EndOfWays \/ SaveWayOffset
    \/ \E k \in DOMAIN Blobs : ReadWays(k)
    \/ \E w \in run.rest : TakeWay(w)
    \/ \E c \in run.pending : WriteCell(c)

--------------------------------------------------------------------------------

Drawings == [way : Ways, points : SUBSET Nat, from : {1, 2}]

WayTypeOK ==
    /\ \A c \in Cells : cells[c] \subseteq Drawings
    /\ run.features \subseteq Drawings
    /\ lost \in BOOLEAN /\ promised \in [Builders -> SUBSET Ways]
    /\ run.rest \subseteq Ways /\ run.pending \subseteq Cells

\* The cell files hold a way, once it can be drawn at all.
Covered(w, nodes) ==
    Cardinality(RefsOf[w] \cap nodes) >= 2 =>
        \A c \in CellsOf[w] : w \in Ids(cells[c])

\* A planet build's saved place is never ahead of its output: every way in front
\* of it that all runs asked for is in its files, unless a write was cut short or a
\* file that could not be read was written over.
OffsetCoversOutput ==
    ~lost =>
        /\ \A w \in WaysIn(0, cp.ways) \cap promised["flat"] : Covered(w, ToSet(nodeFile))
        /\ \A w \in WaysIn(0, index.ways) \cap promised["compact"] : Covered(w, index.blocks)

\* The same of a focused build that is not running: "resuming from it is safe even
\* if the process was killed mid-blob."
WayScanResumes ==
    ~lost /\ run.pc = "off" =>
        \A w \in WaysIn(0, cand.ways) \cap promised["bbox"] : Covered(w, cand.nodes)

=============================================================================
