------------------------------ MODULE OsmJobs --------------------------------
(***************************************************************************)
(* The OSM import queue (osm_ingest): check threads and buttons insert job *)
(* rows into the runtime database, one worker at a time takes the next     *)
(* row, imports roads or water into cell files and tile tables and records *)
(* the outcome, and the map layers are told by a generation counter.       *)
(*                                                                         *)
(* Rows, files and tiles survive a restart; the hint that something is     *)
(* active, the remembered notes and the threads do not.  A row's note is   *)
(* both the key that tells duplicates and the progress text that replaces  *)
(* it, so the model keeps whether the note still is the key.               *)
(***************************************************************************)
EXTENDS VectorLayer, Sequences

CONSTANTS
    Jobs,           \* what can be asked for: focus road and water jobs, the planet's roads
    WaterJobs,
    Planet,         \* the import of all roads (need not be one of Jobs)
    CellsOf,        \* the cells of each focus job
    Askers,         \* the road and the water check thread, and the user's buttons
    MaxRows         \* BOUND: rows inserted

ASSUME OsmAssumption ==
    /\ WaterJobs \subseteq Jobs /\ Planet \notin WaterJobs
    /\ CellsOf \in [Jobs -> SUBSET Cells]
    /\ Askers \subseteq {"roads", "water", "ui"}
    /\ MaxRows \in Nat

VARIABLES
    rows,           \* the job table, oldest first
    extract, vector,        \* cell files: "none", "whole" or "torn"
    roadTiles, waterTiles,  \* cells whose features are in the tile tables
    marked,         \* osm_focus_cell_cache: water cells said to be imported
    flag,           \* active_jobs_flag
    known,          \* known_notes
    ask,            \* the threads that ask
    wk,             \* the worker
    faulted         \* something failed in this behaviour

stored == <<rows, extract, vector, roadTiles, waterTiles, marked>>
budgets == <<faulted, trouble, scene>>
osmVars == <<stored, flag, known, ask, wk>>
vars == <<osmVars, layerVars, budgets>>

IdleAsker == [pc |-> "idle", job |-> Planet]
IdleWorker == [pc |-> "off", row |-> 0, todo |-> {}, unit |-> {}, ok |-> FALSE]
Focus(j) == j # Planet
LayerOf(j) == IF j \in WaterJobs THEN "water" ELSE "roads"
Fails == Disturb /\ faulted' = TRUE /\ UNCHANGED scene
Works == UNCHANGED budgets
Job == rows[wk.row].job

\* What a road or a water build finds: a whole vector file, else the tiles.
StoredFor(k) ==
    IF k = "roads" THEN {c \in Cells : vector[c] = "whole" \/ c \in roadTiles} ELSE waterTiles

--------------------------------------------------------------------------------
(* Start-up: orphans become failed rows and the memory is hydrated. *)

Recovered(table) ==
    [r \in DOMAIN table |-> IF table[r].state = "running"
                            THEN [table[r] EXCEPT !.state = "failed", !.noted = FALSE]
                            ELSE table[r]]

\* mutant: rows left running are only looked at
NothingRecovered(table) == table

RecoverOrphans(table) == Recovered(table)

NotesOf(table) == {table[r].job : r \in {x \in DOMAIN table : table[x].noted
                                           /\ table[x].state \in {"queued", "running", "completed"}}}
Active(table) == \E r \in DOMAIN table : table[r].state \in {"queued", "running"}

OsmInit ==
    /\ rows = <<>> /\ flag = FALSE /\ known = {}
    /\ extract = [c \in Cells |-> "none"] /\ vector = [c \in Cells |-> "none"]
    /\ roadTiles = {} /\ waterTiles = {} /\ marked = {}
    /\ ask = [a \in Askers |-> IdleAsker] /\ wk = IdleWorker
    /\ faulted = FALSE

\* The process ends anywhere and is started again.  What a program or fs::write
\* was writing is cut short; a transaction leaves nothing.
Crash ==
    /\ Disturb /\ UNCHANGED <<faulted, scene>>
    /\ LET torn(files, pc) == IF wk.pc = pc
                              THEN {files} \cup {[files EXCEPT ![c] = "torn"] : c \in wk.todo}
                              ELSE {files}
       IN  /\ extract' \in torn(extract, "extract")
           /\ vector' \in IF wk.pc = "merge" THEN torn(vector, "merge") ELSE torn(vector, "vector")
    /\ rows' = RecoverOrphans(rows)
    /\ flag' = Active(rows') /\ known' = NotesOf(rows')
    /\ ask' = [a \in Askers |-> IdleAsker] /\ wk' = IdleWorker
    /\ cache' = [k \in MapLayers |-> NoCache] /\ build' = [k \in MapLayers |-> NoBuild]
    /\ current' = [k \in MapLayers |-> {}]
    /\ UNCHANGED <<roadTiles, waterTiles, marked>>

--------------------------------------------------------------------------------
(* Asking for an import. *)

MayAsk(a, j) == \/ a = LayerOf(j) /\ a \in drawn /\ Focus(j) /\ ~flag
                \/ a = "ui" /\ j \notin WaterJobs

\* A layer's check, twice a second while nothing is active, or a button.
StartCheck(a, j) ==
    /\ ask[a].pc = "idle" /\ j \in scene.jobs /\ MayAsk(a, j)
    /\ Focus(j) => j \notin known
    /\ ask' = [ask EXCEPT ![a] = [pc |-> "count", job |-> j]]
    /\ UNCHANGED <<stored, flag, known, wk, budgets, layerVars>>

CountSame(a) ==
    /\ ask[a].pc = "count"
    /\ \/ Works /\ IF ask[a].job \in NotesOf(rows)
                   THEN /\ ask' = [ask EXCEPT ![a] = IdleAsker]
                        /\ known' = IF Focus(ask[a].job) THEN known \cup {ask[a].job} ELSE known
                   ELSE ask' = [ask EXCEPT ![a].pc = "insert"] /\ UNCHANGED known
       \/ Fails /\ ask' = [ask EXCEPT ![a] = IdleAsker] /\ UNCHANGED known
    /\ UNCHANGED <<stored, flag, wk, layerVars>>

InsertRow(a) ==
    /\ ask[a].pc = "insert"
    /\ \/ /\ Works /\ Len(rows) < MaxRows
          /\ rows' = Append(rows, [job |-> ask[a].job, state |-> "queued", noted |-> TRUE])
          /\ ask' = [ask EXCEPT ![a] = IF Focus(ask[a].job) THEN [@ EXCEPT !.pc = "publish"]
                                       ELSE IdleAsker]
       \/ /\ Fails \/ (Len(rows) = MaxRows /\ Works)
          /\ ask' = [ask EXCEPT ![a] = IdleAsker] /\ UNCHANGED rows
    /\ UNCHANGED <<extract, vector, roadTiles, waterTiles, marked, flag, known, wk,
                   layerVars>>

\* A focus row is announced to the dispatcher; the planet's never is.
PublishJob(a) ==
    /\ ask[a].pc = "publish"
    /\ known' = known \cup {ask[a].job}
    /\ flag' = TRUE
    /\ ask' = [ask EXCEPT ![a] = IdleAsker]
    /\ UNCHANGED <<stored, wk, budgets, layerVars>>

--------------------------------------------------------------------------------
(* The worker: one thread per job, spawned by a frame. *)

Worker(at, step) == wk.pc = at /\ wk' = step
NotStored == UNCHANGED <<stored, known, ask, layerVars>>

\* tick
SpawnWorker ==
    /\ flag /\ scene.shown # {} /\ Worker("off", [IdleWorker EXCEPT !.pc = "ensure"])
    /\ UNCHANGED <<stored, flag, known, ask, budgets, layerVars>>

\* The store is opened; rows left running are failed, unless that was done less
\* than 30 s ago.
EnsureStore ==
    /\ \/ /\ Works /\ Worker("ensure", [wk EXCEPT !.pc = "lower"])
          /\ rows' \in {rows, RecoverOrphans(rows)}
       \/ Fails /\ Worker("ensure", IdleWorker) /\ UNCHANGED rows
    /\ UNCHANGED <<extract, vector, roadTiles, waterTiles, marked, flag, known, ask, layerVars>>

\* The hint is cleared before the table is read ...
LowerFlag ==
    /\ Worker("lower", [wk EXCEPT !.pc = "query"]) /\ flag' = FALSE
    /\ UNCHANGED budgets /\ NotStored

Priority(j) == IF Focus(j) THEN 100 ELSE 10
Queued == {r \in DOMAIN rows : rows[r].state = "queued"}
IsNext(r) == \A s \in Queued :
    \/ Priority(rows[r].job) > Priority(rows[s].job)
    \/ Priority(rows[r].job) = Priority(rows[s].job) /\ r <= s

\* ... and raised again when a row was found or the read failed.
FetchNextJob ==
    /\ \/ /\ Queued = {} /\ Works
          /\ Worker("query", IdleWorker) /\ UNCHANGED rows
       \/ \E r \in Queued :
             /\ IsNext(r) /\ Works
             /\ Worker("query", [wk EXCEPT !.pc = "raise", !.row = r])
             /\ rows' = [rows EXCEPT ![r].state = "running"]
       \/ Fails /\ Worker("query", [wk EXCEPT !.pc = "raise"]) /\ UNCHANGED rows
    /\ UNCHANGED <<extract, vector, roadTiles, waterTiles, marked, flag, known, ask,
                   layerVars>>

\* mutant: a failed read is taken for an empty queue
RaiseForRow ==
    /\ Worker("raise", IF wk.row = 0 THEN IdleWorker ELSE [wk EXCEPT !.pc = "import"])
    /\ flag' = (flag \/ wk.row # 0)
    /\ UNCHANGED budgets /\ NotStored

RaiseFlag ==
    /\ Worker("raise", IF wk.row = 0 THEN IdleWorker ELSE [wk EXCEPT !.pc = "import"])
    /\ flag' = TRUE
    /\ UNCHANGED budgets /\ NotStored

Fetch == LowerFlag \/ FetchNextJob \/ RaiseFlag

--------------------------------------------------------------------------------
(* Importing roads. *)

Renoted == rows' = [rows EXCEPT ![wk.row].noted = FALSE]
Quiet == UNCHANGED <<flag, known, ask>>
ToOverpass == wk' = [wk EXCEPT !.pc = "download"]
MissingVector == {c \in CellsOf[Job] : vector[c] = "none"}
MissingExtract == {c \in MissingVector : extract[c] = "none"}

\* A file counts as ready by being there.
PlanRoads ==
    /\ wk.pc = "import" /\ Focus(Job) /\ Job \notin WaterJobs
    /\ \/ ToOverpass /\ Works     \* asked for or preferred, no osmium, no batch extract
       \/ /\ Works
          /\ wk' = CASE MissingVector = {}  -> [wk EXCEPT !.pc = "settle", !.ok = TRUE]
                     [] MissingExtract # {} -> [wk EXCEPT !.pc = "extract", !.todo = MissingExtract,
                                                          !.unit = MissingVector]
                     [] OTHER               -> [wk EXCEPT !.pc = "vector", !.todo = MissingVector]
    /\ IF wk'.pc \in {"download", "extract"} THEN Renoted ELSE UNCHANGED rows
    /\ Quiet /\ UNCHANGED <<extract, vector, roadTiles, waterTiles, marked, layerVars>>

\* Cutting the cells from the batch; a failed extract is removed.
ExtractCell(c) ==
    /\ wk.pc = "extract" /\ c \in wk.todo
    /\ \/ /\ Works /\ extract' = [extract EXCEPT ![c] = "whole"]
          /\ wk' = IF wk.todo = {c} THEN [wk EXCEPT !.pc = "vector", !.todo = wk.unit, !.unit = {}]
                   ELSE [wk EXCEPT !.todo = @ \ {c}]
       \/ Fails /\ extract' = [extract EXCEPT ![c] = "none"] /\ ToOverpass
    /\ Quiet /\ UNCHANGED <<rows, vector, roadTiles, waterTiles, marked, layerVars>>

\* One vector file from its extract, and at once announced.  A torn extract
\* does not parse, a failed write leaves a torn file.
BuildVector(c) ==
    /\ wk.pc = "vector" /\ c \in wk.todo
    /\ \/ /\ Works /\ extract[c] = "whole"
          /\ vector' = [vector EXCEPT ![c] = "whole"]
          /\ wk' = IF wk.todo = {c} THEN [wk EXCEPT !.pc = "settle", !.todo = {}, !.ok = TRUE]
                   ELSE [wk EXCEPT !.todo = @ \ {c}]
          /\ Bump("roads")
       \/ /\ \/ Works /\ extract[c] # "whole" /\ UNCHANGED vector
             \/ Fails /\ vector' \in {vector, [vector EXCEPT ![c] = "torn"]}
          /\ ToOverpass /\ UNCHANGED current
    /\ Renoted
    /\ Quiet /\ UNCHANGED <<extract, roadTiles, waterTiles, marked, cache, build>>

\* The whole area from Overpass: tiles in one transaction, then the cells.
DownloadRoads ==
    /\ wk.pc = "download" /\ Job \notin WaterJobs
    /\ Renoted
    /\ \/ /\ Works /\ roadTiles' = roadTiles \cup CellsOf[Job]
          /\ wk' = [wk EXCEPT !.pc = "merge", !.todo = CellsOf[Job]]
       \/ /\ Fails /\ UNCHANGED roadTiles
          /\ wk' = [wk EXCEPT !.pc = "settle", !.todo = {}, !.ok = FALSE]
    /\ Quiet /\ UNCHANGED <<extract, vector, waterTiles, marked, layerVars>>

\* mutant: a cell without roads gets no file
EmptyCellSkipped(c) ==
    /\ wk.pc = "merge" /\ c \in wk.todo /\ Works
    /\ vector' \in {vector, [vector EXCEPT ![c] = "whole"]}
    /\ wk' = IF wk.todo = {c} THEN [wk EXCEPT !.pc = "settle", !.todo = {}, !.ok = TRUE]
             ELSE [wk EXCEPT !.todo = @ \ {c}]
    /\ Quiet /\ UNCHANGED <<rows, extract, roadTiles, waterTiles, marked, layerVars>>

\* New roads are merged into a cell's file; a torn one with no new road stays.
MergeCell(c) ==
    /\ wk.pc = "merge" /\ c \in wk.todo
    /\ \/ /\ Works
          /\ \/ vector' = [vector EXCEPT ![c] = "whole"]
             \/ vector[c] = "torn" /\ UNCHANGED vector
          /\ wk' = IF wk.todo = {c} THEN [wk EXCEPT !.pc = "settle", !.todo = {}, !.ok = TRUE]
                   ELSE [wk EXCEPT !.todo = @ \ {c}]
       \/ /\ Fails /\ vector' \in {vector, [vector EXCEPT ![c] = "torn"]}
          /\ wk' = [wk EXCEPT !.pc = "settle", !.todo = {}, !.ok = FALSE]
    /\ Quiet /\ UNCHANGED <<rows, extract, roadTiles, waterTiles, marked, layerVars>>

\* All roads of the planet: the old tiles go in the first transaction, progress
\* is committed along the way, and a failure undoes what followed the last commit.
ImportPlanet ==
    /\ wk.pc \in {"import", "planet"} /\ ~Focus(Job)
    /\ \/ /\ Works /\ wk' = [wk EXCEPT !.pc = "planet"]
          /\ roadTiles' \in {t \in SUBSET Cells : wk.pc = "planet" => roadTiles \subseteq t}
       \/ Works /\ roadTiles' = Cells /\ wk' = [wk EXCEPT !.pc = "settle", !.ok = TRUE]
       \/ Fails /\ UNCHANGED roadTiles /\ wk' = [wk EXCEPT !.pc = "settle", !.ok = FALSE]
    /\ IF wk'.pc = "planet" THEN Renoted ELSE UNCHANGED rows
    /\ Quiet /\ UNCHANGED <<extract, vector, waterTiles, marked, layerVars>>

--------------------------------------------------------------------------------
(* Importing water. *)

\* Cells already marked are skipped; the others come in one batch, or one by one
\* when the road imports left an extract of each.
PlanWater ==
    /\ wk.pc = "import" /\ Job \in WaterJobs
    /\ LET pending == CellsOf[Job] \ marked
       IN  \/ ToOverpass /\ Works
           \/ /\ Works
              /\ wk' = CASE pending = {} -> [wk EXCEPT !.pc = "settle", !.ok = TRUE]
                         [] \E c \in pending : extract[c] = "none" ->
                                [wk EXCEPT !.pc = "scan", !.todo = pending, !.unit = pending]
                         [] OTHER -> [wk EXCEPT !.pc = "scan", !.todo = pending]
    /\ IF wk'.pc = "settle" THEN UNCHANGED rows ELSE Renoted
    /\ Quiet /\ UNCHANGED <<extract, vector, roadTiles, waterTiles, marked, layerVars>>

\* mutant: the cells are marked before their features are stored
MarkedFirst(unit) ==
    /\ wk.pc = "scan"
    /\ IF wk.unit # {} THEN unit = wk.unit ELSE \E c \in wk.todo : unit = {c}
    /\ Works /\ marked' = marked \cup unit
    /\ wk' = [wk EXCEPT !.pc = "mark", !.unit = unit]
    /\ Quiet /\ UNCHANGED <<rows, extract, vector, roadTiles, waterTiles, layerVars>>

\* The features of a batch, or of one cached extract, in one transaction.
ScanWater(unit) ==
    /\ wk.pc = "scan"
    /\ IF wk.unit # {} THEN unit = wk.unit ELSE \E c \in wk.todo : unit = {c}
    /\ \/ /\ Works /\ (wk.unit # {} \/ \A c \in unit : extract[c] = "whole")
          /\ waterTiles' = waterTiles \cup unit
          /\ wk' = [wk EXCEPT !.pc = "mark", !.unit = unit]
       \/ /\ Fails \/ (Works /\ wk.unit = {} /\ \E c \in unit : extract[c] = "torn")
          /\ ToOverpass /\ UNCHANGED waterTiles
    /\ Quiet /\ UNCHANGED <<rows, extract, vector, roadTiles, marked, layerVars>>

\* Then the cells are marked one by one, and the unit is announced.
MarkCell(c) ==
    /\ wk.pc = "mark" /\ c \in wk.unit \cap wk.todo
    /\ \/ /\ Works /\ marked' = marked \cup {c}
          /\ LET left == wk.todo \ {c}
             IN  wk' = [wk EXCEPT !.todo = left, !.ok = (left = {}),
                          !.pc = IF left = {} THEN "settle"
                                 ELSE IF left \cap wk.unit = {} THEN "scan" ELSE "mark",
                          !.unit = IF left \cap @ = {} THEN {} ELSE @]
          /\ IF wk'.pc = "mark" THEN UNCHANGED current ELSE Bump("water")
       \/ Fails /\ ToOverpass /\ UNCHANGED <<marked, current>>
    /\ Quiet /\ UNCHANGED <<rows, extract, vector, roadTiles, waterTiles, cache, build>>

DownloadWater ==
    /\ wk.pc = "download" /\ Job \in WaterJobs
    /\ Renoted
    /\ \/ Works /\ waterTiles' = waterTiles \cup CellsOf[Job]
          /\ wk' = [wk EXCEPT !.pc = "settle", !.todo = {}, !.unit = {}, !.ok = TRUE]
       \/ Fails /\ UNCHANGED waterTiles
          /\ wk' = [wk EXCEPT !.pc = "settle", !.todo = {}, !.unit = {}, !.ok = FALSE]
    /\ Quiet /\ UNCHANGED <<extract, vector, roadTiles, marked, layerVars>>

--------------------------------------------------------------------------------
(* The outcome. *)

\* Whether or not the row could be written, an import that worked is announced.
RecordOutcome ==
    /\ wk.pc = "settle"
    /\ \/ /\ Works
          /\ rows' = [rows EXCEPT ![wk.row].state = IF wk.ok THEN "completed" ELSE "failed",
                                  ![wk.row].noted = FALSE]
       \/ Fails /\ UNCHANGED rows
    /\ wk' = IF wk.ok THEN [wk EXCEPT !.pc = "announce"] ELSE IdleWorker
    /\ Quiet /\ UNCHANGED <<extract, vector, roadTiles, waterTiles, marked, layerVars>>

\* mutant: layers are not told
Unannounced ==
    /\ Worker("announce", IdleWorker)
    /\ UNCHANGED <<flag, budgets>> /\ NotStored

AnnounceImport ==
    /\ Worker("announce", IdleWorker)
    /\ Bump(LayerOf(Job))
    /\ UNCHANGED <<stored, known, ask, flag, budgets, cache, build>>

Import ==
    \/ PlanRoads \/ DownloadRoads \/ ImportPlanet \/ PlanWater \/ DownloadWater
    \/ \E c \in Cells : ExtractCell(c) \/ BuildVector(c) \/ MergeCell(c) \/ MarkCell(c)
    \/ \E unit \in SUBSET Cells : ScanWater(unit)
    \/ RecordOutcome \/ AnnounceImport

--------------------------------------------------------------------------------

AskStep(a) == CountSame(a) \/ InsertRow(a) \/ PublishJob(a)
WorkerStep == EnsureStore \/ Fetch \/ Import
Draw == (DrawRoads \/ DrawWater) /\ UNCHANGED <<osmVars, budgets>>
LayerWork == /\ \/ \E k \in drawn : ReadCells(k, StoredFor(k))
                \/ PublishRoads \/ PublishWater
             /\ UNCHANGED <<osmVars, budgets>>
Panics == (\E k \in drawn : BuildPanics(k)) /\ Fails /\ UNCHANGED osmVars
User == /\ HideWater \/ ResetTerrain \/ \E k \in drawn : ViewMoves(k)
        /\ UNCHANGED <<osmVars, faulted, scene>>

Init == OsmInit /\ LayerInit
Next ==
    \/ \E a \in Askers : AskStep(a) \/ \E j \in Jobs : StartCheck(a, j)
    \/ WorkerStep \/ SpawnWorker \/ Draw \/ LayerWork \/ Panics \/ User \/ Crash
Spec == Init /\ [][Next]_vars

\* Threads run, frames are drawn while layers are shown; nobody has to ask.
Fairness ==
    /\ \A a \in Askers : WF_vars(AskStep(a))
    /\ WF_vars(WorkerStep) /\ WF_vars(SpawnWorker)
    /\ WF_vars(Draw) /\ WF_vars(LayerWork)
FairSpec == Spec /\ Fairness

--------------------------------------------------------------------------------

Row == [job : Jobs, state : {"queued", "running", "completed", "failed"}, noted : BOOLEAN]
Looking == {"off", "ensure", "lower", "query"}
Importing == {"import", "extract", "vector", "download", "merge", "planet", "scan", "mark",
              "settle", "announce"}
TableOK == rows \in Seq(Row) /\ Len(rows) <= MaxRows
StoreOK ==
    /\ extract \in [Cells -> {"none", "whole", "torn"}]
    /\ vector \in [Cells -> {"none", "whole", "torn"}]
    /\ roadTiles \subseteq Cells /\ waterTiles \subseteq Cells /\ marked \subseteq Cells
    /\ flag \in BOOLEAN /\ known \subseteq Jobs /\ faulted \in BOOLEAN
AskersOK ==
    ask \in [Askers -> [pc : {"idle", "count", "insert", "publish"}, job : Jobs \cup {Planet}]]
WorkerOK ==
    wk \in [pc : Looking \cup {"raise"} \cup Importing, row : Nat, todo : SUBSET Cells,
            unit : SUBSET Cells, ok : BOOLEAN]
TypeOK == LayerTypeOK /\ TableOK /\ StoreOK /\ AskersOK /\ WorkerOK

\* Which row the worker has, and what kind of job brought it where it is.
Shape ==
    /\ \A a \in Askers : ask[a].pc # "idle" => ask[a].job \in Jobs
    /\ wk.pc \in Looking => wk.row = 0
    /\ wk.pc = "raise" => wk.row \in {0} \cup DOMAIN rows
    /\ wk.pc \in Importing => wk.row \in DOMAIN rows
    /\ wk.pc \in {"scan", "mark"} => Job \in WaterJobs

\* A queued focus job is never overlooked: the hint is up, or the worker is about
\* to look at the table or to raise the hint again, or the asker is about to.
FlagCoversQueue ==
    (\E r \in Queued : Focus(rows[r].job)) =>
        flag \/ wk.pc \in {"query", "raise"} \/ \E a \in Askers : ask[a].pc = "publish"

\* A water cell said to be imported has its features in the store, over crashes too.
MarkedCellsHaveWater == marked \subseteq waterTiles

\* Unless a write failed, a running row is the worker's: a crash leaves none, and
\* no recovery fails the row of a job that is being imported.
RunningIsWorkedOn ==
    ~faulted => \A r \in DOMAIN rows : rows[r].state = "running" <=>
                      r = wk.row /\ wk.pc # "announce"

\* A completed focus road job leaves a file for each of its cells.
CompletedLeavesFiles ==
    \A r \in DOMAIN rows :
        rows[r].state = "completed" /\ Focus(rows[r].job) /\ rows[r].job \notin WaterJobs =>
            \A c \in CellsOf[rows[r].job] : vector[c] # "none"

\* What the import of the worker's row still has to do for the three to hold.
ImportShape ==
    /\ wk.pc = "mark" => wk.unit \subseteq waterTiles
    /\ wk.pc = "extract" => MissingVector \subseteq wk.unit
    /\ wk.pc \in {"vector", "merge"} => MissingVector \subseteq wk.todo
    /\ wk.pc = "settle" /\ wk.ok /\ Focus(Job) /\ Job \notin WaterJobs => MissingVector = {}

\* The queue's invariants together, with what makes them inductive: a queued row is
\* never overlooked, a mark never precedes its features, a running row is never
\* orphaned, a completed job never lacks a file and no road stands on old terrain,
\* whatever fails or crashes.
IInv ==
    /\ TypeOK /\ Shape /\ ImportShape /\ FlagCoversQueue
    /\ MarkedCellsHaveWater /\ RunningIsWorkedOn /\ CompletedLeavesFiles /\ RoadGround

\* The queue of focus jobs drains, whatever fails on the way.
QueuedFocusRuns == (\E r \in Queued : Focus(rows[r].job)) ~> ~(\E r \in Queued : Focus(rows[r].job))

\* After a road import was announced the map comes to show every readable cell.
CompletedRoadsAreDrawn ==
    ("roads" \in drawn /\ wk.pc = "announce" /\ LayerOf(Job) = "roads")
        ~> \A c \in Cells : vector[c] = "whole" => c \in cache["roads"].cells

\* "True while at least one job is in 'queued' or 'running' state.", once nothing
\* is in flight.
FlagWhileActive ==
    wk.pc = "off" /\ (\A a \in Askers : ask[a].pc = "idle") /\ ~faulted /\ Queued # {} => flag

=============================================================================
