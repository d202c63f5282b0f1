---------------------------- MODULE OsmJobsProofs ----------------------------
(***************************************************************************)
(* The safety of the OSM import queue, for every set of cells and jobs,    *)
(* whatever fails and wherever the process ends: no queued job overlooked, *)
(* no water cell marked before its features are stored, no running row     *)
(* without its worker, no completed road job without its files.            *)
(***************************************************************************)
EXTENDS OsmJobs, SequenceTheorems, TLAPS

-----------------------------------------------------------------------------
(* The job table as a function.                                            *)

\* A table whose rows were rewritten in place is a table of the same length.
LEMMA Rewritten ==
    ASSUME NEW table \in Seq(Row), NEW new \in [DOMAIN table -> Row]
    PROVE  /\ new \in Seq(Row) /\ Len(new) = Len(table)
           /\ DOMAIN new = DOMAIN table
<1>1. Len(table) \in Nat /\ DOMAIN table = 1 .. Len(table)
    BY LenProperties
<1>2. new \in [1 .. Len(table) -> Row]
    BY <1>1
<1>3. new \in Seq(Row)
    BY <1>1, <1>2, SeqDef
<1>4. Len(new) = Len(table)
    BY <1>1, <1>2, <1>3, LenProperties
<1> QED
    BY <1>2, <1>3, <1>4

\* An inserted row comes after the others, which stay as they are.
LEMMA Inserted ==
    ASSUME NEW table \in Seq(Row), NEW row \in Row
    PROVE  /\ Append(table, row) \in Seq(Row)
           /\ Len(Append(table, row)) = Len(table) + 1
           /\ DOMAIN Append(table, row) = DOMAIN table \cup {Len(table) + 1}
           /\ Len(table) + 1 \notin DOMAIN table
           /\ Append(table, row)[Len(table) + 1] = row
           /\ \A r \in DOMAIN table : Append(table, row)[r] = table[r]
<1>1. Len(table) \in Nat /\ DOMAIN table = 1 .. Len(table)
    BY LenProperties
<1>2. Append(table, row) \in Seq(Row) /\ Len(Append(table, row)) = Len(table) + 1
    BY AppendProperties
<1>3. /\ Append(table, row)[Len(table) + 1] = row
      /\ \A r \in 1 .. Len(table) : Append(table, row)[r] = table[r]
    BY AppendProperties
<1>4. DOMAIN Append(table, row) = 1 .. Len(table) + 1
    BY <1>2, LenProperties
<1>5. 1 .. Len(table) + 1 = (1 .. Len(table)) \cup {Len(table) + 1}
    BY <1>1
<1> QED
    BY <1>1, <1>2, <1>3, <1>4, <1>5

\* Start-up fails the running rows and touches no other.
LEMMA Recovery ==
    ASSUME NEW table \in Seq(Row)
    PROVE  /\ RecoverOrphans(table) \in Seq(Row)
           /\ Len(RecoverOrphans(table)) = Len(table)
           /\ DOMAIN RecoverOrphans(table) = DOMAIN table
           /\ \A r \in DOMAIN table :
                 /\ RecoverOrphans(table)[r].job = table[r].job
                 /\ RecoverOrphans(table)[r].state =
                       IF table[r].state = "running" THEN "failed" ELSE table[r].state
<1>1. \A r \in DOMAIN table : table[r] \in Row
    BY LenProperties, ElementOfSeq
<1>2. RecoverOrphans(table) \in [DOMAIN table -> Row]
    BY <1>1 DEF RecoverOrphans, Recovered, Row
<1>3. \A r \in DOMAIN table :
          /\ RecoverOrphans(table)[r].job = table[r].job
          /\ RecoverOrphans(table)[r].state =
                IF table[r].state = "running" THEN "failed" ELSE table[r].state
    BY <1>1 DEF RecoverOrphans, Recovered, Row
<1> QED
    BY <1>2, <1>3, Rewritten

-----------------------------------------------------------------------------
(* What the types say of the table and of the worker's row.                *)

\* Row numbers are the positive numbers up to the length; each row has a job.
LEMMA TableFacts ==
    ASSUME TableOK
    PROVE  /\ DOMAIN rows = 1 .. Len(rows) /\ Len(rows) \in Nat
           /\ \A r \in DOMAIN rows : r \in Nat \ {0} /\ rows[r] \in Row /\ rows[r].job \in Jobs
<1>1. DOMAIN rows = 1 .. Len(rows) /\ Len(rows) \in Nat
    BY LenProperties DEF TableOK
<1>2. \A r \in DOMAIN rows : r \in Nat \ {0} /\ rows[r] \in Row
    BY <1>1, ElementOfSeq DEF TableOK
<1> QED
    BY <1>1, <1>2 DEF Row

\* While it imports, the worker has a row, and the row's job is a known one.
LEMMA JobFacts ==
    ASSUME TableOK, Shape, wk.pc \in Importing
    PROVE  wk.row \in DOMAIN rows /\ Job \in Jobs /\ CellsOf[Job] \subseteq Cells
BY TableFacts, OsmAssumption DEF Shape, Job


-----------------------------------------------------------------------------
(* How each kind of step changes the table.                                *)

JobsKept == \A r \in DOMAIN rows : rows'[r].job = rows[r].job
RowsKept ==
    /\ DOMAIN rows' = DOMAIN rows /\ JobsKept
    /\ \A r \in DOMAIN rows : rows'[r].state = rows[r].state
States == {"queued", "running", "completed", "failed"}

\* A row that changes state in place.
LEMMA StateSet ==
    ASSUME TableOK, NEW r \in DOMAIN rows, NEW s \in States,
           \/ rows' = [rows EXCEPT ![r].state = s]
           \/ rows' = [rows EXCEPT ![r].state = s, ![r].noted = FALSE]
    PROVE  /\ TableOK' /\ DOMAIN rows' = DOMAIN rows /\ JobsKept
           /\ rows'[r].state = s
           /\ \A q \in DOMAIN rows \ {r} : rows'[q].state = rows[q].state
<1>1. \A q \in DOMAIN rows : rows[q] \in Row
    BY TableFacts
<1>2. rows' \in [DOMAIN rows -> Row]
    BY <1>1 DEF Row, States
<1>3. rows' \in Seq(Row) /\ Len(rows') = Len(rows) /\ DOMAIN rows' = DOMAIN rows
    BY <1>2, Rewritten DEF TableOK
<1>4. rows'[r].state = s /\ rows'[r].job = rows[r].job
    BY <1>1 DEF Row
<1>5. \A q \in DOMAIN rows \ {r} : rows'[q] = rows[q]
    BY <1>1
<1> QED
    BY <1>3, <1>4, <1>5 DEF TableOK, JobsKept

\* A new note changes neither job nor state.
LEMMA RenotedRows ==
    ASSUME TableOK, wk.row \in DOMAIN rows, Renoted
    PROVE  TableOK' /\ RowsKept
<1>1. \A q \in DOMAIN rows : rows[q] \in Row
    BY TableFacts
<1>2. rows' \in [DOMAIN rows -> Row]
    BY <1>1 DEF Row, Renoted
<1>3. rows' \in Seq(Row) /\ Len(rows') = Len(rows) /\ DOMAIN rows' = DOMAIN rows
    BY <1>2, Rewritten DEF TableOK
<1>4. \A q \in DOMAIN rows : rows'[q].state = rows[q].state /\ rows'[q].job = rows[q].job
    BY <1>1 DEF Renoted, Row
<1> QED
    BY <1>3, <1>4 DEF TableOK, RowsKept, JobsKept

\* An import rewrites at most the note of its row until it records the outcome.
LEMMA ImportRows ==
    ASSUME IInv, Import, ~RecordOutcome
    PROVE  TableOK' /\ RowsKept /\ wk.pc \in Importing
<1>1. wk.pc \in Importing /\ (UNCHANGED rows \/ Renoted)
    BY DEF Import, PlanRoads, DownloadRoads, ImportPlanet, PlanWater, DownloadWater,
           ExtractCell, BuildVector, MergeCell, MarkCell, ScanWater, AnnounceImport,
           Worker, NotStored, stored, Importing
<1>2. CASE UNCHANGED rows
    BY <1>1, <1>2 DEF IInv, TypeOK, TableOK, RowsKept, JobsKept
<1>3. CASE Renoted
    BY <1>1, <1>3, RenotedRows DEF IInv, TypeOK, Shape
<1> QED
    BY <1>1, <1>2, <1>3

\* Drawing, publishing and moving about is no business of the queue's.
LEMMA LayersOnly ==
    ASSUME Draw \/ LayerWork \/ Panics \/ User
    PROVE  UNCHANGED osmVars /\ faulted' \in {faulted, TRUE}
BY DEF Draw, LayerWork, Panics, User, Fails, budgets

\* Whoever asks leaves the worker and what it imports alone.
LEMMA AskingOnly ==
    ASSUME NEW a \in Askers, AskStep(a) \/ \E j \in Jobs : StartCheck(a, j)
    PROVE  /\ UNCHANGED <<extract, vector, roadTiles, waterTiles, marked, wk, layerVars>>
           /\ (faulted' = faulted \/ faulted' = TRUE)
           /\ UNCHANGED rows \/ InsertRow(a)
BY DEF AskStep, CountSame, InsertRow, PublishJob, StartCheck, stored, budgets, Works, Fails

\* The table after an insert: the old rows, and perhaps one queued row behind them.
LEMMA InsertedRows ==
    ASSUME IInv, NEW a \in Askers, InsertRow(a)
    PROVE  /\ TableOK' /\ DOMAIN rows \subseteq DOMAIN rows' /\ JobsKept
           /\ \A r \in DOMAIN rows : rows'[r].state = rows[r].state
           /\ \A r \in DOMAIN rows' \ DOMAIN rows :
                 rows'[r].state = "queued" /\ rows'[r].job = ask[a].job
<1> DEFINE new == [job |-> ask[a].job, state |-> "queued", noted |-> TRUE]
<1>1. new \in Row
    BY DEF IInv, Shape, InsertRow, Row
<1>2. CASE UNCHANGED rows
    BY <1>2 DEF IInv, TypeOK, TableOK, JobsKept
<1>3. CASE Len(rows) < MaxRows /\ rows' = Append(rows, new)
    <2>1. rows \in Seq(Row) /\ Len(rows) \in Nat
        BY TableFacts DEF IInv, TypeOK, TableOK
    <2>2. TableOK'
        BY <1>1, <1>3, <2>1, Inserted, OsmAssumption DEF TableOK
    <2>3. /\ DOMAIN rows' = DOMAIN rows \cup {Len(rows) + 1}
          /\ rows'[Len(rows) + 1] = new
          /\ \A r \in DOMAIN rows : rows'[r] = rows[r]
        BY <1>1, <1>3, <2>1, Inserted
    <2> QED
        BY <2>2, <2>3 DEF JobsKept
<1> QED
    BY <1>2, <1>3 DEF InsertRow

\* A row is taken: it was queued and is running, the others stay.
LEMMA FetchedRows ==
    ASSUME IInv, FetchNextJob
    PROVE  /\ TableOK' /\ DOMAIN rows' = DOMAIN rows /\ JobsKept
           /\ \/ wk' = IdleWorker /\ Queued = {} /\ UNCHANGED <<rows, faulted>>
              \/ /\ wk' = [wk EXCEPT !.pc = "raise", !.row = wk'.row]
                 /\ wk'.row \in Queued /\ rows'[wk'.row].state = "running"
                 /\ UNCHANGED faulted
                 /\ \A r \in DOMAIN rows \ {wk'.row} : rows'[r].state = rows[r].state
              \/ /\ wk' = [wk EXCEPT !.pc = "raise"]
                 /\ UNCHANGED rows /\ faulted' = TRUE
<1>1. CASE Queued = {} /\ Works /\ Worker("query", IdleWorker) /\ UNCHANGED rows
    BY <1>1 DEF IInv, TypeOK, TableOK, JobsKept, Worker, Works, budgets
<1>2. ASSUME NEW r \in Queued, Works, Worker("query", [wk EXCEPT !.pc = "raise", !.row = r]),
             rows' = [rows EXCEPT ![r].state = "running"]
      PROVE  /\ TableOK' /\ DOMAIN rows' = DOMAIN rows /\ JobsKept
             /\ wk' = [wk EXCEPT !.pc = "raise", !.row = wk'.row]
             /\ wk'.row \in Queued /\ rows'[wk'.row].state = "running"
             /\ UNCHANGED faulted
             /\ \A q \in DOMAIN rows \ {wk'.row} : rows'[q].state = rows[q].state
    <2>1. wk' = [wk EXCEPT !.pc = "raise", !.row = r] /\ wk'.row = r
        BY <1>2 DEF Worker, IInv, TypeOK, WorkerOK
    <2>2. r \in DOMAIN rows
        BY DEF Queued
    <2> QED
        BY <1>2, <2>1, <2>2, StateSet DEF States, IInv, TypeOK, Works, budgets
<1>3. CASE Fails /\ Worker("query", [wk EXCEPT !.pc = "raise"]) /\ UNCHANGED rows
    BY <1>3 DEF IInv, TypeOK, TableOK, JobsKept, Worker, Fails
<1> QED
    BY <1>1, <1>2, <1>3 DEF FetchNextJob

\* The outcome is written, or not.
LEMMA OutcomeRows ==
    ASSUME IInv, RecordOutcome
    PROVE  /\ TableOK' /\ DOMAIN rows' = DOMAIN rows /\ JobsKept
           /\ wk.row \in DOMAIN rows
           /\ \/ /\ UNCHANGED faulted
                 /\ wk.ok => rows'[wk.row].state = "completed"
                 /\ ~wk.ok => rows'[wk.row].state = "failed"
                 /\ \A r \in DOMAIN rows \ {wk.row} : rows'[r].state = rows[r].state
              \/ UNCHANGED rows /\ faulted' = TRUE
<1>1. wk.row \in DOMAIN rows
    BY DEF IInv, Shape, RecordOutcome, Importing
<1>2. CASE Fails /\ UNCHANGED rows
    BY <1>1, <1>2 DEF IInv, TypeOK, TableOK, JobsKept, Fails
<1>3. ASSUME NEW s \in {"completed", "failed"}, Works, s = (IF wk.ok THEN "completed" ELSE "failed"),
             rows' = [rows EXCEPT ![wk.row].state = s, ![wk.row].noted = FALSE]
      PROVE  /\ TableOK' /\ DOMAIN rows' = DOMAIN rows /\ JobsKept
             /\ UNCHANGED faulted
             /\ wk.ok => rows'[wk.row].state = "completed"
             /\ ~wk.ok => rows'[wk.row].state = "failed"
             /\ \A r \in DOMAIN rows \ {wk.row} : rows'[r].state = rows[r].state
    <2>1. s \in States
        BY DEF States
    <2>2. rows' = [rows EXCEPT ![wk.row].state = s, ![wk.row].noted = FALSE]
        BY <1>3
    <2>3. /\ TableOK' /\ DOMAIN rows' = DOMAIN rows /\ JobsKept
          /\ rows'[wk.row].state = s
          /\ \A q \in DOMAIN rows \ {wk.row} : rows'[q].state = rows[q].state
        BY <1>1, <2>1, <2>2, StateSet DEF IInv, TypeOK
    <2> QED
        BY <1>3, <2>3 DEF Works, budgets
<1> QED
    BY <1>1, <1>2, <1>3 DEF RecordOutcome

\* Start-up and the worker's opening of the store fail what was left running.
LEMMA OrphanRows ==
    ASSUME IInv, rows' = RecoverOrphans(rows)
    PROVE  /\ TableOK' /\ DOMAIN rows' = DOMAIN rows /\ JobsKept
           /\ \A r \in DOMAIN rows :
                 rows'[r].state = IF rows[r].state = "running" THEN "failed" ELSE rows[r].state
BY Recovery DEF IInv, TypeOK, TableOK, JobsKept


-----------------------------------------------------------------------------
(* The types.                                                              *)

\* The table only grows, and a row never turns into another job.
LEMMA TableStep ==
    ASSUME IInv, [Next]_vars
    PROVE  TableOK' /\ DOMAIN rows \subseteq DOMAIN rows' /\ JobsKept
<1>1. CASE UNCHANGED rows
    BY <1>1 DEF IInv, TypeOK, TableOK, JobsKept
<1>2. ASSUME NEW a \in Askers, AskStep(a) \/ \E j \in Jobs : StartCheck(a, j)
      PROVE  TableOK' /\ DOMAIN rows \subseteq DOMAIN rows' /\ JobsKept
    BY <1>1, <1>2, AskingOnly, InsertedRows
<1>3. CASE EnsureStore \/ Crash
    BY <1>1, <1>3, OrphanRows DEF EnsureStore, Crash
<1>4. CASE Fetch
    BY <1>1, <1>4, FetchedRows DEF Fetch, LowerFlag, RaiseFlag, NotStored, stored
<1>5. CASE Import
    BY <1>5, ImportRows, OutcomeRows DEF RowsKept
<1>6. CASE SpawnWorker
    BY <1>1, <1>6 DEF SpawnWorker, stored
<1>7. CASE Draw \/ LayerWork \/ Panics \/ User \/ UNCHANGED vars
    BY <1>1, <1>7, LayersOnly DEF osmVars, stored, vars
<1> QED
    BY <1>2, <1>3, <1>4, <1>5, <1>6, <1>7 DEF Next, WorkerStep

\* Cell files, tile tables, the hint and the remembered notes.
LEMMA StoreStep ==
    ASSUME IInv, [Next]_vars
    PROVE  StoreOK'
<1> USE JobFacts DEF IInv, TypeOK, StoreOK
<1>1. ASSUME NEW a \in Askers, AskStep(a) \/ \E j \in Jobs : StartCheck(a, j)
      PROVE  StoreOK'
    <2>1. flag' \in BOOLEAN
        BY <1>1 DEF AskStep, StartCheck, CountSame, InsertRow, PublishJob
    <2>2. known' \subseteq Jobs
        BY <1>1 DEF AskStep, StartCheck, CountSame, InsertRow, PublishJob, Shape
    <2> QED
        BY <1>1, <2>1, <2>2, AskingOnly
<1>2. CASE EnsureStore \/ Fetch \/ SpawnWorker
    BY <1>2 DEF EnsureStore, Fetch, LowerFlag, FetchNextJob, RaiseFlag, SpawnWorker,
       NotStored, stored, budgets, Works, Fails
<1>3. CASE Import
    <2>1. UNCHANGED <<flag, known>> /\ (faulted' = faulted \/ faulted' = TRUE)
        BY <1>3 DEF Import, PlanRoads, ExtractCell, BuildVector, DownloadRoads, MergeCell,
           ImportPlanet, PlanWater, ScanWater, MarkCell, DownloadWater, RecordOutcome,
           AnnounceImport, Quiet, NotStored, Works, Fails, budgets
    <2>2. extract' \in [Cells -> {"none", "whole", "torn"}]
        BY <1>3 DEF Import, PlanRoads, ExtractCell, BuildVector, DownloadRoads, MergeCell,
           ImportPlanet, PlanWater, ScanWater, MarkCell, DownloadWater, RecordOutcome,
           AnnounceImport, stored
    <2>3. vector' \in [Cells -> {"none", "whole", "torn"}]
        BY <1>3 DEF Import, PlanRoads, ExtractCell, BuildVector, DownloadRoads, MergeCell,
           ImportPlanet, PlanWater, ScanWater, MarkCell, DownloadWater, RecordOutcome,
           AnnounceImport, stored
    <2>4. roadTiles' \subseteq Cells
        BY <1>3 DEF Import, PlanRoads, ExtractCell, BuildVector, DownloadRoads, MergeCell,
           ImportPlanet, PlanWater, ScanWater, MarkCell, DownloadWater, RecordOutcome,
           AnnounceImport, stored, Importing
    <2>5. waterTiles' \subseteq Cells /\ marked' \subseteq Cells
        BY <1>3 DEF Import, PlanRoads, ExtractCell, BuildVector, DownloadRoads, MergeCell,
           ImportPlanet, PlanWater, ScanWater, MarkCell, DownloadWater, RecordOutcome,
           AnnounceImport, stored, Importing
    <2> QED
        BY <2>1, <2>2, <2>3, <2>4, <2>5
<1>4. CASE Crash
    <2>1. flag' \in BOOLEAN /\ known' \subseteq Jobs
        <3>1. \A r \in DOMAIN rows' : rows'[r].job \in Jobs
            BY <1>4, OrphanRows, TableFacts DEF Crash, JobsKept
        <3> QED
            BY <1>4, <3>1 DEF Crash, Active, NotesOf
    <2>2. /\ extract' \in [Cells -> {"none", "whole", "torn"}]
          /\ vector' \in [Cells -> {"none", "whole", "torn"}]
        BY <1>4 DEF Crash
    <2> QED
        BY <1>4, <2>1, <2>2 DEF Crash
<1>5. CASE Draw \/ LayerWork \/ Panics \/ User
    BY <1>5, LayersOnly DEF osmVars, stored
<1>6. CASE UNCHANGED vars
    BY <1>6 DEF vars, osmVars, stored, budgets
<1> QED
    BY <1>1, <1>2, <1>3, <1>4, <1>5, <1>6 DEF Next, WorkerStep

\* The threads that ask.
LEMMA AskersStep ==
    ASSUME IInv, [Next]_vars
    PROVE  AskersOK' /\ \A a \in Askers : ask'[a].pc # "idle" => ask'[a].job \in Jobs
<1> USE DEF IInv, TypeOK, AskersOK, Shape, IdleAsker
<1>1. ASSUME NEW a \in Askers, NEW j \in Jobs, StartCheck(a, j)
      PROVE  AskersOK' /\ \A b \in Askers : ask'[b].pc # "idle" => ask'[b].job \in Jobs
    BY <1>1 DEF StartCheck
<1>2. ASSUME NEW a \in Askers, AskStep(a)
      PROVE  AskersOK' /\ \A b \in Askers : ask'[b].pc # "idle" => ask'[b].job \in Jobs
    <2>1. CASE UNCHANGED ask
        BY <2>1
    <2>2. CASE ask' = [ask EXCEPT ![a] = IdleAsker]
        BY <2>2
    <2>3. CASE ask[a].pc # "idle" /\ ask' = [ask EXCEPT ![a].pc = "insert"]
        BY <2>3
    <2>4. CASE ask[a].pc # "idle" /\ ask' = [ask EXCEPT ![a].pc = "publish"]
        BY <2>4
    <2> QED
        BY <1>2, <2>1, <2>2, <2>3, <2>4 DEF AskStep, CountSame, InsertRow, PublishJob
<1>3. CASE Crash
    BY <1>3 DEF Crash
<1>4. CASE UNCHANGED ask
    BY <1>4
<1>5. CASE WorkerStep \/ SpawnWorker
    BY <1>4, <1>5 DEF WorkerStep, EnsureStore, Fetch, LowerFlag, FetchNextJob, RaiseFlag,
       SpawnWorker, Import, PlanRoads, ExtractCell, BuildVector, DownloadRoads, MergeCell,
       ImportPlanet, PlanWater, ScanWater, MarkCell, DownloadWater, RecordOutcome,
       AnnounceImport, Quiet, NotStored
<1>6. CASE Draw \/ LayerWork \/ Panics \/ User \/ UNCHANGED vars
    BY <1>4, <1>6, LayersOnly DEF osmVars, vars
<1> QED
    BY <1>1, <1>2, <1>3, <1>5, <1>6 DEF Next

\* The worker has a row exactly while it imports, and water is imported by water jobs.
WorkerShape ==
    /\ wk.pc \in Looking => wk.row = 0
    /\ wk.pc = "raise" => wk.row \in {0} \cup DOMAIN rows
    /\ wk.pc \in Importing => wk.row \in DOMAIN rows
    /\ wk.pc \in {"scan", "mark"} => Job \in WaterJobs

\* A worker that keeps its row goes on importing it.
Onwards ==
    /\ WorkerOK' /\ wk'.row = wk.row /\ wk'.pc \in Importing
    /\ wk'.pc \in {"scan", "mark"} => Job \in WaterJobs

\* An import step that keeps its row keeps the worker's type and shape.
LEMMA SameRow ==
    ASSUME IInv, [Next]_vars, wk.pc \in Importing, Onwards
    PROVE  WorkerOK' /\ WorkerShape'
<1>1. wk.row \in DOMAIN rows /\ wk'.row \in DOMAIN rows' /\ Job' = Job
    BY TableStep DEF IInv, Shape, JobsKept, Job, Onwards
<1>2. wk'.pc \notin Looking /\ wk'.pc # "raise"
    BY DEF Looking, Importing, Onwards
<1> QED
    BY <1>1, <1>2 DEF WorkerShape, Onwards

\* Steps of others leave the worker's type and shape as they are.
LEMMA WorkerStays ==
    ASSUME IInv, [Next]_vars, UNCHANGED wk
    PROVE  WorkerOK' /\ WorkerShape'
<1>1. wk.pc \in Importing => Job' = Job
    BY TableStep DEF IInv, Shape, JobsKept, Job
<1> QED
    BY <1>1, TableStep DEF IInv, TypeOK, WorkerOK, WorkerShape, Shape, Importing

\* A worker that ends has no row, and its shape is trivial.
LEMMA WorkerLeaves ==
    ASSUME wk' = IdleWorker
    PROVE  WorkerOK' /\ WorkerShape'
BY DEF IdleWorker, WorkerOK, WorkerShape, Looking, Importing

\* One import step: what the worker does next.
LEMMA ImportWorker ==
    ASSUME IInv, [Next]_vars, Import
    PROVE  WorkerOK' /\ WorkerShape'
<1> USE JobFacts DEF IInv, TypeOK
<1> DEFINE Pending == CellsOf[Job] \ marked
<1>1. ASSUME PlanRoads PROVE wk.pc \in Importing /\ Onwards
    <2>1. wk.pc \in Importing
        BY <1>1 DEF PlanRoads, Importing
    <2>2. CASE wk' = [wk EXCEPT !.pc = "download"]
        BY <2>1, <2>2 DEF Importing, WorkerOK, Onwards
    <2>3. CASE wk' = [wk EXCEPT !.pc = "settle", !.ok = TRUE]
        BY <2>1, <2>3 DEF Importing, WorkerOK, Onwards
    <2>4. CASE wk' = [wk EXCEPT !.pc = "extract", !.todo = MissingExtract, !.unit = MissingVector]
        BY <2>1, <2>4 DEF Importing, WorkerOK, Onwards, MissingExtract, MissingVector
    <2>5. CASE wk' = [wk EXCEPT !.pc = "vector", !.todo = MissingVector]
        BY <2>1, <2>5 DEF Importing, WorkerOK, Onwards, MissingVector
    <2> QED
        BY <1>1, <2>2, <2>3, <2>4, <2>5 DEF PlanRoads, ToOverpass
<1>2. ASSUME NEW c \in Cells, ExtractCell(c) PROVE wk.pc \in Importing /\ Onwards
    <2>1. wk.pc \in Importing \ {"scan", "mark"}
        BY <1>2 DEF ExtractCell, Importing
    <2>2. CASE wk' = [wk EXCEPT !.pc = "vector", !.todo = wk.unit, !.unit = {}]
        BY <2>1, <2>2 DEF Importing, WorkerOK, Onwards
    <2>3. CASE wk' = [wk EXCEPT !.todo = @ \ {c}]
        BY <2>1, <2>3 DEF Importing, WorkerOK, Onwards
    <2>4. CASE wk' = [wk EXCEPT !.pc = "download"]
        BY <2>1, <2>4 DEF Importing, WorkerOK, Onwards
    <2> QED
        BY <1>2, <2>2, <2>3, <2>4 DEF ExtractCell, ToOverpass
<1>3. ASSUME NEW c \in Cells, BuildVector(c) PROVE wk.pc \in Importing /\ Onwards
    <2>1. wk.pc \in Importing \ {"scan", "mark"}
        BY <1>3 DEF BuildVector, Importing
    <2>2. CASE wk' = [wk EXCEPT !.pc = "settle", !.todo = {}, !.ok = TRUE]
        BY <2>1, <2>2 DEF Importing, WorkerOK, Onwards
    <2>3. CASE wk' = [wk EXCEPT !.todo = @ \ {c}]
        BY <2>1, <2>3 DEF Importing, WorkerOK, Onwards
    <2>4. CASE wk' = [wk EXCEPT !.pc = "download"]
        BY <2>1, <2>4 DEF Importing, WorkerOK, Onwards
    <2> QED
        BY <1>3, <2>2, <2>3, <2>4 DEF BuildVector, ToOverpass
<1>4. ASSUME NEW c \in Cells, MergeCell(c) PROVE wk.pc \in Importing /\ Onwards
    <2>1. wk.pc \in Importing \ {"scan", "mark"}
        BY <1>4 DEF MergeCell, Importing
    <2>2. CASE wk' = [wk EXCEPT !.pc = "settle", !.todo = {}, !.ok = TRUE]
        BY <2>1, <2>2 DEF Importing, WorkerOK, Onwards
    <2>3. CASE wk' = [wk EXCEPT !.todo = @ \ {c}]
        BY <2>1, <2>3 DEF Importing, WorkerOK, Onwards
    <2>4. CASE wk' = [wk EXCEPT !.pc = "settle", !.todo = {}, !.ok = FALSE]
        BY <2>1, <2>4 DEF Importing, WorkerOK, Onwards
    <2> QED
        BY <1>4, <2>2, <2>3, <2>4 DEF MergeCell
<1>5. ASSUME DownloadRoads PROVE wk.pc \in Importing /\ Onwards
    <2>1. wk.pc \in Importing
        BY <1>5 DEF DownloadRoads, Importing
    <2>2. CASE wk' = [wk EXCEPT !.pc = "merge", !.todo = CellsOf[Job]]
        BY <2>1, <2>2 DEF Importing, WorkerOK, Onwards
    <2>3. CASE wk' = [wk EXCEPT !.pc = "settle", !.todo = {}, !.ok = FALSE]
        BY <2>1, <2>3 DEF Importing, WorkerOK, Onwards
    <2> QED
        BY <1>5, <2>2, <2>3 DEF DownloadRoads
<1>6. ASSUME ImportPlanet PROVE wk.pc \in Importing /\ Onwards
    <2>1. wk.pc \in Importing
        BY <1>6 DEF ImportPlanet, Importing
    <2>2. CASE wk' = [wk EXCEPT !.pc = "planet"]
        BY <2>1, <2>2 DEF Importing, WorkerOK, Onwards
    <2>3. CASE wk' = [wk EXCEPT !.pc = "settle", !.ok = TRUE]
        BY <2>1, <2>3 DEF Importing, WorkerOK, Onwards
    <2>4. CASE wk' = [wk EXCEPT !.pc = "settle", !.ok = FALSE]
        BY <2>1, <2>4 DEF Importing, WorkerOK, Onwards
    <2> QED
        BY <1>6, <2>2, <2>3, <2>4 DEF ImportPlanet
<1>7. ASSUME PlanWater PROVE wk.pc \in Importing /\ Onwards
    <2>1. wk.pc \in Importing /\ Job \in WaterJobs
        BY <1>7 DEF PlanWater, Importing
    <2>2. CASE wk' = [wk EXCEPT !.pc = "download"]
        BY <2>1, <2>2 DEF Importing, WorkerOK, Onwards
    <2>3. CASE wk' = [wk EXCEPT !.pc = "settle", !.ok = TRUE]
        BY <2>1, <2>3 DEF Importing, WorkerOK, Onwards
    <2>4. CASE wk' = [wk EXCEPT !.pc = "scan", !.todo = Pending, !.unit = Pending]
        BY <2>1, <2>4 DEF Importing, WorkerOK, Onwards
    <2>5. CASE wk' = [wk EXCEPT !.pc = "scan", !.todo = Pending]
        BY <2>1, <2>5 DEF Importing, WorkerOK, Onwards
    <2> QED
        BY <1>7, <2>2, <2>3, <2>4, <2>5 DEF PlanWater, ToOverpass
<1>8. ASSUME NEW unit \in SUBSET Cells, ScanWater(unit) PROVE wk.pc \in Importing /\ Onwards
    <2>1. wk.pc \in Importing /\ Job \in WaterJobs
        BY <1>8 DEF ScanWater, Importing, Shape
    <2>2. CASE wk' = [wk EXCEPT !.pc = "mark", !.unit = unit]
        BY <2>1, <2>2 DEF Importing, WorkerOK, Onwards
    <2>3. CASE wk' = [wk EXCEPT !.pc = "download"]
        BY <2>1, <2>3 DEF Importing, WorkerOK, Onwards
    <2> QED
        BY <1>8, <2>2, <2>3 DEF ScanWater, ToOverpass
<1>9. ASSUME NEW c \in Cells, MarkCell(c) PROVE wk.pc \in Importing /\ Onwards
    <2>1. wk.pc \in Importing /\ Job \in WaterJobs
        BY <1>9 DEF MarkCell, Importing, Shape
    <2>2. CASE wk' = [wk EXCEPT !.pc = "download"]
        BY <2>1, <2>2 DEF Importing, WorkerOK, Onwards
    <2>3. ASSUME NEW left \in SUBSET Cells,
                 wk' = [wk EXCEPT !.todo = left, !.ok = (left = {}),
                          !.pc = IF left = {} THEN "settle"
                                 ELSE IF left \cap wk.unit = {} THEN "scan" ELSE "mark",
                          !.unit = IF left \cap @ = {} THEN {} ELSE @]
          PROVE  wk.pc \in Importing /\ Onwards
        <3>1. wk'.ok \in BOOLEAN /\ wk'.row = wk.row /\ wk'.pc \in {"settle", "scan", "mark"}
            BY <2>3 DEF WorkerOK
        <3>2. wk'.todo \in SUBSET Cells /\ wk'.unit \in SUBSET Cells
            BY <2>3 DEF WorkerOK
        <3>3. DOMAIN wk' = {"pc", "row", "todo", "unit", "ok"}
            BY <2>3 DEF WorkerOK
        <3> QED
            BY <2>1, <2>3, <3>1, <3>2, <3>3 DEF WorkerOK, Onwards, Importing
    <2>4. wk.todo \ {c} \in SUBSET Cells
        BY DEF WorkerOK
    <2> QED
        BY <1>9, <2>2, <2>3, <2>4 DEF MarkCell, ToOverpass
<1>10. ASSUME DownloadWater PROVE wk.pc \in Importing /\ Onwards
    <2>1. wk.pc \in Importing
        BY <1>10 DEF DownloadWater, Importing
    <2>2. CASE wk' = [wk EXCEPT !.pc = "settle", !.todo = {}, !.unit = {}, !.ok = TRUE]
        BY <2>1, <2>2 DEF Importing, WorkerOK, Onwards
    <2>3. CASE wk' = [wk EXCEPT !.pc = "settle", !.todo = {}, !.unit = {}, !.ok = FALSE]
        BY <2>1, <2>3 DEF Importing, WorkerOK, Onwards
    <2> QED
        BY <1>10, <2>2, <2>3 DEF DownloadWater
<1>11. CASE RecordOutcome
    <2>1. wk.pc \in Importing
        BY <1>11 DEF RecordOutcome, Importing
    <2>2. CASE wk' = IdleWorker
        BY <2>2, WorkerLeaves
    <2>3. CASE wk' = [wk EXCEPT !.pc = "announce"]
        BY <2>1, <2>3, SameRow DEF Importing, WorkerOK, Onwards
    <2> QED
        BY <1>11, <2>2, <2>3 DEF RecordOutcome
<1>12. CASE AnnounceImport
    BY <1>12, WorkerLeaves DEF AnnounceImport, Worker
<1> QED
    BY <1>1, <1>2, <1>3, <1>4, <1>5, <1>6, <1>7, <1>8, <1>9, <1>10, <1>11, <1>12, SameRow DEF Import

\* The worker's place and row.
LEMMA WorkerStepOK ==
    ASSUME IInv, [Next]_vars
    PROVE  WorkerOK' /\ WorkerShape'
<1> USE DEF IInv, TypeOK
<1>1. CASE Import
    BY <1>1, ImportWorker
<1>2. CASE wk' = IdleWorker
    BY <1>2, WorkerLeaves
<1>3. CASE UNCHANGED wk
    BY <1>3, WorkerStays
<1>4. CASE SpawnWorker
    BY <1>4 DEF SpawnWorker, Worker, IdleWorker, WorkerOK, WorkerShape, Looking, Importing
<1>5. CASE EnsureStore
    <2>1. CASE wk.pc = "ensure" /\ wk' = [wk EXCEPT !.pc = "lower"]
        BY <2>1 DEF Shape, WorkerOK, WorkerShape, Looking, Importing
    <2> QED
        BY <1>2, <1>5, <2>1 DEF EnsureStore, Worker
<1>6. CASE LowerFlag
    BY <1>6 DEF LowerFlag, Worker, Shape, WorkerOK, WorkerShape, Looking, Importing
<1>7. CASE FetchNextJob
    <2>1. wk.pc = "query" /\ wk.row = 0
        BY <1>7 DEF FetchNextJob, Worker, Shape, Looking
    <2>2. ASSUME NEW r \in Queued, wk' = [wk EXCEPT !.pc = "raise", !.row = r]
          PROVE  WorkerOK' /\ WorkerShape'
        BY <1>7, <2>2, TableFacts, FetchedRows
           DEF Queued, WorkerOK, WorkerShape, Looking, Importing
    <2>3. CASE wk' = [wk EXCEPT !.pc = "raise"]
        BY <2>1, <2>3 DEF WorkerOK, WorkerShape, Looking, Importing
    <2> QED
        BY <1>2, <1>7, <2>2, <2>3 DEF FetchNextJob, Worker
<1>8. CASE RaiseFlag
    <2>1. CASE wk.row # 0 /\ wk.pc = "raise" /\ wk' = [wk EXCEPT !.pc = "import"]
        BY <1>8, <2>1 DEF RaiseFlag, NotStored, stored, Shape, WorkerOK, WorkerShape, Looking,
           Importing
    <2> QED
        BY <1>2, <1>8, <2>1 DEF RaiseFlag, Worker
<1>9. CASE Crash
    BY <1>2, <1>9 DEF Crash
<1>10. ASSUME NEW a \in Askers, AskStep(a) \/ \E j \in Jobs : StartCheck(a, j)
       PROVE  WorkerOK' /\ WorkerShape'
    BY <1>3, <1>10, AskingOnly
<1>11. CASE Draw \/ LayerWork \/ Panics \/ User \/ UNCHANGED vars
    BY <1>3, <1>11, LayersOnly DEF osmVars, vars
<1> QED
    BY <1>1, <1>4, <1>5, <1>6, <1>7, <1>8, <1>9, <1>10, <1>11 DEF Next, WorkerStep, Fetch

\* The layers: what is cached, built and stamped.
LEMMA LayerStep ==
    ASSUME IInv, [Next]_vars
    PROVE  LayerTypeOK' /\ RoadGround'
<1> USE LayerAssumption DEF IInv, TypeOK, LayerTypeOK, RoadGround, MapLayers, NoCache, NoBuild
<1>1. CASE UNCHANGED layerVars /\ scene' = scene /\ trouble' \in 0 .. scene.budget
    BY <1>1 DEF layerVars
<1>2. scene.budget \in Nat /\ (Disturb => trouble' \in 0 .. scene.budget)
    BY DEF Disturb
<1>3. ASSUME NEW a \in Askers, AskStep(a) \/ \E j \in Jobs : StartCheck(a, j)
      PROVE  LayerTypeOK' /\ RoadGround'
    <2>1. UNCHANGED layerVars
        BY <1>3, AskingOnly
    <2>2. scene' = scene /\ trouble' \in 0 .. scene.budget
        BY <1>2, <1>3 DEF AskStep, CountSame, InsertRow, PublishJob, StartCheck, Works, Fails, budgets
    <2> QED
        BY <1>1, <2>1, <2>2
<1>4. CASE EnsureStore \/ Fetch \/ SpawnWorker
    <2>1. UNCHANGED layerVars
        BY <1>4 DEF EnsureStore, Fetch, LowerFlag, FetchNextJob, RaiseFlag, SpawnWorker, NotStored
    <2>2. scene' = scene /\ trouble' \in 0 .. scene.budget
        BY <1>2, <1>4 DEF EnsureStore, Fetch, LowerFlag, FetchNextJob, RaiseFlag, SpawnWorker,
           Works, Fails, budgets
    <2> QED
        BY <1>1, <2>1, <2>2
<1>5. CASE Import
    <2>1. UNCHANGED <<cache, build>> /\ (UNCHANGED current \/ \E k \in MapLayers : Bump(k))
        BY <1>5 DEF Import, PlanRoads, ExtractCell, BuildVector, DownloadRoads, MergeCell,
           ImportPlanet, PlanWater, ScanWater, MarkCell, DownloadWater, RecordOutcome,
           AnnounceImport, layerVars, LayerOf
    <2>2. scene' = scene /\ trouble' \in 0 .. scene.budget
        BY <1>2, <1>5 DEF Import, PlanRoads, ExtractCell, BuildVector, DownloadRoads, MergeCell,
           ImportPlanet, PlanWater, ScanWater, MarkCell, DownloadWater, RecordOutcome,
           AnnounceImport, Works, Fails, budgets
    <2>3. current' \in [MapLayers -> SUBSET {"cache", "build"}]
        BY <2>1 DEF Bump
    <2> QED
        BY <2>1, <2>2, <2>3
<1>6. CASE Crash
    BY <1>2, <1>6 DEF Crash
<1> DEFINE Build == [pc : {"none", "read", "publish", "stuck"}, cells : SUBSET Cells,
                     ground : BOOLEAN, epoch : BOOLEAN]
<1>7. CASE Draw
    <2>1. [NoBuild EXCEPT !.pc = "read"] \in Build /\ [NoBuild EXCEPT !.pc = "read"].pc = "read"
        OBVIOUS
    <2>2. build' \in [MapLayers -> Build]
        BY <1>7, <2>1 DEF Draw, DrawRoads, DrawWater
    <2>3. build'["roads"] \in {build["roads"], [NoBuild EXCEPT !.pc = "read"]}
        BY <1>7 DEF Draw, DrawRoads, DrawWater
    <2>4. UNCHANGED <<cache, scene, trouble>>
        BY <1>7 DEF Draw, DrawRoads, DrawWater, budgets
    <2>5. current' \in [MapLayers -> SUBSET {"cache", "build"}]
        BY <1>7 DEF Draw, DrawRoads, DrawWater
    <2> QED
        BY <2>1, <2>2, <2>3, <2>4, <2>5
<1>8. CASE LayerWork
    <2>1. scene' = scene /\ trouble' = trouble
        BY <1>8 DEF LayerWork, budgets
    <2>2. ASSUME NEW k \in drawn, ReadCells(k, StoredFor(k))
          PROVE  LayerTypeOK' /\ RoadGround'
        <3>1. k \in MapLayers /\ StoredFor(k) \subseteq Cells
            BY DEF drawn, StoredFor, StoreOK
        <3> QED
            <4>1. [build[k] EXCEPT !.pc = "publish", !.cells = StoredFor(k), !.ground = TRUE] \in Build
                BY <3>1
            <4>2. build' = [build EXCEPT ![k] = [build[k] EXCEPT !.pc = "publish",
                                                    !.cells = StoredFor(k), !.ground = TRUE]]
                BY <2>2, <3>1 DEF ReadCells
            <4>3. build' \in [MapLayers -> Build]
                BY <3>1, <4>1, <4>2
            <4>4. build'["roads"] = build["roads"] \/ build'["roads"].ground
                BY <3>1, <4>2
            <4> QED
                BY <2>1, <2>2, <4>3, <4>4 DEF ReadCells
    <2>3. CASE PublishRoads
        <3>1. build' = [build EXCEPT !["roads"] = NoBuild] /\ build'["roads"] = NoBuild
            BY <2>3 DEF PublishRoads
        <3>2. build' \in [MapLayers -> Build] /\ build'["roads"].pc = "none"
            BY <3>1
        <3>3. CASE build["roads"].epoch /\ Adopt("roads")
            BY <2>1, <2>3, <3>2, <3>3 DEF Adopt, PublishRoads
        <3>4. CASE current' = [current EXCEPT !["roads"] = @ \ {"build"}] /\ UNCHANGED cache
            BY <2>1, <3>2, <3>4
        <3> QED
            BY <2>3, <3>3, <3>4 DEF PublishRoads
    <2>4. CASE PublishWater
        BY <2>1, <2>4 DEF PublishWater, Adopt
    <2> QED
        BY <1>8, <2>2, <2>3, <2>4 DEF LayerWork
<1>9. CASE Panics
    <2>1. PICK k \in drawn : BuildPanics(k)
        BY <1>9 DEF Panics
    <2>2. k \in MapLayers
        BY DEF drawn
    <2>3. [NoBuild EXCEPT !.pc = "stuck"] \in Build /\ NoBuild \in Build
        OBVIOUS
    <2>4. build' \in [MapLayers -> Build]
        BY <2>1, <2>2, <2>3 DEF BuildPanics
    <2>5. build'["roads"] \in {build["roads"], NoBuild}
        BY <2>1, <2>2 DEF BuildPanics
    <2>6. current' \in [MapLayers -> SUBSET {"cache", "build"}]
        BY <2>1, <2>2 DEF BuildPanics
    <2> QED
        BY <1>2, <1>9, <2>1, <2>4, <2>5, <2>6 DEF Panics, BuildPanics, Fails
<1>10. CASE User
    <2>1. scene' = scene /\ trouble' \in 0 .. scene.budget
        BY <1>2, <1>10 DEF User, HideWater, ResetTerrain, ViewMoves
    <2>2. CASE HideWater
        BY <2>1, <2>2 DEF HideWater
    <2>3. CASE ResetTerrain
        <3>1. /\ cache' = [k \in MapLayers |-> NoCache]
              /\ current' = [k \in MapLayers |-> current[k] \ {"cache"}]
            BY <2>3 DEF ResetTerrain
        <3>2. ASSUME NEW k \in MapLayers
              PROVE  [build[k] EXCEPT !.ground = FALSE, !.epoch = (k # "roads")] \in Build
            <4>1. ASSUME NEW b \in Build, NEW e \in BOOLEAN
                  PROVE  [b EXCEPT !.ground = FALSE, !.epoch = e] \in Build
                OBVIOUS
            <4>2. build[k] \in Build
                OBVIOUS
            <4>3. (k # "roads") \in BOOLEAN
                OBVIOUS
            <4> QED
                BY <4>1, <4>2, <4>3
        <3>3. build' \in [MapLayers -> Build]
            BY <2>3, <3>2 DEF ResetTerrain
        <3>4. build'["roads"] = NoBuild \/ ~build'["roads"].epoch
            BY <2>3 DEF ResetTerrain
        <3> QED
            BY <2>1, <3>1, <3>3, <3>4
    <2>4. ASSUME NEW k \in drawn, ViewMoves(k)
          PROVE  LayerTypeOK' /\ RoadGround'
        <3>1. current' \in [MapLayers -> SUBSET {"cache", "build"}]
            BY <2>4 DEF ViewMoves, drawn
        <3> QED
            BY <2>1, <2>4, <3>1 DEF ViewMoves
    <2> QED
        BY <1>10, <2>2, <2>3, <2>4 DEF User
<1>11. CASE UNCHANGED vars
    BY <1>1, <1>11 DEF vars, budgets
<1> QED
    BY <1>3, <1>4, <1>5, <1>6, <1>7, <1>8, <1>9, <1>10, <1>11 DEF Next, WorkerStep

-----------------------------------------------------------------------------
(* What the queue promises.                                                *)

\* No queued focus row is overlooked: the hint only falls when the worker is about to
\* look, and a look that leaves a row queued takes another one.
LEMMA FlagStep ==
    ASSUME IInv, [Next]_vars
    PROVE  FlagCoversQueue'
<1> USE DEF IInv, FlagCoversQueue
<1> DEFINE Waiting == \E r \in Queued : Focus(rows[r].job)
           Asked == \E a \in Askers : ask[a].pc = "publish"
<1>1. CASE flag'
    BY <1>1
<1>2. ASSUME NEW a \in Askers, AskStep(a) \/ \E j \in Jobs : StartCheck(a, j)
      PROVE  FlagCoversQueue'
    <2>1. CASE UNCHANGED rows
        <3>1. UNCHANGED wk /\ (Waiting' => Waiting)
            BY <1>2, <2>1, AskingOnly DEF Queued
        <3>2. ~flag' => (Asked => Asked') /\ ~flag
            BY <1>2, <2>1 DEF AskStep, StartCheck, CountSame, InsertRow, PublishJob, TypeOK,
               AskersOK
        <3> QED
            BY <3>1, <3>2
    <2>2. CASE InsertRow(a) /\ ~UNCHANGED rows
        <3>1. CASE Focus(ask[a].job)
            <4>1. ask'[a].pc = "publish"
                BY <2>2, <3>1 DEF InsertRow, TypeOK, AskersOK
            <4> QED
                BY <4>1
        <3>2. CASE ~Focus(ask[a].job)
            <4>1. Waiting' => Waiting
                BY <2>2, <3>2, InsertedRows DEF Queued, JobsKept
            <4>2. Asked => Asked'
                BY <2>2 DEF InsertRow, TypeOK, AskersOK
            <4> QED
                BY <2>2, <4>1, <4>2 DEF InsertRow
        <3> QED
            BY <3>1, <3>2
    <2> QED
        BY <1>2, <2>1, <2>2, AskingOnly
<1>3. CASE EnsureStore
    <2>1. Waiting' => Waiting
        BY <1>3, OrphanRows DEF EnsureStore, Queued, JobsKept
    <2> QED
        BY <1>3, <2>1 DEF EnsureStore, Worker
<1>4. CASE LowerFlag \/ RaiseFlag
    <2>1. wk' = [wk EXCEPT !.pc = "query"] => wk'.pc = "query"
        BY DEF TypeOK, WorkerOK
    <2> QED
        BY <1>1, <1>4, <2>1 DEF LowerFlag, RaiseFlag, Worker
<1>5. CASE FetchNextJob
    <2>1. CASE wk' = IdleWorker /\ Queued = {} /\ UNCHANGED rows
        BY <2>1 DEF Queued
    <2>2. CASE wk'.pc = "raise"
        BY <2>2
    <2> QED
        BY <1>5, <2>1, <2>2, FetchedRows DEF TypeOK, WorkerOK
<1>6. CASE SpawnWorker
    BY <1>1, <1>6 DEF SpawnWorker
<1>7. CASE Import
    <2>1. Waiting' => Waiting
        BY <1>7, ImportRows, OutcomeRows DEF Queued, RowsKept, JobsKept
    <2>2. UNCHANGED <<flag, ask>> /\ wk.pc \notin {"query", "raise"}
        BY <1>7 DEF Import, PlanRoads, ExtractCell, BuildVector, DownloadRoads, MergeCell,
           ImportPlanet, PlanWater, ScanWater, MarkCell, DownloadWater, RecordOutcome,
           AnnounceImport, Quiet, NotStored, Worker
    <2> QED
        BY <2>1, <2>2
<1>8. CASE Crash
    BY <1>8 DEF Crash, Active, Queued
<1>9. CASE UNCHANGED <<rows, flag, ask, wk>>
    BY <1>9 DEF Queued
<1>10. CASE Draw \/ LayerWork \/ Panics \/ User \/ UNCHANGED vars
    BY <1>9, <1>10, LayersOnly DEF osmVars, stored, vars
<1> QED
    BY <1>2, <1>3, <1>4, <1>5, <1>6, <1>7, <1>8, <1>10 DEF Next, WorkerStep, Fetch

\* A mark follows its features, and features are never taken away.
LEMMA MarkedStep ==
    ASSUME IInv, [Next]_vars
    PROVE  MarkedCellsHaveWater' /\ (wk'.pc = "mark" => wk'.unit \subseteq waterTiles')
<1> USE DEF IInv, MarkedCellsHaveWater, ImportShape
<1>1. CASE UNCHANGED <<waterTiles, marked>> /\ (wk' = wk \/ wk'.pc # "mark")
    BY <1>1
<1>2. ASSUME NEW a \in Askers, AskStep(a) \/ \E j \in Jobs : StartCheck(a, j)
      PROVE  UNCHANGED <<waterTiles, marked, wk>>
    BY <1>2, AskingOnly
<1>3. CASE EnsureStore \/ Fetch \/ SpawnWorker
    <2>1. UNCHANGED <<waterTiles, marked>>
        BY <1>3 DEF EnsureStore, Fetch, LowerFlag, FetchNextJob, RaiseFlag, SpawnWorker,
           NotStored, stored
    <2>2. CASE FetchNextJob
        <3>1. CASE wk' = IdleWorker
            BY <1>1, <2>1, <3>1 DEF IdleWorker
        <3>2. CASE wk' = [wk EXCEPT !.pc = "raise", !.row = wk'.row]
            BY <1>1, <2>1, <3>2 DEF TypeOK, WorkerOK
        <3>3. CASE wk' = [wk EXCEPT !.pc = "raise"]
            BY <1>1, <2>1, <3>3 DEF TypeOK, WorkerOK
        <3> QED
            BY <2>2, <3>1, <3>2, <3>3, FetchedRows
    <2>3. CASE EnsureStore
        BY <1>1, <2>1, <2>3 DEF EnsureStore, Worker, IdleWorker, TypeOK, WorkerOK
    <2>4. CASE LowerFlag \/ RaiseFlag \/ SpawnWorker
        <3>1. wk'.pc # "mark"
            BY <2>4 DEF LowerFlag, RaiseFlag, SpawnWorker, Worker, IdleWorker, TypeOK, WorkerOK
        <3> QED
            BY <1>1, <2>1, <3>1
    <2> QED
        BY <1>3, <2>2, <2>3, <2>4 DEF Fetch
<1>4. CASE Crash
    BY <1>1, <1>4 DEF Crash, IdleWorker
<1>5. ASSUME NEW unit \in SUBSET Cells, ScanWater(unit)
      PROVE  MarkedCellsHaveWater' /\ (wk'.pc = "mark" => wk'.unit \subseteq waterTiles')
    <2>1. CASE waterTiles' = waterTiles \cup unit /\ wk' = [wk EXCEPT !.pc = "mark", !.unit = unit]
        BY <1>5, <2>1 DEF ScanWater, TypeOK, WorkerOK
    <2>2. CASE UNCHANGED waterTiles /\ wk' = [wk EXCEPT !.pc = "download"]
        BY <1>5, <2>2 DEF ScanWater, TypeOK, WorkerOK
    <2> QED
        BY <1>5, <2>1, <2>2 DEF ScanWater, ToOverpass
<1>6. ASSUME NEW c \in Cells, MarkCell(c)
      PROVE  MarkedCellsHaveWater' /\ (wk'.pc = "mark" => wk'.unit \subseteq waterTiles')
    <2>1. UNCHANGED waterTiles /\ wk.pc = "mark" /\ c \in wk.unit
        BY <1>6 DEF MarkCell
    <2>2. marked' \in {marked, marked \cup {c}}
        BY <1>6 DEF MarkCell
    <2>3. wk'.pc = "mark" => wk'.unit \subseteq wk.unit
        BY <1>6 DEF MarkCell, ToOverpass, TypeOK, WorkerOK
    <2> QED
        BY <2>1, <2>2, <2>3
<1>7. CASE DownloadWater
    BY <1>7 DEF DownloadWater, TypeOK, WorkerOK
<1>8. CASE \/ PlanRoads \/ DownloadRoads \/ ImportPlanet \/ PlanWater \/ RecordOutcome \/ AnnounceImport
           \/ \E c \in Cells : ExtractCell(c) \/ BuildVector(c) \/ MergeCell(c)
    <2>1. UNCHANGED <<waterTiles, marked>>
        BY <1>8 DEF PlanRoads, DownloadRoads, ImportPlanet, PlanWater, RecordOutcome,
           AnnounceImport, ExtractCell, BuildVector, MergeCell, NotStored, stored
    <2>2. CASE PlanRoads \/ DownloadRoads \/ ImportPlanet \/ PlanWater \/ RecordOutcome \/ AnnounceImport
        <3>1. CASE PlanRoads
            BY <1>1, <2>1, <3>1 DEF PlanRoads, ToOverpass, TypeOK, WorkerOK
        <3>2. CASE PlanWater
            BY <1>1, <2>1, <3>2 DEF PlanWater, ToOverpass, TypeOK, WorkerOK
        <3>3. CASE DownloadRoads \/ ImportPlanet
            BY <1>1, <2>1, <3>3 DEF DownloadRoads, ImportPlanet, TypeOK, WorkerOK
        <3>4. CASE RecordOutcome \/ AnnounceImport
            BY <1>1, <2>1, <3>4 DEF RecordOutcome, AnnounceImport, Worker, IdleWorker, TypeOK,
               WorkerOK
        <3> QED
            BY <2>2, <3>1, <3>2, <3>3, <3>4
    <2>3. ASSUME NEW c \in Cells, ExtractCell(c) \/ BuildVector(c) \/ MergeCell(c)
          PROVE  wk'.pc # "mark"
        <3>1. CASE ExtractCell(c)
            BY <3>1 DEF ExtractCell, ToOverpass, TypeOK, WorkerOK
        <3>2. CASE BuildVector(c)
            BY <3>2 DEF BuildVector, ToOverpass, TypeOK, WorkerOK
        <3>3. CASE MergeCell(c)
            BY <3>3 DEF MergeCell, TypeOK, WorkerOK
        <3> QED
            BY <2>3, <3>1, <3>2, <3>3
    <2> QED
        BY <1>1, <1>8, <2>1, <2>2, <2>3
<1>9. CASE Draw \/ LayerWork \/ Panics \/ User \/ UNCHANGED vars
    BY <1>1, <1>9, LayersOnly DEF osmVars, stored, vars
<1> QED
    BY <1>1, <1>2, <1>3, <1>4, <1>5, <1>6, <1>7, <1>8, <1>9 DEF Next, WorkerStep, Import

\* A running row is the worker's: rows are taken one at a time, and only an
\* undisturbed worker takes one.
LEMMA RunningStep ==
    ASSUME IInv, [Next]_vars
    PROVE  RunningIsWorkedOn'
<1> USE DEF IInv, RunningIsWorkedOn
<1> DEFINE Mine(r) == rows[r].state = "running" <=> r = wk.row /\ wk.pc # "announce"
<1>0. \A r \in DOMAIN rows : r # 0
    BY TableFacts DEF TypeOK
<1>1. CASE faulted'
    BY <1>1
<1>2. CASE UNCHANGED <<rows, wk, faulted>>
    BY <1>2
<1>3. ASSUME NEW a \in Askers, AskStep(a) \/ \E j \in Jobs : StartCheck(a, j)
      PROVE  RunningIsWorkedOn'
    <2>1. CASE InsertRow(a)
        <3>1. wk.row \in {0} \cup DOMAIN rows
            BY DEF Shape, TypeOK, WorkerOK, Looking, Importing
        <3>2. 0 \notin DOMAIN rows'
            BY <1>3, TableStep, TableFacts, <2>1, InsertedRows, LenProperties DEF TableOK
        <3>3. wk' = wk /\ (faulted' = faulted \/ faulted' = TRUE)
            BY <1>3, AskingOnly
        <3>4. \A r \in DOMAIN rows : rows'[r].state = rows[r].state
            BY <2>1, InsertedRows
        <3>5. \A r \in DOMAIN rows' \ DOMAIN rows : rows'[r].state = "queued" /\ r # wk.row
            BY <2>1, <3>1, <3>2, InsertedRows
        <3> QED
            BY <3>3, <3>4, <3>5
    <2> QED
        BY <1>1, <1>2, <1>3, <2>1, AskingOnly
<1>4. CASE EnsureStore
    <2>1. CASE Works /\ wk.pc = "ensure" /\ wk' = [wk EXCEPT !.pc = "lower"]
        <3>1. wk.row = 0 /\ wk'.row = 0 /\ faulted' = faulted
            BY <2>1 DEF Shape, Looking, TypeOK, WorkerOK, Works, budgets
        <3>2. CASE UNCHANGED rows
            BY <1>0, <2>1, <3>1, <3>2
        <3>3. CASE rows' = RecoverOrphans(rows)
            BY <1>0, <2>1, <3>1, <3>3, OrphanRows
        <3> QED
            BY <1>4, <3>2, <3>3 DEF EnsureStore
    <2> QED
        BY <1>1, <1>4, <2>1 DEF EnsureStore, Worker, Fails
<1>5. CASE FetchNextJob
    <2>1. wk.pc = "query" /\ wk.row = 0
        BY <1>5 DEF FetchNextJob, Worker, Shape, Looking
    <2>2. CASE wk' = IdleWorker /\ UNCHANGED <<rows, faulted>>
        BY <1>0, <2>1, <2>2 DEF IdleWorker
    <2>3. CASE /\ wk' = [wk EXCEPT !.pc = "raise", !.row = wk'.row]
               /\ wk'.row \in Queued /\ rows'[wk'.row].state = "running"
               /\ UNCHANGED faulted
               /\ \A r \in DOMAIN rows \ {wk'.row} : rows'[r].state = rows[r].state
        <3>1. wk'.pc = "raise" /\ wk'.row \in DOMAIN rows
            BY <2>3 DEF Queued, TypeOK, WorkerOK
        <3> QED
            BY <1>0, <1>5, <2>1, <2>3, <3>1, FetchedRows
    <2> QED
        BY <1>1, <1>5, <2>2, <2>3, FetchedRows
<1>6. CASE LowerFlag \/ SpawnWorker
    <2>1. wk.row = 0 /\ wk'.row = 0 /\ UNCHANGED <<rows, faulted>>
        BY <1>6 DEF LowerFlag, SpawnWorker, Worker, Shape, Looking, IdleWorker, NotStored,
           stored, budgets, TypeOK, WorkerOK
    <2> QED
        BY <1>0, <1>6, <2>1
<1>7. CASE RaiseFlag
    <2>1. UNCHANGED <<rows, faulted>> /\ wk.pc = "raise"
        BY <1>7 DEF RaiseFlag, Worker, NotStored, stored, budgets
    <2>2. CASE wk.row = 0 /\ wk' = IdleWorker
        BY <1>0, <2>1, <2>2 DEF IdleWorker
    <2>3. CASE wk' = [wk EXCEPT !.pc = "import"]
        BY <2>1, <2>3 DEF TypeOK, WorkerOK
    <2> QED
        BY <1>7, <2>2, <2>3 DEF RaiseFlag, Worker
<1>8. CASE RecordOutcome
    <2>1. wk.pc = "settle"
        BY <1>8 DEF RecordOutcome
    <2>2. CASE wk.ok /\ wk' = [wk EXCEPT !.pc = "announce"]
        <3>1. wk'.pc = "announce" /\ wk'.row = wk.row
            BY <2>2 DEF TypeOK, WorkerOK
        <3> QED
            BY <1>1, <1>8, <2>1, <2>2, <3>1, OutcomeRows
    <2>3. CASE ~wk.ok /\ wk' = IdleWorker
        <3>1. wk'.row = 0
            BY <2>3 DEF IdleWorker
        <3> QED
            BY <1>0, <1>1, <1>8, <2>1, <2>3, <3>1, OutcomeRows
    <2> QED
        BY <1>8, <2>2, <2>3 DEF RecordOutcome
<1>9. CASE Import /\ ~RecordOutcome
    <2>1. CASE AnnounceImport
        <3>1. wk.pc = "announce" /\ wk'.row = 0 /\ UNCHANGED <<rows, faulted>>
            BY <2>1 DEF AnnounceImport, Worker, IdleWorker, stored, budgets
        <3> QED
            BY <1>0, <3>1
    <2>2. CASE wk.pc # "announce" /\ wk'.row = wk.row /\ wk'.pc # "announce"
        <3>1. faulted' = faulted \/ faulted' = TRUE
            BY <1>9 DEF Import, PlanRoads, ExtractCell, BuildVector, DownloadRoads, MergeCell,
               ImportPlanet, PlanWater, ScanWater, MarkCell, DownloadWater, AnnounceImport,
               Works, Fails, budgets
        <3> QED
            BY <1>1, <1>9, <2>2, <3>1, ImportRows DEF RowsKept
    <2>3. CASE PlanRoads \/ DownloadRoads \/ ImportPlanet \/ PlanWater \/ DownloadWater
        <3>1. wk.pc # "announce" /\ wk'.row = wk.row /\ wk'.pc # "announce"
            BY <2>3 DEF PlanRoads, DownloadRoads, ImportPlanet, PlanWater, DownloadWater,
               ToOverpass, TypeOK, WorkerOK
        <3> QED
            BY <2>2, <3>1
    <2>4. ASSUME NEW c \in Cells, ExtractCell(c) \/ BuildVector(c) \/ MergeCell(c) \/ MarkCell(c)
          PROVE  wk.pc # "announce" /\ wk'.row = wk.row /\ wk'.pc # "announce"
        <3>1. CASE ExtractCell(c)
            BY <3>1 DEF ExtractCell, ToOverpass, TypeOK, WorkerOK
        <3>2. CASE BuildVector(c)
            BY <3>2 DEF BuildVector, ToOverpass, TypeOK, WorkerOK
        <3>3. CASE MergeCell(c)
            BY <3>3 DEF MergeCell, TypeOK, WorkerOK
        <3>4. CASE MarkCell(c)
            BY <3>4 DEF MarkCell, ToOverpass, TypeOK, WorkerOK
        <3> QED
            BY <2>4, <3>1, <3>2, <3>3, <3>4
    <2>5. ASSUME NEW unit \in SUBSET Cells, ScanWater(unit)
          PROVE  wk.pc # "announce" /\ wk'.row = wk.row /\ wk'.pc # "announce"
        BY <2>5 DEF ScanWater, ToOverpass, TypeOK, WorkerOK
    <2> QED
        BY <1>9, <2>1, <2>2, <2>3, <2>4, <2>5 DEF Import
<1>10. CASE Crash
    BY <1>0, <1>10, OrphanRows DEF Crash, IdleWorker
<1>11. CASE Draw \/ LayerWork \/ Panics \/ User \/ UNCHANGED vars
    BY <1>1, <1>2, <1>11, LayersOnly DEF osmVars, stored, vars, budgets
<1> QED
    BY <1>3, <1>4, <1>5, <1>6, <1>7, <1>8, <1>9, <1>10, <1>11 DEF Next, WorkerStep, Fetch

\* A job is completed when nothing of it is missing, and files do not go away.
LEMMA FilesStep ==
    ASSUME IInv, [Next]_vars
    PROVE  /\ CompletedLeavesFiles'
           /\ wk'.pc = "extract" => MissingVector' \subseteq wk'.unit
           /\ wk'.pc \in {"vector", "merge"} => MissingVector' \subseteq wk'.todo
           /\ wk'.pc = "settle" /\ wk'.ok /\ Focus(Job') /\ Job' \notin WaterJobs
                 => MissingVector' = {}
<1> USE DEF IInv
<1> DEFINE Shaped ==
        /\ wk'.pc = "extract" => MissingVector' \subseteq wk'.unit
        /\ wk'.pc \in {"vector", "merge"} => MissingVector' \subseteq wk'.todo
        /\ wk'.pc = "settle" /\ wk'.ok /\ Focus(Job') /\ Job' \notin WaterJobs
              => MissingVector' = {}
\* Files stay, whatever they hold.
<1>1. \A c \in Cells : vector[c] # "none" => vector'[c] # "none"
    <2>1. CASE UNCHANGED vector
        BY <2>1
    <2>2. CASE Import
        BY <2>2 DEF Import, PlanRoads, ExtractCell, BuildVector, DownloadRoads, MergeCell,
           ImportPlanet, PlanWater, ScanWater, MarkCell, DownloadWater, RecordOutcome,
           AnnounceImport, NotStored, stored, TypeOK, StoreOK
    <2>3. CASE Crash
        BY <2>3 DEF Crash, TypeOK, StoreOK
    <2>4. ASSUME NEW a \in Askers, AskStep(a) \/ \E j \in Jobs : StartCheck(a, j)
          PROVE  UNCHANGED vector
        BY <2>4, AskingOnly
    <2>5. CASE EnsureStore \/ Fetch \/ SpawnWorker
        BY <2>1, <2>5 DEF EnsureStore, Fetch, LowerFlag, FetchNextJob, RaiseFlag, SpawnWorker,
           NotStored, stored
    <2>6. CASE Draw \/ LayerWork \/ Panics \/ User \/ UNCHANGED vars
        BY <2>1, <2>6, LayersOnly DEF osmVars, stored, vars
    <2> QED
        BY <2>1, <2>2, <2>3, <2>4, <2>5, <2>6 DEF Next, WorkerStep
\* The row of an importing worker keeps its job, so less and less is missing.
<1>2. wk.pc \in Importing /\ wk'.row = wk.row => Job' = Job /\ MissingVector' \subseteq MissingVector
    <2>1. wk.pc \in Importing => wk.row \in DOMAIN rows /\ CellsOf[Job] \subseteq Cells
        BY JobFacts DEF TypeOK
    <2>2. wk.pc \in Importing /\ wk'.row = wk.row => Job' = Job
        BY <2>1, TableStep DEF JobsKept, Job
    <2> QED
        BY <1>1, <2>1, <2>2 DEF MissingVector
\* A completed row stays one, and its files stay.
<1>3. ASSUME \A r \in DOMAIN rows' :
                 rows'[r].state = "completed" =>
                     \/ r \in DOMAIN rows /\ rows[r].state = "completed"
                     \/ /\ r = wk.row /\ wk.pc = "settle" /\ wk.ok
                        /\ wk.row \in DOMAIN rows
      PROVE  CompletedLeavesFiles'
    <2>1. ASSUME NEW r \in DOMAIN rows', rows'[r].state = "completed", Focus(rows'[r].job),
                 rows'[r].job \notin WaterJobs, NEW c \in CellsOf[rows'[r].job]
          PROVE  vector'[c] # "none"
        <3>1. r \in DOMAIN rows /\ rows'[r].job = rows[r].job /\ c \in Cells
            BY <1>3, <2>1, TableStep, TableFacts, OsmAssumption DEF JobsKept, TypeOK
        <3>2. CASE rows[r].state = "completed"
            BY <1>1, <2>1, <3>1, <3>2 DEF CompletedLeavesFiles
        <3>3. CASE r = wk.row /\ wk.pc = "settle" /\ wk.ok
            BY <1>1, <2>1, <3>1, <3>3 DEF ImportShape, MissingVector, Job
        <3> QED
            BY <1>3, <2>1, <3>1, <3>2, <3>3
    <2> QED
        BY <2>1 DEF CompletedLeavesFiles
<1>4. CompletedLeavesFiles'
    <2>1. CASE UNCHANGED rows
        BY <1>3, <2>1
    <2>2. ASSUME NEW a \in Askers, AskStep(a) \/ \E j \in Jobs : StartCheck(a, j)
          PROVE  CompletedLeavesFiles'
        BY <1>3, <2>1, <2>2, AskingOnly, InsertedRows
    <2>3. CASE EnsureStore \/ Crash
        BY <1>3, <2>1, <2>3, OrphanRows DEF EnsureStore, Crash
    <2>4. CASE FetchNextJob
        BY <1>3, <2>1, <2>4, FetchedRows DEF Queued
    <2>5. CASE LowerFlag \/ RaiseFlag \/ SpawnWorker
        BY <2>1, <2>5 DEF LowerFlag, RaiseFlag, SpawnWorker, NotStored, stored
    <2>6. CASE RecordOutcome
        <3>1. wk.pc = "settle"
            BY <2>6 DEF RecordOutcome
        <3>2. wk.ok \in BOOLEAN
            BY DEF TypeOK, WorkerOK
        <3> QED
            BY <1>3, <2>1, <2>6, <3>1, <3>2, OutcomeRows
    <2>7. CASE Import /\ ~RecordOutcome
        BY <1>3, <2>7, ImportRows DEF RowsKept
    <2>8. CASE Draw \/ LayerWork \/ Panics \/ User \/ UNCHANGED vars
        BY <2>1, <2>8, LayersOnly DEF osmVars, stored, vars
    <2> QED
        BY <2>2, <2>3, <2>4, <2>5, <2>6, <2>7, <2>8 DEF Next, WorkerStep, Fetch
<1>5. CASE UNCHANGED wk
    BY <1>2, <1>4, <1>5 DEF ImportShape, Importing
<1>6. CASE wk'.pc \notin {"extract", "vector", "merge", "settle"} \/ (wk'.pc = "settle" /\ ~wk'.ok)
    BY <1>4, <1>6
<1>7. ASSUME NEW a \in Askers, AskStep(a) \/ \E j \in Jobs : StartCheck(a, j)
      PROVE  Shaped
    BY <1>5, <1>7, AskingOnly
<1>8. CASE EnsureStore \/ FetchNextJob \/ LowerFlag \/ RaiseFlag \/ SpawnWorker \/ Crash
    <2>1. CASE wk' = IdleWorker
        BY <1>6, <2>1 DEF IdleWorker
    <2>2. CASE FetchNextJob
        <3>1. CASE wk' = [wk EXCEPT !.pc = "raise", !.row = wk'.row]
            <4>1. wk'.pc = "raise"
                BY <3>1 DEF TypeOK, WorkerOK
            <4> QED
                BY <1>6, <4>1
        <3>2. CASE wk' = [wk EXCEPT !.pc = "raise"]
            BY <1>6, <3>2 DEF TypeOK, WorkerOK
        <3> QED
            BY <2>1, <2>2, <3>1, <3>2, FetchedRows
    <2>3. CASE EnsureStore
        BY <1>6, <2>1, <2>3 DEF EnsureStore, Worker, TypeOK, WorkerOK
    <2>4. CASE LowerFlag \/ SpawnWorker
        BY <1>6, <2>4 DEF LowerFlag, SpawnWorker, Worker, IdleWorker, TypeOK, WorkerOK
    <2>5. CASE RaiseFlag
        BY <1>6, <2>1, <2>5 DEF RaiseFlag, Worker, TypeOK, WorkerOK
    <2> QED
        BY <1>8, <2>1, <2>2, <2>3, <2>4, <2>5 DEF Crash
<1>9. CASE PlanRoads
    <2>1. UNCHANGED <<vector>> /\ wk.pc = "import"
        BY <1>9 DEF PlanRoads
    <2>2. CASE wk' = [wk EXCEPT !.pc = "download"]
        BY <1>6, <2>2 DEF TypeOK, WorkerOK
    <2>3. CASE wk' = [wk EXCEPT !.pc = "settle", !.ok = TRUE] /\ MissingVector = {}
        <3>1. wk'.row = wk.row /\ wk'.pc = "settle"
            BY <2>3 DEF TypeOK, WorkerOK
        <3> QED
            BY <1>2, <1>4, <2>1, <2>3, <3>1 DEF Importing
    <2>4. CASE wk' = [wk EXCEPT !.pc = "extract", !.todo = MissingExtract, !.unit = MissingVector]
        <3>1. wk'.row = wk.row /\ wk'.pc = "extract" /\ wk'.unit = MissingVector
            BY <2>4 DEF TypeOK, WorkerOK
        <3> QED
            BY <1>2, <1>4, <2>1, <3>1 DEF Importing
    <2>5. CASE wk' = [wk EXCEPT !.pc = "vector", !.todo = MissingVector]
        <3>1. wk'.row = wk.row /\ wk'.pc = "vector" /\ wk'.todo = MissingVector
            BY <2>5 DEF TypeOK, WorkerOK
        <3> QED
            BY <1>2, <1>4, <2>1, <3>1 DEF Importing
    <2> QED
        BY <1>9, <2>2, <2>3, <2>4, <2>5 DEF PlanRoads, ToOverpass
<1>10. ASSUME NEW c \in Cells, ExtractCell(c) PROVE Shaped
    <2>1. wk.pc = "extract" /\ MissingVector \subseteq wk.unit
        BY <1>10 DEF ExtractCell, ImportShape
    <2>2. CASE wk' = [wk EXCEPT !.pc = "vector", !.todo = wk.unit, !.unit = {}]
        <3>1. wk'.row = wk.row /\ wk'.pc = "vector" /\ wk'.todo = wk.unit
            BY <2>2 DEF TypeOK, WorkerOK
        <3> QED
            BY <1>2, <2>1, <3>1 DEF Importing
    <2>3. CASE wk' = [wk EXCEPT !.todo = @ \ {c}]
        <3>1. wk'.row = wk.row /\ wk'.pc = "extract" /\ wk'.unit = wk.unit
            BY <2>1, <2>3 DEF TypeOK, WorkerOK
        <3> QED
            BY <1>2, <2>1, <3>1 DEF Importing
    <2>4. CASE wk' = [wk EXCEPT !.pc = "download"]
        BY <1>6, <2>4 DEF TypeOK, WorkerOK
    <2> QED
        BY <1>10, <2>2, <2>3, <2>4 DEF ExtractCell, ToOverpass
<1>11. ASSUME NEW c \in Cells, BuildVector(c) \/ MergeCell(c) PROVE Shaped
    <2>1. wk.pc \in {"vector", "merge"} /\ MissingVector \subseteq wk.todo
        BY <1>11 DEF BuildVector, MergeCell, ImportShape
    <2>2. CASE wk'.pc = "download" \/ (wk'.pc = "settle" /\ ~wk'.ok)
        BY <1>6, <2>2
    <2>3. ASSUME vector'[c] # "none", wk'.row = wk.row
          PROVE  MissingVector' \subseteq wk.todo \ {c}
        BY <1>2, <2>1, <2>3 DEF Importing, MissingVector
    <2>4. CASE vector'[c] # "none" /\ wk.todo = {c} /\ wk' = [wk EXCEPT !.pc = "settle", !.todo = {}, !.ok = TRUE]
        <3>1. wk'.row = wk.row /\ wk'.pc = "settle"
            BY <2>4 DEF TypeOK, WorkerOK
        <3> QED
            BY <2>3, <2>4, <3>1
    <2>5. CASE vector'[c] # "none" /\ wk' = [wk EXCEPT !.todo = @ \ {c}]
        <3>1. wk'.row = wk.row /\ wk'.pc = wk.pc /\ wk'.todo = wk.todo \ {c}
            BY <2>5 DEF TypeOK, WorkerOK
        <3> QED
            BY <2>1, <2>3, <2>5, <3>1
    <2>6. CASE BuildVector(c)
        <3>1. CASE wk' = [wk EXCEPT !.pc = "download"]
            BY <2>2, <3>1 DEF TypeOK, WorkerOK
        <3>2. CASE vector' = [vector EXCEPT ![c] = "whole"]
            <4>1. vector'[c] # "none"
                BY <3>2 DEF TypeOK, StoreOK
            <4> QED
                BY <2>4, <2>5, <2>6, <3>1, <4>1 DEF BuildVector, ToOverpass
        <3> QED
            BY <2>6, <3>1, <3>2 DEF BuildVector, ToOverpass
    <2>7. CASE MergeCell(c)
        <3>1. CASE wk' = [wk EXCEPT !.pc = "settle", !.todo = {}, !.ok = FALSE]
            BY <2>2, <3>1 DEF TypeOK, WorkerOK
        <3>2. CASE vector' = [vector EXCEPT ![c] = "whole"] \/ (vector[c] = "torn" /\ UNCHANGED vector)
            <4>1. vector'[c] # "none"
                BY <3>2 DEF TypeOK, StoreOK
            <4> QED
                BY <2>4, <2>5, <2>7, <3>1, <4>1 DEF MergeCell
        <3> QED
            BY <2>7, <3>1, <3>2 DEF MergeCell
    <2> QED
        BY <1>11, <2>6, <2>7
<1>12. CASE DownloadRoads
    <2>1. wk.pc \in Importing
        BY <1>12 DEF DownloadRoads, Importing
    <2>2. CASE wk' = [wk EXCEPT !.pc = "merge", !.todo = CellsOf[Job]]
        <3>1. wk'.row = wk.row /\ wk'.pc = "merge" /\ wk'.todo = CellsOf[Job]
            BY <2>2 DEF TypeOK, WorkerOK
        <3> QED
            BY <1>2, <1>4, <2>1, <3>1 DEF MissingVector
    <2>3. CASE wk' = [wk EXCEPT !.pc = "settle", !.todo = {}, !.ok = FALSE]
        BY <1>6, <2>3 DEF TypeOK, WorkerOK
    <2> QED
        BY <1>12, <2>2, <2>3 DEF DownloadRoads
\* Only a water job, or the planet's, settles without a look at the files.
<1>13. CASE /\ Job \in WaterJobs \/ ~Focus(Job)
            /\ wk.pc \in Importing /\ wk'.row = wk.row
            /\ wk'.pc \notin {"extract", "vector", "merge"}
    BY <1>2, <1>4, <1>13
<1>14. CASE ImportPlanet
    <2>1. /\ ~Focus(Job) /\ wk.pc \in Importing /\ wk'.row = wk.row
          /\ wk'.pc \notin {"extract", "vector", "merge"}
        BY <1>14 DEF ImportPlanet, Importing, TypeOK, WorkerOK
    <2> QED
        BY <1>13, <2>1
<1>15. CASE PlanWater \/ DownloadWater
    <2>1. Job \in WaterJobs /\ wk.pc \in Importing
        BY <1>15 DEF PlanWater, DownloadWater, Importing
    <2>2. wk'.row = wk.row /\ wk'.pc \notin {"extract", "vector", "merge"}
        BY <1>15 DEF PlanWater, DownloadWater, ToOverpass, TypeOK, WorkerOK
    <2> QED
        BY <1>13, <2>1, <2>2
<1>16. ASSUME NEW unit \in SUBSET Cells, ScanWater(unit) PROVE Shaped
    <2>1. wk'.pc \notin {"extract", "vector", "merge", "settle"}
        BY <1>16 DEF ScanWater, ToOverpass, TypeOK, WorkerOK
    <2> QED
        BY <2>1
<1>17. ASSUME NEW c \in Cells, MarkCell(c) PROVE Shaped
    <2>1. Job \in WaterJobs /\ wk.pc \in Importing
        BY <1>17 DEF MarkCell, Shape, Importing
    <2>2. wk'.row = wk.row /\ wk'.pc \notin {"extract", "vector", "merge"}
        BY <1>17 DEF MarkCell, ToOverpass, TypeOK, WorkerOK
    <2> QED
        BY <1>2, <2>1, <2>2
<1>18. CASE RecordOutcome \/ AnnounceImport
    <2>1. wk'.pc \notin {"extract", "vector", "merge", "settle"}
        BY <1>18 DEF RecordOutcome, AnnounceImport, Worker, IdleWorker, TypeOK, WorkerOK
    <2> QED
        BY <1>6, <2>1
<1>19. CASE Draw \/ LayerWork \/ Panics \/ User \/ UNCHANGED vars
    BY <1>5, <1>19, LayersOnly DEF osmVars, vars
<1> QED
    BY <1>4, <1>7, <1>8, <1>9, <1>10, <1>11, <1>12, <1>14, <1>15, <1>16, <1>17, <1>18, <1>19
       DEF Next, WorkerStep, Fetch, Import

-----------------------------------------------------------------------------
(* The invariant, and what it promises.                                    *)

\* The stored queue starts empty and the threads idle.
LEMMA InitHolds == Init => IInv
<1> SUFFICES ASSUME Init PROVE IInv
    OBVIOUS
<1> USE OsmAssumption, LayerAssumption DEF Init, OsmInit, LayerInit
<1>1. rows \in Seq(Row) /\ Len(rows) = 0 /\ DOMAIN rows = {}
    BY EmptySeq
<1>2. LayerTypeOK /\ RoadGround
    BY DEF LayerTypeOK, RoadGround, NoCache, NoBuild, MapLayers
<1>3. TableOK /\ StoreOK
    <2>1. TableOK
        BY <1>1 DEF TableOK
    <2>2. StoreOK
        BY DEF StoreOK
    <2> QED
        BY <2>1, <2>2
<1>4. AskersOK /\ WorkerOK
    BY DEF AskersOK, WorkerOK, IdleAsker, IdleWorker, Looking, Importing
<1>5. Shape /\ ImportShape
    BY DEF Shape, ImportShape, IdleAsker, IdleWorker, Looking, Importing
<1>6. FlagCoversQueue /\ MarkedCellsHaveWater /\ RunningIsWorkedOn /\ CompletedLeavesFiles
    BY <1>1 DEF FlagCoversQueue, Queued, MarkedCellsHaveWater, RunningIsWorkedOn,
       CompletedLeavesFiles
<1> QED
    BY <1>2, <1>3, <1>4, <1>5, <1>6 DEF IInv, TypeOK

\* Every step of an asker, the worker, a layer, the user or a crash keeps it.
LEMMA StepHolds == IInv /\ [Next]_vars => IInv'
<1> SUFFICES ASSUME IInv, [Next]_vars PROVE IInv'
    OBVIOUS
<1>1. TypeOK' /\ RoadGround'
    BY TableStep, StoreStep, AskersStep, WorkerStepOK, LayerStep DEF TypeOK
<1>2. Shape'
    BY AskersStep, WorkerStepOK DEF Shape, WorkerShape
<1>3. ImportShape'
    BY MarkedStep, FilesStep DEF ImportShape
<1> QED
    BY <1>1, <1>2, <1>3, FlagStep, MarkedStep, RunningStep, FilesStep DEF IInv

\* The invariant of the queue, its worker and the road layer (job_dispatch.rs, db.rs,
\* roads_osmium.rs, water.rs, road_layer.rs) holds in every behaviour.
THEOREM QueueInvariant == Spec => []IInv
BY InitHolds, StepHolds, PTL DEF Spec

\* The hint cleared before the table is read never hides a queued focus job.
THEOREM QueueIsCovered == Spec => []FlagCoversQueue
<1>1. IInv => FlagCoversQueue
    BY DEF IInv
<1> QED
    BY <1>1, QueueInvariant, PTL

\* A cell marked in osm_focus_cell_cache has its features in the store.
THEOREM MarksAreTrue == Spec => []MarkedCellsHaveWater
<1>1. IInv => MarkedCellsHaveWater
    BY DEF IInv
<1> QED
    BY <1>1, QueueInvariant, PTL

\* Unless a write failed, the running row is the worker's and no other is running.
THEOREM NoOrphans == Spec => []RunningIsWorkedOn
<1>1. IInv => RunningIsWorkedOn
    BY DEF IInv
<1> QED
    BY <1>1, QueueInvariant, PTL

\* A completed focus road job has a file for each of its cells.
THEOREM CompletedHasFiles == Spec => []CompletedLeavesFiles
<1>1. IInv => CompletedLeavesFiles
    BY DEF IInv
<1> QED
    BY <1>1, QueueInvariant, PTL

\* No road is drawn over terrain it was not draped on.
THEOREM RoadsStandOnGround == Spec => []RoadsOnCurrentGround
<1>1. IInv => RoadsOnCurrentGround
    BY DEF IInv, RoadGround, RoadsOnCurrentGround
<1> QED
    BY <1>1, QueueInvariant, PTL
=============================================================================
