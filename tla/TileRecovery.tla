----------------------------- MODULE TileRecovery -----------------------------
(***************************************************************************)
(* Damaged tiles of the SQLite contour caches: recovery.rs discards or     *)
(* shadows them, db.rs and builders.rs route rebuilds to the replacement   *)
(* databases, contour_asset.rs reads tiles and reports the unreadable      *)
(* ones.                                                                   *)
(*                                                                         *)
(* Level 0 of a tile is the cache database all tiles share, level k + 1    *)
(* the tile's own database in the replacement directory of level k.  The   *)
(* existence of that directory is the whole durable state of a repair.     *)
(* Each contour cache of the application has a manifest worker and one     *)
(* streaming reader; REPAIR serialises only the discards.                  *)
(***************************************************************************)
EXTENDS Naturals, FiniteSets

CONSTANTS
    Tiles,
    Caches,         \* contour caches: local, base, globe ... each with its own entries
    MaxNested,      \* replacement directories resolve() follows (8)
    DamageBudget,   \* BOUND: damages, failed builds and discards, and prunes
    None            \* no cache, no database

Levels == 0 .. MaxNested + 1
NotBuilding == MaxNested + 2

ASSUME NestingAssumption == MaxNested \in Nat \ {0} /\ DamageBudget \in Nat
ASSUME NoneAssumption == None \notin Caches

VARIABLES
    rows,       \* rows[t][k]: what the database of level k holds for tile t
    shared,     \* whether the shared database takes writes, see SharedStates
    dirs,       \* dirs[t]: how many replacement directories nest below t
    marked,     \* mark_database: the shared database's repair directory exists
    repair,     \* the cache whose reader holds REPAIR
    building,   \* building[t]: the level its build thread imports into
    snap,       \* the manifest worker's rows of the shared database
    todo,       \* tiles its selection has not visited
    found,      \* assets it has selected so far
    assets,     \* the published selection
    rstage,     \* the reader's stage
    rdb,        \* the asset whose database its current batch is read from
    batch,      \* assets of the batch still to be read
    damaged,    \* tiles of the batch to be reported
    entry,      \* decoded tiles of the cache, by tile and level
    hits        \* how much of DamageBudget is spent

disk == <<rows, shared, dirs, marked, building>>
selection == <<snap, todo, found, assets>>
reading == <<rstage, rdb, batch, damaged>>
vars == <<disk, repair, selection, reading, entry, hits>>

\* "bad" rows do not decode or do not match the manifest's count, "torn" pages
\* raise SQLITE_CORRUPT, "gone" has lost its manifest row but not its geometry.
Contents == {"none", "good", "bad", "torn", "gone"}
\* A "failing" shared database answers writes with SQLITE_CORRUPT; a "spared" one
\* is never written, because the settings name a terrain repair root.
SharedStates == {"writable", "failing", "spared"}
Isolated == shared = "spared"
Stages == {"idle", "read", "report", "checked", "shadow"}
AssetSet == Tiles \X Levels

Least(i, j) == IF i <= j THEN i ELSE j
Most(i, j) == IF i >= j THEN i ELSE j

\* resolve: follow at most MaxNested directories from level k.
Resolve(t, k) == Most(k, Least(dirs[t], k + MaxNested))
Serving(t) == Resolve(t, 0)

\* The manifest of a level has a row for t.
Counted(t, k) == rows[t][k] \in {"good", "bad", "torn"}
\* is_dir on the shared database's repair directory.
Marked == marked \/ \E t \in Tiles : dirs[t] > 0

\* What the database of asset d holds for tile t: level 0 is shared, the others
\* are the tile's own.
Held(d, t) == IF d[2] = 0 \/ d[1] = t THEN rows[t][d[2]] ELSE "none"

Init ==
    /\ rows \in {f \in [Tiles -> [Levels -> {"none", "good"}]] :
                    \A t \in Tiles, k \in Levels : k > 0 => f[t][k] = "none"}
    /\ shared \in {"writable", "spared"} /\ marked = FALSE
    /\ dirs = [t \in Tiles |-> 0]
    /\ repair = None
    /\ building = [t \in Tiles |-> NotBuilding]
    /\ snap = [c \in Caches |-> {}]
    /\ todo = [c \in Caches |-> {}]
    /\ found = [c \in Caches |-> {}]
    /\ assets = [c \in Caches |-> {}]
    /\ rstage = [c \in Caches |-> "idle"]
    /\ rdb = [c \in Caches |-> None]
    /\ batch = [c \in Caches |-> {}]
    /\ damaged = [c \in Caches |-> {}]
    /\ entry = [c \in Caches |-> [a \in AssetSet |-> "none"]]
    /\ hits = 0

-----------------------------------------------------------------------------
(* The manifest worker of a cache.                                         *)

\* open_region_cache_db and contour_manifest_window: one snapshot of the shared
\* manifest; a row that cannot be read marks the database and is left out.
Select(c) ==
    /\ todo[c] = {}
    /\ todo' = [todo EXCEPT ![c] = Tiles]
    /\ snap' = [snap EXCEPT ![c] = {t \in Tiles : Counted(t, 0)}]
    /\ found' = [found EXCEPT ![c] = {}]
    /\ marked' = (marked \/ \E t \in Tiles : rows[t][0] = "gone")
    /\ UNCHANGED <<rows, shared, dirs, building, repair, assets, reading, entry, hits>>

\* build_path and the count behind it, in ensure_*_bucket_asset: a replacement
\* is looked up afresh, the shared database is judged by the snapshot.
Present(c, t) == IF Serving(t) > 0 THEN Counted(t, Serving(t)) ELSE t \in snap[c]
Target(t) == IF Serving(t) = 0 /\ (Isolated \/ Marked) THEN 1 ELSE Serving(t)

Ensure(c, t) ==
    /\ t \in todo[c]
    /\ IF Present(c, t)
       THEN /\ found' = [found EXCEPT ![c] = @ \cup {<<t, Serving(t)>>}]
            /\ UNCHANGED <<dirs, building>>
       ELSE /\ dirs' = [dirs EXCEPT ![t] = Most(@, Target(t))]
            /\ building' = [building EXCEPT ![t] = IF @ = NotBuilding THEN Target(t) ELSE @]
            /\ UNCHANGED found
    /\ todo' = [todo EXCEPT ![c] = @ \ {t}]
    /\ assets' = IF todo[c] = {t} THEN [assets EXCEPT ![c] = found'[c]] ELSE assets
    /\ UNCHANGED <<rows, shared, marked, repair, snap, reading, entry, hits>>

-----------------------------------------------------------------------------
(* The build thread of a tile.                                             *)

Import_IgnoresCorruption(t) ==   \* mutant: a failed import does not mark the database
    /\ building[t] # NotBuilding
    /\ building' = [building EXCEPT ![t] = NotBuilding]
    /\ LET k == building[t] IN
       IF rows[t][k] \in {"torn", "gone"} \/ (k = 0 /\ shared = "failing")
       THEN UNCHANGED rows
       ELSE rows' = [rows EXCEPT ![t][k] = "good"]
    /\ UNCHANGED <<shared, dirs, marked, repair, selection, reading, entry, hits>>

\* import_tile_into_cache_clipped: one transaction replaces the tile's rows; a
\* corrupt database is marked instead.
Import(t) ==
    /\ building[t] # NotBuilding
    /\ building' = [building EXCEPT ![t] = NotBuilding]
    /\ LET k == building[t] IN
       IF rows[t][k] \in {"torn", "gone"} \/ (k = 0 /\ shared = "failing")
       THEN marked' = (marked \/ k = 0) /\ UNCHANGED rows
       ELSE rows' = [rows EXCEPT ![t][k] = "good"] /\ UNCHANGED marked
    /\ UNCHANGED <<shared, dirs, repair, selection, reading, entry, hits>>

BuildFails(t) ==
    /\ building[t] # NotBuilding /\ hits < DamageBudget
    /\ building' = [building EXCEPT ![t] = NotBuilding]
    /\ hits' = hits + 1
    /\ UNCHANGED <<rows, shared, dirs, marked, repair, selection, reading, entry>>

-----------------------------------------------------------------------------
(* The reader of a cache.                                                  *)

\* begin_*_read claims every selected tile that is not decoded yet, and the
\* whole batch is read from the database of its first request.
BeginRead(c) ==
    /\ rstage[c] = "idle"
    /\ LET missing == {a \in assets[c] : entry[c][a] = "none"} IN
       /\ missing # {}
       /\ batch' = [batch EXCEPT ![c] = missing]
       /\ \E a \in missing : rdb' = [rdb EXCEPT ![c] = a]
    /\ rstage' = [rstage EXCEPT ![c] = "read"]
    /\ UNCHANGED <<disk, repair, selection, damaged, entry, hits>>

\* stream_local_contours, one tile: no row at all is a decoded empty tile.
ReadTile(c, a) ==
    /\ rstage[c] = "read" /\ a \in batch[c]
    /\ LET h == Held(rdb[c], a[1]) IN
       /\ entry' = IF h \in {"bad", "torn"} THEN entry
                   ELSE [entry EXCEPT ![c][a] = IF h = "none" THEN "empty" ELSE "lines"]
       /\ damaged' = IF h \in {"bad", "torn"} THEN [damaged EXCEPT ![c] = @ \cup {a[1]}]
                     ELSE damaged
    /\ batch' = [batch EXCEPT ![c] = @ \ {a}]
    /\ UNCHANGED <<disk, repair, selection, rstage, rdb, hits>>

\* The batch is over; finish_*_read, or the reports once the snapshot is dropped.
EndBatch(c) ==
    /\ rstage[c] = "read" /\ batch[c] = {}
    /\ rstage' = [rstage EXCEPT ![c] = IF damaged[c] = {} THEN "idle" ELSE "report"]
    /\ UNCHANGED <<disk, repair, selection, rdb, batch, damaged, entry, hits>>

\* The reports of a batch are made one after the other.
NextReport(c, t) ==
    /\ damaged' = [damaged EXCEPT ![c] = @ \ {t}]
    /\ rstage' = [rstage EXCEPT ![c] = IF damaged[c] = {t} THEN "idle" ELSE "report"]
    /\ repair' = None
    /\ UNCHANGED <<rdb, batch>>
First(c) == CHOOSE t \in damaged[c] : TRUE

\* discard takes REPAIR and gives up when the path no longer serves the tile.
BeginDiscard(c) ==
    /\ rstage[c] = "report" /\ repair = None
    /\ IF Resolve(First(c), rdb[c][2]) # rdb[c][2]
       THEN NextReport(c, First(c))
       ELSE /\ repair' = c
            /\ rstage' = [rstage EXCEPT ![c] = "checked"]
            /\ UNCHANGED <<rdb, batch, damaged>>
    /\ UNCHANGED <<disk, selection, entry, hits>>

DeleteTile_Unchecked(c) ==   \* mutant: delete_tile trusts the reader's verdict
    /\ rstage[c] = "checked"
    /\ LET t == First(c)
           k == rdb[c][2] IN
       IF rows[t][k] \in {"torn", "gone"} \/ (k = 0 /\ shared # "writable")
       THEN rstage' = [rstage EXCEPT ![c] = "shadow"] /\ UNCHANGED <<rows, repair, rdb, batch, damaged>>
       ELSE rows' = [rows EXCEPT ![t][k] = "none"] /\ NextReport(c, t)
    /\ UNCHANGED <<shared, dirs, marked, building, selection, entry, hits>>

\* delete_tile rechecks the rows under SQLite's writer lock; with a repair root
\* the shared database is only rechecked, never written.
DeleteTile(c) ==
    /\ rstage[c] = "checked"
    /\ LET t == First(c)
           k == rdb[c][2] IN
       CASE rows[t][k] \in {"none", "good"} -> NextReport(c, t) /\ UNCHANGED rows
         [] rows[t][k] = "bad" /\ ~(k = 0 /\ shared # "writable") ->
                rows' = [rows EXCEPT ![t][k] = "none"] /\ NextReport(c, t)
         [] OTHER -> /\ rstage' = [rstage EXCEPT ![c] = "shadow"]
                     /\ UNCHANGED <<rows, repair, rdb, batch, damaged>>
    /\ UNCHANGED <<shared, dirs, marked, building, selection, entry, hits>>

Shadow_Resolved(c) ==   \* mutant: the directory is created below whatever serves now
    /\ rstage[c] = "shadow"
    /\ dirs' = [dirs EXCEPT ![First(c)] = Least(MaxNested + 1, Resolve(First(c), rdb[c][2]) + 1)]
    /\ NextReport(c, First(c))
    /\ UNCHANGED <<rows, shared, marked, building, selection, entry, hits>>

\* create_dir_all of the replacement of the database that was read.
Shadow(c) ==
    /\ rstage[c] = "shadow"
    /\ dirs' = [dirs EXCEPT ![First(c)] = Most(@, rdb[c][2] + 1)]
    /\ NextReport(c, First(c))
    /\ UNCHANGED <<rows, shared, marked, building, selection, entry, hits>>

\* A database that is busy or cannot be opened, a directory that cannot be made: the
\* report is dropped, and the next read of the tile will make another.
DiscardFails(c) ==
    /\ hits < DamageBudget /\ rstage[c] \in {"checked", "shadow"}
    /\ hits' = hits + 1
    /\ NextReport(c, First(c))
    /\ UNCHANGED <<disk, selection, entry>>

-----------------------------------------------------------------------------
(* The disk and the user.                                                  *)

Damage(t, k, content) ==
    /\ hits < DamageBudget
    /\ rows[t][k] = "good"
    /\ content = "gone" => k = 0
    /\ rows' = [rows EXCEPT ![t][k] = content]
    /\ hits' = hits + 1
    /\ UNCHANGED <<shared, dirs, marked, repair, building, selection, reading, entry>>

Freeze ==
    /\ hits < DamageBudget /\ shared = "writable"
    /\ shared' = "failing"
    /\ hits' = hits + 1
    /\ UNCHANGED <<rows, dirs, marked, repair, building, selection, reading, entry>>

\* residency::prune: the view moved away, decoded tiles are dropped.
Prune(c) ==
    /\ hits < DamageBudget /\ \E a \in AssetSet : entry[c][a] # "none"
    /\ entry' = [entry EXCEPT ![c] = [a \in AssetSet |-> "none"]]
    /\ hits' = hits + 1
    /\ UNCHANGED <<disk, repair, selection, reading>>

ManifestStep(c) == Select(c) \/ \E t \in Tiles : Ensure(c, t)
ReaderStep(c) ==
    \/ BeginRead(c) \/ (\E a \in AssetSet : ReadTile(c, a)) \/ EndBatch(c)
    \/ BeginDiscard(c) \/ DeleteTile(c) \/ Shadow(c)
Disturbance ==
    \/ \E t \in Tiles, k \in Levels, x \in {"bad", "torn", "gone"} : Damage(t, k, x)
    \/ Freeze
    \/ \E t \in Tiles : BuildFails(t)
    \/ \E c \in Caches : Prune(c) \/ DiscardFails(c)

Next ==
    \/ \E c \in Caches : ManifestStep(c) \/ ReaderStep(c)
    \/ \E t \in Tiles : Import(t)
    \/ Disturbance

Spec == Init /\ [][Next]_vars

\* Selections repeat at least every LOCAL_MANIFEST_SNAPSHOT_TTL, readers retry
\* after CONTOUR_READ_RETRY_DELAY, and build threads end.
Fairness ==
    /\ \A c \in Caches : WF_vars(ManifestStep(c)) /\ WF_vars(ReaderStep(c))
    /\ \A t \in Tiles : WF_vars(Import(t))
FairSpec == Spec /\ Fairness

-----------------------------------------------------------------------------
(* Properties.                                                             *)

TypeOK ==
    /\ rows \in [Tiles -> [Levels -> Contents]]
    /\ shared \in SharedStates /\ marked \in BOOLEAN
    /\ dirs \in [Tiles -> Levels]
    /\ repair \in Caches \cup {None}
    /\ \A c \in Caches : repair = c <=> rstage[c] \in {"checked", "shadow"}
    /\ building \in [Tiles -> 0 .. NotBuilding]
    /\ snap \in [Caches -> SUBSET Tiles]
    /\ todo \in [Caches -> SUBSET Tiles]
    /\ found \in [Caches -> SUBSET AssetSet]
    /\ assets \in [Caches -> SUBSET AssetSet]
    /\ rstage \in [Caches -> Stages]
    /\ rdb \in [Caches -> AssetSet \cup {None}]
    /\ batch \in [Caches -> SUBSET AssetSet]
    /\ damaged \in [Caches -> SUBSET Tiles]
    /\ entry \in [Caches -> [AssetSet -> {"none", "empty", "lines"}]]
    /\ hits \in 0 .. DamageBudget

Readable(t) == rows[t][Serving(t)] = "good"

\* A discard based on an old read never costs a tile that is readable by now:
\* the verdict may be late, a builder may have replaced the rows meanwhile.
DiscardSparesReadable ==
    [][\A t \in Tiles :
          Readable(t) /\ (\E c \in Caches : ReaderStep(c)) => Readable(t)']_vars

\* Every replacement directory is paid for by a damage (or by the repair root):
\* discards of one failure by several readers never nest.
Allowance == hits + (IF Isolated THEN 1 ELSE 0)
NestingIsPaidFor == \A t \in Tiles : dirs[t] <= Allowance

\* What makes it inductive.  Nothing is broken for free, and the innermost
\* directory of a tile whose rows there are broken leaves one more to be paid.
Broken == {"bad", "torn", "gone"}
BreakageIsPaidFor ==
    /\ marked \/ shared = "failing" => hits > 0
    /\ \A t \in Tiles :
         /\ \A k \in Levels : rows[t][k] \in Broken => hits > 0
         /\ rows[t][dirs[t]] \in Broken => dirs[t] < Allowance

\* Rows, builds, selections and reads are at levels whose directory exists; no
\* build goes to a shared database that is to be spared.
Exists(t, k) == k <= dirs[t] /\ k <= MaxNested
LevelsExist ==
    /\ \A t \in Tiles :
         /\ \A k \in Levels : k > dirs[t] => rows[t][k] = "none"
         /\ building[t] # NotBuilding =>
              Exists(t, building[t]) /\ (Isolated => building[t] > 0)
    /\ \A c \in Caches : \A a \in found[c] \cup assets[c] \cup batch[c] : Exists(a[1], a[2])

\* A reader reports tiles of the one database it reads, and shadows only rows
\* that neither a discard nor a build can replace where they are.
Stuck(t, k) ==
    rows[t][k] \in {"torn", "gone"} \/ (rows[t][k] = "bad" /\ k = 0 /\ shared # "writable")
ReaderShape ==
    \A c \in Caches :
        /\ rstage[c] = "idle" => damaged[c] = {}
        /\ rstage[c] \in {"report", "checked", "shadow"} => damaged[c] # {}
        /\ rstage[c] # "idle" =>
             /\ rdb[c] \in AssetSet /\ Exists(rdb[c][1], rdb[c][2])
             /\ \A t \in damaged[c] : rdb[c][2] = 0 \/ rdb[c][1] = t
        /\ rstage[c] = "shadow" => Stuck(First(c), rdb[c][2])

IInv == TypeOK /\ NestingIsPaidFor /\ BreakageIsPaidFor /\ LevelsExist /\ ReaderShape

\* Once damages stop, no tile stays both unreadable on disk and missing from a
\* cache: discard, shadowing, marking and rebuilding always reach a readable
\* database, also when the shared one rejects writes or lost its manifest rows.
StoreHeals ==
    \A c \in Caches, t \in Tiles :
        []<>(Readable(t) \/ entry[c][<<t, Serving(t)>>] # "none")

\* recovery.md: "A failed tile is never published as successfully empty."  No
\* tile of this model is empty, so an empty entry is a failed tile's.
FailedTileIsNotEmpty == \A c \in Caches, a \in AssetSet : entry[c][a] # "empty"

\* recovery.md: readers prefer the completed replacement.  A tile is decoded
\* as empty only if the database its asset names holds no row of it.
DecodedFromItsDatabase ==
    [][\A c \in Caches, a \in AssetSet :
          entry[c][a] = "none" /\ entry'[c][a] = "empty" => rows[a[1]][a[2]] = "none"]_vars

\* recovery.rs and recovery.md: a corrupt database retains its other readable
\* tiles.  Only damage may take a readable tile away.
ReadableTilesAreRetained ==
    [][\A t \in Tiles : Readable(t) /\ hits' = hits => Readable(t)']_vars

=============================================================================
