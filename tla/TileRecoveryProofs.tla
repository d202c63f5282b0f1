-------------------------- MODULE TileRecoveryProofs --------------------------
(***************************************************************************)
(* The safety of the repair of damaged tiles, for any number of tiles,     *)
(* caches, nested directories and damages.                                 *)
(***************************************************************************)
EXTENDS TileRecovery, TLAPS

(* IInv by the variables its parts are about. *)

DiskInv ==
    /\ rows \in [Tiles -> [Levels -> Contents]]
    /\ shared \in SharedStates /\ marked \in BOOLEAN
    /\ dirs \in [Tiles -> Levels]
    /\ building \in [Tiles -> 0 .. NotBuilding]
    /\ hits \in 0 .. DamageBudget
    /\ NestingIsPaidFor
    /\ BreakageIsPaidFor
    /\ \A t \in Tiles :
         /\ \A k \in Levels : k > dirs[t] => rows[t][k] = "none"
         /\ building[t] # NotBuilding =>
              Exists(t, building[t]) /\ (Isolated => building[t] > 0)

SelectionInv ==
    /\ snap \in [Caches -> SUBSET Tiles]
    /\ todo \in [Caches -> SUBSET Tiles]
    /\ found \in [Caches -> SUBSET AssetSet]
    /\ assets \in [Caches -> SUBSET AssetSet]
    /\ \A c \in Caches : \A a \in found[c] \cup assets[c] : Exists(a[1], a[2])

ReadingInv ==
    /\ repair \in Caches \cup {None}
    /\ \A c \in Caches : repair = c <=> rstage[c] \in {"checked", "shadow"}
    /\ rstage \in [Caches -> Stages]
    /\ rdb \in [Caches -> AssetSet \cup {None}]
    /\ batch \in [Caches -> SUBSET AssetSet]
    /\ damaged \in [Caches -> SUBSET Tiles]
    /\ entry \in [Caches -> [AssetSet -> {"none", "empty", "lines"}]]
    /\ \A c \in Caches :
        /\ \A a \in batch[c] : Exists(a[1], a[2])
        /\ rstage[c] = "idle" => damaged[c] = {}
        /\ rstage[c] \in {"report", "checked", "shadow"} => damaged[c] # {}
        /\ rstage[c] # "idle" =>
             /\ rdb[c] \in AssetSet /\ Exists(rdb[c][1], rdb[c][2])
             /\ \A t \in damaged[c] : rdb[c][2] = 0 \/ rdb[c][1] = t

StuckInv == \A c \in Caches : rstage[c] = "shadow" => Stuck(First(c), rdb[c][2])

Safe == DiskInv /\ SelectionInv /\ ReadingInv /\ StuckInv

\* The four groups are the invariant, regrouped.
LEMMA Groups == Safe <=> IInv
BY DEF Safe, DiskInv, SelectionInv, ReadingInv, StuckInv, IInv, TypeOK, LevelsExist, ReaderShape

-----------------------------------------------------------------------------
(* Levels, directories and what pays for them.                             *)

\* The bounds are numbers, and there is a level below the shared database.
LEMMA LevelsAreNumbers ==
    /\ MaxNested \in Nat /\ MaxNested > 0 /\ NotBuilding \in Nat
    /\ \A k \in Levels : k \in Nat
    /\ \A k \in Nat : k <= MaxNested => k \in Levels /\ k + 1 \in Levels
BY NestingAssumption DEF Levels, NotBuilding

\* An asset is a tile and a level.
LEMMA AssetParts ==
    \A a \in AssetSet : a[1] \in Tiles /\ a[2] \in Levels /\ a[2] \in Nat
BY LevelsAreNumbers DEF AssetSet

\* resolve stays where it is exactly when nothing nests below, as far as it looks.
LEMMA ResolveBounds ==
    ASSUME DiskInv, NEW t \in Tiles
    PROVE  /\ Serving(t) \in Nat /\ Exists(t, Serving(t))
           /\ dirs[t] <= MaxNested => Serving(t) = dirs[t]
           /\ Serving(t) = 0 => dirs[t] = 0
<1>1. dirs[t] \in Nat
    BY LevelsAreNumbers DEF DiskInv
<1> QED
    BY <1>1, LevelsAreNumbers DEF Serving, Resolve, Most, Least, Exists

\* Time only adds to what pays for directories: faults add up, and a database that is
\* spared stays so.
Later == hits' \in 0 .. DamageBudget /\ hits' >= hits /\ (Isolated' <=> Isolated)

\* The damages no directory stands for yet are a number.
LEMMA AllowanceIsNumber ==
    ASSUME DiskInv
    PROVE  Allowance \in Nat /\ hits \in Nat /\ (hits > 0 => Allowance > 0) /\ (Isolated => Allowance > 0)
BY NestingAssumption DEF DiskInv, Allowance

\* It never falls by the passing of time alone.
LEMMA AllowanceGrows ==
    ASSUME DiskInv, Later
    PROVE  Allowance' \in Nat /\ Allowance' >= Allowance /\ hits' \in Nat /\ (hits > 0 => hits' > 0)
<1>1. hits \in Nat /\ hits' \in Nat /\ hits' >= hits
    BY NestingAssumption DEF DiskInv, Later
<1>2. PICK r \in Nat : Allowance = hits + r /\ Allowance' = hits' + r
    <2>1. CASE Isolated
        BY <1>1, <2>1 DEF Allowance, Later
    <2>2. CASE ~Isolated
        BY <1>1, <2>2 DEF Allowance, Later
    <2> QED
        BY <2>1, <2>2
<1>3. \A i, j \in Nat : i >= j => i + r \in Nat /\ i + r >= j + r /\ (j > 0 => i > 0)
    OBVIOUS
<1> QED
    BY ONLY <1>1, <1>2, <1>3

\* Directories are only ever created.
Deeper == dirs' \in [Tiles -> Levels] /\ \A t \in Tiles : dirs[t] <= dirs'[t]

\* A directory that exists goes on to exist.
LEMMA ExistsKept ==
    ASSUME DiskInv, Deeper
    PROVE  \A t \in Tiles : \A k \in Nat : Exists(t, k) => Exists(t, k)'
<1> SUFFICES ASSUME NEW t \in Tiles, NEW k \in Nat, Exists(t, k)
             PROVE  Exists(t, k)'
    OBVIOUS
<1>1. dirs[t] \in Nat /\ dirs'[t] \in Nat
    BY LevelsAreNumbers DEF DiskInv, Deeper
<1> QED
    BY <1>1, LevelsAreNumbers DEF Exists, Deeper

-----------------------------------------------------------------------------
(* What a step leaves alone.                                               *)

\* The invariant of the disk depends on the disk alone.
LEMMA DiskKept ==
    ASSUME DiskInv, UNCHANGED disk, Later
    PROVE  DiskInv' /\ Deeper
<1> USE DEF disk, DiskInv
<1>1. \A t \in Tiles : dirs[t] \in Nat
    BY LevelsAreNumbers
<1>2. NestingIsPaidFor'
    BY <1>1, AllowanceIsNumber, AllowanceGrows DEF NestingIsPaidFor
<1>3. BreakageIsPaidFor'
    BY <1>1, AllowanceIsNumber, AllowanceGrows DEF BreakageIsPaidFor
<1>4. Deeper
    BY <1>1 DEF Deeper
<1> QED
    BY <1>2, <1>3, <1>4 DEF Later, Exists, Isolated

\* That of selections survives deeper directories.
LEMMA SelectionKept ==
    ASSUME DiskInv, SelectionInv, UNCHANGED selection, Deeper
    PROVE  SelectionInv'
<1>1. \A c \in Caches : \A a \in found[c] \cup assets[c] : a \in AssetSet
    BY DEF SelectionInv
<1>2. \A c \in Caches : \A a \in found[c] \cup assets[c] : Exists(a[1], a[2])'
    BY <1>1, AssetParts, ExistsKept DEF SelectionInv
<1> QED
    BY <1>2 DEF SelectionInv, selection

\* So does that of readers.
LEMMA ReadingKept ==
    ASSUME DiskInv, ReadingInv, UNCHANGED <<repair, reading>>, Deeper,
           entry' \in [Caches -> [AssetSet -> {"none", "empty", "lines"}]]
    PROVE  ReadingInv'
<1>1. \A c \in Caches : \A a \in batch[c] : a \in AssetSet
    BY DEF ReadingInv
<1>3. \A c \in Caches : \A a \in batch[c] : Exists(a[1], a[2])'
    BY <1>1, AssetParts, ExistsKept DEF ReadingInv
<1>4. \A c \in Caches : rstage[c] # "idle" => Exists(rdb[c][1], rdb[c][2])'
    BY AssetParts, ExistsKept DEF ReadingInv, reading
<1> QED
    BY <1>3, <1>4 DEF ReadingInv, reading

\* The verdict of a reader stands as long as its rows stay as they are.
LEMMA StuckKept ==
    ASSUME ReadingInv, StuckInv, UNCHANGED reading, shared' \in SharedStates,
           shared # "writable" => shared' # "writable",
           \A t \in Tiles, k \in Levels : Stuck(t, k) => rows'[t][k] = rows[t][k]
    PROVE  StuckInv'
<1> SUFFICES ASSUME NEW c \in Caches, rstage[c] = "shadow"
             PROVE  Stuck(First(c), rdb[c][2])'
    BY DEF StuckInv, reading
<1>1. First(c)' = First(c)
    BY DEF First, reading
<1>2. First(c) \in Tiles /\ rdb[c][2] \in Levels
    BY DEF First, ReadingInv, AssetSet
<1>3. Stuck(First(c), rdb[c][2])
    BY DEF StuckInv
<1> QED
    BY <1>1, <1>2, <1>3 DEF Stuck, reading

-----------------------------------------------------------------------------
(* The steps of the manifest worker and of the build threads.              *)

\* A selection reads the manifest of today.
LEMMA SelectStep ==
    ASSUME Safe, NEW c \in Caches, Select(c)
    PROVE  Safe'
<1> USE DEF Safe, Select
<1>1. Later /\ marked' \in BOOLEAN
    BY NestingAssumption DEF DiskInv, Later, Isolated
<1>2. Deeper
    BY LevelsAreNumbers DEF Deeper, DiskInv
<1>3. marked' => hits > 0
    BY LevelsAreNumbers DEF DiskInv, BreakageIsPaidFor, Broken
<1>4. DiskInv'
    BY <1>1, <1>3 DEF DiskInv, NestingIsPaidFor, BreakageIsPaidFor, Allowance, Isolated, Exists
<1>5. SelectionInv'
    BY DEF SelectionInv, Exists
<1>6. ReadingInv'
    BY <1>2, ReadingKept DEF ReadingInv
<1>7. StuckInv'
    BY StuckKept DEF DiskInv
<1> QED
    BY <1>4, <1>5, <1>6, <1>7

\* Where a missing tile is built: at a level that is there, or in a first replacement
\* that a repair root or an earlier damage pays for.
LEMMA TargetIsPaidFor ==
    ASSUME DiskInv, NEW t \in Tiles
    PROVE  /\ Target(t) \in Nat /\ Target(t) <= MaxNested
           /\ Target(t) <= dirs[t] \/ (dirs[t] = 0 /\ Target(t) = 1 /\ 1 <= Allowance)
           /\ Isolated => Target(t) > 0
<1>1. /\ Serving(t) \in Nat /\ Serving(t) <= dirs[t] /\ Serving(t) <= MaxNested
      /\ Serving(t) = 0 => dirs[t] = 0
    BY ResolveBounds DEF Exists
<1>2. Marked => Allowance > 0
    <2>1. CASE marked
        BY <2>1, AllowanceIsNumber DEF DiskInv, BreakageIsPaidFor
    <2>2. ASSUME NEW u \in Tiles, dirs[u] > 0
          PROVE  Allowance > 0
        BY <2>2, AllowanceIsNumber, LevelsAreNumbers DEF DiskInv, NestingIsPaidFor
    <2> QED
        BY <2>1, <2>2 DEF Marked
<1>3. CASE Serving(t) = 0 /\ (Isolated \/ Marked)
    BY <1>1, <1>2, <1>3, AllowanceIsNumber, LevelsAreNumbers DEF Target
<1>4. CASE ~(Serving(t) = 0 /\ (Isolated \/ Marked))
    BY <1>1, <1>4, LevelsAreNumbers DEF Target
<1> QED
    BY <1>3, <1>4

\* Creating the directories of a tile down to a level that is paid for.
LEMMA DirsGrow ==
    ASSUME DiskInv, NEW t \in Tiles, NEW k \in Levels,
           k <= dirs[t] \/ k <= Allowance,
           dirs' = [dirs EXCEPT ![t] = Most(@, k)],
           UNCHANGED <<rows, shared, marked, hits>>,
           building' = building
           \/ (k <= MaxNested /\ (Isolated => k > 0) /\ building' = [building EXCEPT ![t] = k])
    PROVE  DiskInv' /\ Deeper /\ Later
<1> DEFINE depth == Most(dirs[t], k)
<1>1. /\ depth \in Levels /\ depth \in Nat /\ dirs[t] \in Nat /\ k \in Nat
      /\ depth >= dirs[t] /\ depth >= k /\ depth \in {dirs[t], k}
    BY LevelsAreNumbers DEF DiskInv, Most
<1>2. dirs' = [dirs EXCEPT ![t] = depth]
    OBVIOUS
<1> HIDE DEF depth
<1>3. dirs' \in [Tiles -> Levels] /\ dirs'[t] = depth /\ \A u \in Tiles \ {t} : dirs'[u] = dirs[u]
    BY <1>1, <1>2 DEF DiskInv
<1>4. Deeper
    <2>1. \A u \in Tiles : dirs[u] \in Nat
        BY LevelsAreNumbers DEF DiskInv
    <2> QED
        BY <1>1, <1>3, <2>1 DEF Deeper
<1>5. Later /\ Allowance' = Allowance
    BY NestingAssumption DEF Later, DiskInv, Allowance, Isolated
<1>6. NestingIsPaidFor'
    BY <1>1, <1>3, <1>5, AllowanceIsNumber DEF DiskInv, NestingIsPaidFor
<1>7. \A u \in Tiles : \A l \in Levels : l > dirs'[u] => rows'[u][l] = "none"
    BY <1>1, <1>3, LevelsAreNumbers DEF DiskInv
<1>8. BreakageIsPaidFor'
    <2>1. ASSUME NEW u \in Tiles, rows[u][dirs'[u]] \in Broken
          PROVE  dirs'[u] < Allowance
        <3>1. dirs'[u] = dirs[u]
            BY <1>1, <1>3, <2>1, LevelsAreNumbers DEF DiskInv, Broken
        <3> QED
            BY <2>1, <3>1 DEF DiskInv, BreakageIsPaidFor
    <2> QED
        BY <1>5, <2>1 DEF DiskInv, BreakageIsPaidFor
<1>9. /\ building' \in [Tiles -> 0 .. NotBuilding]
      /\ \A u \in Tiles : building'[u] # NotBuilding =>
            Exists(u, building[u])' /\ (Isolated => building'[u] > 0)
    <2>1. CASE building' = building
        <3>1. \A u \in Tiles : building[u] \in Nat
            BY DEF DiskInv
        <3> QED
            BY <1>4, <2>1, <3>1, ExistsKept DEF DiskInv
    <2>2. CASE building' = [building EXCEPT ![t] = k] /\ k <= MaxNested /\ (Isolated => k > 0)
        <3>1. building' \in [Tiles -> 0 .. NotBuilding]
            BY <1>1, <2>2, LevelsAreNumbers DEF DiskInv, NotBuilding
        <3>2. Exists(t, building[t])' /\ (Isolated => building'[t] > 0)
            BY <1>1, <1>3, <2>2 DEF Exists, DiskInv
        <3>3. ASSUME NEW u \in Tiles \ {t}, building'[u] # NotBuilding
              PROVE  Exists(u, building[u])' /\ (Isolated => building'[u] > 0)
            BY <1>3, <2>2, <3>3 DEF Exists, DiskInv
        <3> QED
            BY <3>1, <3>2, <3>3
    <2> QED
        BY <2>1, <2>2
<1> QED
    BY <1>3, <1>4, <1>5, <1>6, <1>7, <1>8, <1>9 DEF DiskInv, Isolated

\* A tile is served, or built in a directory that has been paid for.
LEMMA EnsureStep ==
    ASSUME Safe, NEW c \in Caches, NEW t \in Tiles, Ensure(c, t)
    PROVE  Safe'
<1> USE DEF Safe
<1>1. Later /\ shared' = shared
    BY NestingAssumption DEF DiskInv, Later, Isolated, Ensure
<1>2. DiskInv' /\ Deeper
    <2>1. CASE Present(c, t)
        BY <1>1, <2>1, DiskKept DEF Ensure, disk
    <2>2. CASE ~Present(c, t)
        <3> DEFINE k == Target(t)
        <3>1. k \in Levels /\ k <= MaxNested /\ (Isolated => k > 0) /\ (k <= dirs[t] \/ k <= Allowance)
            BY TargetIsPaidFor, LevelsAreNumbers
        <3>2. dirs' = [dirs EXCEPT ![t] = Most(@, k)] /\ UNCHANGED <<rows, shared, marked, hits>>
            BY <2>2 DEF Ensure
        <3>3. building' = building \/ building' = [building EXCEPT ![t] = k]
            BY <2>2 DEF Ensure, DiskInv
        <3> HIDE DEF k
        <3> QED
            BY <3>1, <3>2, <3>3, DirsGrow
    <2> QED
        BY <2>1, <2>2
<1>3. SelectionInv'
    <2> DEFINE a == <<t, Serving(t)>>
    <2>1. Present(c, t) => a \in AssetSet /\ Exists(a[1], a[2])
        BY ResolveBounds, LevelsAreNumbers DEF AssetSet, Exists
    <2>2. found' = found \/ (Present(c, t) /\ found' = [found EXCEPT ![c] = @ \cup {a}])
        BY DEF Ensure
    <2> HIDE DEF a
    <2>3. found' \in [Caches -> SUBSET AssetSet] /\ \A d \in Caches : \A b \in found'[d] : Exists(b[1], b[2])
        BY <2>1, <2>2 DEF SelectionInv
    <2>4. assets' = assets \/ assets' = [assets EXCEPT ![c] = found'[c]]
        BY DEF Ensure
    <2>5. assets' \in [Caches -> SUBSET AssetSet] /\ \A d \in Caches : \A b \in assets'[d] : Exists(b[1], b[2])
        BY <2>3, <2>4 DEF SelectionInv
    <2>6. snap' \in [Caches -> SUBSET Tiles] /\ todo' \in [Caches -> SUBSET Tiles]
        BY DEF Ensure, SelectionInv
    <2>7. \A d \in Caches : \A b \in found'[d] \cup assets'[d] : b \in AssetSet /\ Exists(b[1], b[2])
        BY <2>3, <2>5
    <2>8. \A d \in Caches : \A b \in found'[d] \cup assets'[d] : Exists(b[1], b[2])'
        BY <1>2, <2>7, AssetParts, ExistsKept
    <2> QED
        BY <2>3, <2>5, <2>6, <2>8 DEF SelectionInv
<1>4. ReadingInv'
    BY <1>2, ReadingKept DEF ReadingInv, Ensure
<1>5. StuckInv'
    BY <1>1, StuckKept DEF DiskInv, Ensure
<1> QED
    BY <1>2, <1>3, <1>4, <1>5

\* Rows change only where a directory is, and only damage breaks them.
LEMMA RowsChange ==
    ASSUME DiskInv, NEW t \in Tiles, NEW k \in Levels, NEW x \in Contents,
           Exists(t, k) \/ rows[t][k] # "none",
           rows' = [rows EXCEPT ![t][k] = x],
           x \in Broken => hits' = hits + 1,
           hits' \in 0 .. DamageBudget /\ hits' >= hits,
           UNCHANGED <<shared, dirs, marked, building>>
    PROVE  DiskInv' /\ Deeper /\ Later
<1> DEFINE new == [rows[t] EXCEPT ![k] = x]
<1>1. rows' = [rows EXCEPT ![t] = new] /\ new \in [Levels -> Contents]
      /\ new[k] = x /\ \A l \in Levels \ {k} : new[l] = rows[t][l]
    BY DEF DiskInv
<1> HIDE DEF new
<1>2. /\ rows' \in [Tiles -> [Levels -> Contents]]
      /\ rows'[t] = new /\ \A u \in Tiles \ {t} : rows'[u] = rows[u]
    BY <1>1 DEF DiskInv
<1>3. \A u \in Tiles : dirs[u] \in Levels /\ dirs[u] \in Nat
    BY LevelsAreNumbers DEF DiskInv
<1>4. Later /\ Deeper
    BY <1>3 DEF Later, Deeper, Isolated, DiskInv
<1>5. Allowance' \in Nat /\ Allowance' >= Allowance /\ hits' \in Nat /\ (hits > 0 => hits' > 0)
      /\ Allowance \in Nat /\ hits \in Nat
    BY <1>4, AllowanceGrows, AllowanceIsNumber
<1>6. x \in Broken => hits' > 0 /\ Allowance' > Allowance
    <2>1. \A i, j \in Nat : i = j + 1 => i > 0 /\ i > j
        OBVIOUS
    <2>2. hits' = hits + 1 => Allowance' = Allowance + 1
        <3>1. CASE Isolated
            BY <1>5, <3>1 DEF Allowance, Isolated
        <3>2. CASE ~Isolated
            BY <1>5, <3>2 DEF Allowance, Isolated
        <3> QED
            BY <3>1, <3>2
    <2> QED
        BY <1>5, <2>1, <2>2
<1>7. k <= dirs[t]
    BY <1>3, LevelsAreNumbers DEF DiskInv, Exists
<1>8. NestingIsPaidFor'
    BY <1>3, <1>5 DEF DiskInv, NestingIsPaidFor
<1>9. BreakageIsPaidFor'
    <2>1. marked' \/ shared' = "failing" => hits' > 0
        BY <1>5 DEF DiskInv, BreakageIsPaidFor
    <2>2. ASSUME NEW u \in Tiles, NEW l \in Levels, rows'[u][l] \in Broken
          PROVE  hits' > 0
        BY <1>1, <1>2, <1>5, <1>6, <2>2 DEF DiskInv, BreakageIsPaidFor
    <2>3. ASSUME NEW u \in Tiles, rows'[u][dirs[u]] \in Broken
          PROVE  dirs[u] < Allowance'
        <3>1. CASE u = t /\ dirs[t] = k
            <4>1. Allowance' > Allowance /\ dirs[u] <= Allowance
                BY <1>1, <1>2, <1>6, <2>3, <3>1 DEF DiskInv, NestingIsPaidFor
            <4> QED
                BY <1>3, <1>5, <4>1
        <3>2. CASE ~(u = t /\ dirs[t] = k)
            <4>1. rows[u][dirs[u]] \in Broken
                BY <1>1, <1>2, <1>3, <2>3, <3>2
            <4>2. dirs[u] < Allowance
                BY <4>1 DEF DiskInv, BreakageIsPaidFor
            <4> QED
                BY <1>3, <1>5, <4>2
        <3> QED
            BY <3>1, <3>2
    <2> QED
        BY <2>1, <2>2, <2>3 DEF BreakageIsPaidFor
<1>10. \A u \in Tiles : \A l \in Levels : l > dirs[u] => rows'[u][l] = "none"
    <2>1. ASSUME NEW l \in Levels, l > dirs[t]
          PROVE  rows'[t][l] = "none"
        BY <1>1, <1>2, <1>3, <1>7, <2>1, LevelsAreNumbers DEF DiskInv
    <2> QED
        BY <1>2, <2>1 DEF DiskInv
<1> QED
    BY <1>2, <1>4, <1>8, <1>9, <1>10 DEF DiskInv, Exists, Isolated

\* An import repairs the rows it writes.
LEMMA ImportStep ==
    ASSUME Safe, NEW t \in Tiles, Import(t)
    PROVE  Safe'
<1> DEFINE k == building[t]
           refused == rows[t][k] \in {"torn", "gone"} \/ (k = 0 /\ shared = "failing")
<1> USE DEF Safe
<1>1. /\ k \in Levels /\ k \in Nat /\ Exists(t, k) /\ (Isolated => k > 0)
      /\ k # NotBuilding /\ building' = [building EXCEPT ![t] = NotBuilding]
      /\ UNCHANGED <<shared, dirs, repair, selection, reading, entry, hits>>
    BY LevelsAreNumbers DEF Import, DiskInv, Exists
<1>2. IF refused THEN marked' = (marked \/ k = 0) /\ rows' = rows
                 ELSE rows' = [rows EXCEPT ![t][k] = "good"] /\ marked' = marked
    BY DEF Import
<1> HIDE DEF k
<1>3. \A u \in Tiles : dirs[u] \in Nat
    BY LevelsAreNumbers DEF DiskInv
<1>4. Later /\ Deeper
    BY <1>1, <1>3, NestingAssumption DEF Later, Deeper, Isolated, DiskInv
<1>5. /\ building' \in [Tiles -> 0 .. NotBuilding]
      /\ \A u \in Tiles : building'[u] # NotBuilding => building'[u] = building[u]
    BY <1>1, LevelsAreNumbers DEF DiskInv
<1>6. DiskInv'
    <2>1. CASE refused
        <3>1. hits > 0 /\ marked' \in BOOLEAN
            BY <1>1, <1>2, <2>1 DEF DiskInv, BreakageIsPaidFor, Broken
        <3> QED
            BY <1>1, <1>2, <1>5, <2>1, <3>1
            DEF DiskInv, NestingIsPaidFor, BreakageIsPaidFor, Allowance, Isolated, Exists
    <2>2. CASE ~refused
        <3> DEFINE new == [rows[t] EXCEPT ![k] = "good"]
        <3>1. rows' = [rows EXCEPT ![t] = new] /\ new \in [Levels -> Contents]
              /\ new[k] = "good" /\ \A l \in Levels \ {k} : new[l] = rows[t][l]
            BY <1>1, <1>2, <2>2 DEF DiskInv, Contents
        <3> HIDE DEF new, refused
        <3>2. /\ rows' \in [Tiles -> [Levels -> Contents]] /\ marked' = marked
              /\ rows'[t] = new /\ \A u \in Tiles \ {t} : rows'[u] = rows[u]
            BY <1>2, <2>2, <3>1 DEF DiskInv
        <3>3. \A u \in Tiles, l \in Levels :
                 rows'[u][l] = rows[u][l] \/ (u = t /\ l = k /\ rows'[u][l] = "good")
            BY <3>1, <3>2
        <3>4. \A u \in Tiles : \A l \in Levels : l > dirs[u] => rows'[u][l] = "none"
            <4>1. k <= dirs[t]
                BY <1>1 DEF Exists
            <4> QED
                BY <1>1, <1>3, <3>3, <4>1, LevelsAreNumbers DEF DiskInv
        <3>5. \A u \in Tiles, l \in Levels : rows'[u][l] \in Broken => rows[u][l] \in Broken
            BY <3>3 DEF Broken
        <3>6. BreakageIsPaidFor'
            BY <1>1, <3>2, <3>5 DEF DiskInv, BreakageIsPaidFor, Allowance, Isolated
        <3> QED
            BY <1>1, <1>5, <3>2, <3>4, <3>6 DEF DiskInv, NestingIsPaidFor, Allowance, Isolated, Exists
    <2> QED
        BY <2>1, <2>2
<1>7. SelectionInv' /\ ReadingInv'
    BY <1>1, <1>4, SelectionKept, ReadingKept DEF ReadingInv
<1>8. StuckInv'
    <2>1. ASSUME NEW u \in Tiles, NEW l \in Levels, Stuck(u, l)
          PROVE  rows'[u][l] = rows[u][l]
        <3>1. CASE u = t /\ l = k
            <4>1. k = 0 => shared # "spared"
                BY <1>1 DEF Isolated
            <4> QED
                BY <1>2, <2>1, <3>1, <4>1 DEF Stuck, DiskInv, SharedStates
        <3>2. CASE ~(u = t /\ l = k)
            BY <1>1, <1>2, <3>2 DEF DiskInv
        <3> QED
            BY <3>1, <3>2
    <2> QED
        BY <1>1, <2>1, StuckKept DEF DiskInv
<1> QED
    BY <1>6, <1>7, <1>8

\* A failed build leaves the rows as they were.
LEMMA BuildFailsStep ==
    ASSUME Safe, NEW t \in Tiles, BuildFails(t)
    PROVE  Safe'
<1> USE DEF Safe, BuildFails
<1>1. Later /\ hits' \in 0 .. DamageBudget
    BY NestingAssumption DEF DiskInv, Later, Isolated
<1>2. \A u \in Tiles : dirs[u] \in Nat
    BY LevelsAreNumbers DEF DiskInv
<1>3. Deeper
    BY <1>2 DEF Deeper, DiskInv
<1>4. NestingIsPaidFor' /\ BreakageIsPaidFor'
    BY <1>1, <1>2, AllowanceGrows, AllowanceIsNumber DEF DiskInv, NestingIsPaidFor, BreakageIsPaidFor
<1>5. /\ building' \in [Tiles -> 0 .. NotBuilding]
      /\ \A u \in Tiles : building'[u] # NotBuilding => building'[u] = building[u]
    BY LevelsAreNumbers DEF DiskInv
<1>6. DiskInv'
    BY <1>1, <1>4, <1>5 DEF DiskInv, Exists, Isolated
<1>7. SelectionInv' /\ ReadingInv'
    BY <1>3, SelectionKept, ReadingKept DEF ReadingInv
<1>8. StuckInv'
    BY StuckKept DEF DiskInv
<1> QED
    BY <1>6, <1>7, <1>8

-----------------------------------------------------------------------------
(* The steps of a reader.                                                  *)

\* A batch that begins holds selected tiles.
LEMMA BeginReadStep ==
    ASSUME Safe, NEW c \in Caches, BeginRead(c)
    PROVE  Safe'
<1> USE DEF Safe
<1>1. UNCHANGED <<disk, repair, selection, damaged, entry, hits>> /\ rstage[c] = "idle"
    BY DEF BeginRead
<1>2. Later
    BY <1>1, NestingAssumption DEF Later, Isolated, DiskInv, disk
<1>3. DiskInv' /\ Deeper
    BY <1>1, <1>2, DiskKept
<1>4. SelectionInv'
    BY <1>1, <1>3, SelectionKept
<1>5. PICK a \in assets[c] :
        /\ rdb' = [rdb EXCEPT ![c] = a]
        /\ batch' = [batch EXCEPT ![c] = {b \in assets[c] : entry[c][b] = "none"}]
        /\ rstage' = [rstage EXCEPT ![c] = "read"]
    BY DEF BeginRead
<1>6. \A d \in Caches : rstage'[d] # rstage[d] => d = c /\ rstage'[c] = "read"
    BY <1>5 DEF ReadingInv
<1>7. /\ a \in AssetSet /\ Exists(a[1], a[2])
      /\ \A b \in assets[c] : b \in AssetSet /\ Exists(b[1], b[2])
    BY DEF SelectionInv
<1>8. /\ rdb' \in [Caches -> AssetSet \cup {None}] /\ batch' \in [Caches -> SUBSET AssetSet]
      /\ rstage' \in [Caches -> Stages]
      /\ rdb'[c] = a /\ batch'[c] \subseteq assets[c] /\ rstage'[c] = "read"
      /\ \A d \in Caches \ {c} : rdb'[d] = rdb[d] /\ batch'[d] = batch[d] /\ rstage'[d] = rstage[d]
    BY <1>5, <1>7 DEF ReadingInv, Stages
<1>9. UNCHANGED <<dirs, repair, damaged, entry>>
    BY <1>1 DEF disk
<1>10. \A d \in Caches : repair = d <=> rstage'[d] \in {"checked", "shadow"}
    BY <1>1, <1>8 DEF ReadingInv
<1>11. ReadingInv'
    BY <1>1, <1>7, <1>8, <1>9, <1>10 DEF ReadingInv, Exists
<1>12. StuckInv'
    <2> SUFFICES ASSUME NEW d \in Caches, rstage'[d] = "shadow"
                 PROVE  Stuck(First(d), rdb[d][2])'
        BY DEF StuckInv
    <2>1. d # c /\ rstage[d] = "shadow" /\ rdb'[d] = rdb[d]
        BY <1>8
    <2>2. First(d)' = First(d)
        BY <1>9 DEF First
    <2> QED
        BY <1>1, <2>1, <2>2 DEF StuckInv, Stuck, disk
<1> QED
    BY <1>3, <1>4, <1>11, <1>12

\* A tile that does not decode is noted with the level it was read from.
LEMMA ReadTileStep ==
    ASSUME Safe, NEW c \in Caches, NEW a \in AssetSet, ReadTile(c, a)
    PROVE  Safe'
<1> USE DEF Safe
<1> DEFINE unreadable == Held(rdb[c], a[1]) \in {"bad", "torn"}
<1>1. UNCHANGED <<disk, repair, selection, rstage, rdb, hits>> /\ rstage[c] = "read" /\ a \in batch[c]
    BY DEF ReadTile
<1>2. Later
    BY <1>1, NestingAssumption DEF Later, Isolated, DiskInv, disk
<1>3. DiskInv' /\ Deeper
    BY <1>1, <1>2, DiskKept
<1>4. SelectionInv'
    BY <1>1, <1>3, SelectionKept
<1>5. /\ batch' = [batch EXCEPT ![c] = @ \ {a}]
      /\ damaged' = damaged \/ (unreadable /\ damaged' = [damaged EXCEPT ![c] = @ \cup {a[1]}])
    BY DEF ReadTile
<1>6. entry' \in [Caches -> [AssetSet -> {"none", "empty", "lines"}]]
    <2> DEFINE read == IF Held(rdb[c], a[1]) = "none" THEN "empty" ELSE "lines"
               new == [entry[c] EXCEPT ![a] = read]
    <2>1. new \in [AssetSet -> {"none", "empty", "lines"}]
        BY DEF ReadingInv
    <2>2. entry' = entry \/ entry' = [entry EXCEPT ![c] = new]
        BY DEF ReadTile
    <2> HIDE DEF new
    <2> QED
        BY <2>1, <2>2 DEF ReadingInv
<1>7. unreadable => rdb[c][2] = 0 \/ rdb[c][1] = a[1]
    BY DEF Held
<1> HIDE DEF unreadable
<1>8. a[1] \in Tiles
    BY AssetParts
<1>9. /\ damaged' \in [Caches -> SUBSET Tiles] /\ batch' \in [Caches -> SUBSET AssetSet]
      /\ \A d \in Caches : batch'[d] \subseteq batch[d]
      /\ \A d \in Caches \ {c} : damaged'[d] = damaged[d]
      /\ \A t \in damaged'[c] : t \in damaged[c] \/ rdb[c][2] = 0 \/ rdb[c][1] = t
    BY <1>5, <1>7, <1>8 DEF ReadingInv
<1>10. UNCHANGED <<dirs, repair, rstage, rdb>>
    BY <1>1 DEF disk
<1>11. ReadingInv'
    BY <1>1, <1>6, <1>9, <1>10 DEF ReadingInv, Exists
<1>12. StuckInv'
    <2> SUFFICES ASSUME NEW d \in Caches, rstage'[d] = "shadow"
                 PROVE  Stuck(First(d), rdb[d][2])'
        BY DEF StuckInv
    <2>1. d # c /\ rstage[d] = "shadow"
        BY <1>1
    <2>2. First(d)' = First(d)
        BY <1>9, <2>1 DEF First
    <2> QED
        BY <1>1, <2>1, <2>2 DEF StuckInv, Stuck, disk
<1> QED
    BY <1>3, <1>4, <1>11, <1>12

\* The end of a batch goes on to its reports.
LEMMA EndBatchStep ==
    ASSUME Safe, NEW c \in Caches, EndBatch(c)
    PROVE  Safe'
<1> USE DEF Safe
<1>1. UNCHANGED <<disk, repair, selection, rdb, batch, damaged, entry, hits>> /\ rstage[c] = "read"
    BY DEF EndBatch
<1>2. Later
    BY <1>1, NestingAssumption DEF Later, Isolated, DiskInv, disk
<1>3. DiskInv' /\ Deeper
    BY <1>1, <1>2, DiskKept
<1>4. SelectionInv'
    BY <1>1, <1>3, SelectionKept
<1>5. /\ rstage' \in [Caches -> Stages]
      /\ rstage'[c] \in {"idle", "report"} /\ (rstage'[c] = "idle" <=> damaged[c] = {})
      /\ \A d \in Caches \ {c} : rstage'[d] = rstage[d]
    BY DEF EndBatch, ReadingInv, Stages
<1>6. UNCHANGED dirs
    BY <1>1 DEF disk
<1>7. \A d \in Caches : repair = d <=> rstage'[d] \in {"checked", "shadow"}
    BY <1>1, <1>5 DEF ReadingInv
<1>8. ReadingInv'
    BY <1>1, <1>5, <1>6, <1>7 DEF ReadingInv, Exists
<1>9. StuckInv'
    <2> SUFFICES ASSUME NEW d \in Caches, rstage'[d] = "shadow"
                 PROVE  Stuck(First(d), rdb[d][2])'
        BY DEF StuckInv
    <2>1. d # c /\ rstage[d] = "shadow"
        BY <1>5
    <2>2. First(d)' = First(d)
        BY <1>1 DEF First
    <2> QED
        BY <1>1, <2>1, <2>2 DEF StuckInv, Stuck, disk
<1> QED
    BY <1>3, <1>4, <1>8, <1>9

\* The holder of REPAIR, or a reader that finds it free, goes on to its next report:
\* no other reader is in the middle of a discard.
LEMMA NextReportKeeps ==
    ASSUME DiskInv, ReadingInv, NEW c \in Caches, repair \in {None, c},
           rstage[c] \in {"report", "checked", "shadow"}, NextReport(c, First(c)),
           UNCHANGED entry, Deeper
    PROVE  ReadingInv' /\ StuckInv'
<1> DEFINE t == First(c)
<1>1. /\ damaged' = [damaged EXCEPT ![c] = @ \ {t}]
      /\ rstage' = [rstage EXCEPT ![c] = IF damaged[c] = {t} THEN "idle" ELSE "report"]
      /\ repair' = None /\ UNCHANGED <<rdb, batch>>
    BY DEF NextReport
<1>2. t \in damaged[c]
    BY DEF First, ReadingInv
<1> HIDE DEF t
<1>3. /\ damaged' \in [Caches -> SUBSET Tiles] /\ damaged'[c] = damaged[c] \ {t}
      /\ \A d \in Caches \ {c} : damaged'[d] = damaged[d] /\ rstage'[d] = rstage[d]
      /\ rstage' \in [Caches -> Stages] /\ rstage'[c] \in {"idle", "report"}
      /\ rstage'[c] = "idle" <=> damaged[c] = {t}
    BY <1>1 DEF ReadingInv, Stages
<1>4. \A d \in Caches : rstage'[d] \notin {"checked", "shadow"} /\ repair' # d
    BY <1>1, <1>3, NoneAssumption DEF ReadingInv
<1>5. damaged'[c] = {} <=> rstage'[c] = "idle"
    BY <1>2, <1>3
<1>6. /\ \A d \in Caches : \A a \in batch'[d] : Exists(a[1], a[2])'
      /\ \A d \in Caches : rstage[d] # "idle" => Exists(rdb[d][1], rdb[d][2])'
    <2>1. \A d \in Caches : \A a \in batch[d] : a \in AssetSet
        BY DEF ReadingInv
    <2> QED
        BY <1>1, <2>1, AssetParts, ExistsKept DEF ReadingInv
<1>7. \A d \in Caches : rstage'[d] # "idle" => rstage[d] # "idle"
    BY <1>3
<1>8. \A d \in Caches : damaged'[d] \subseteq damaged[d]
    BY <1>3
<1>9. repair' \in Caches \cup {None} /\ rdb' = rdb /\ batch' = batch /\ entry' = entry
    BY <1>1
<1>10. \A d \in Caches :
         /\ repair' = d <=> rstage'[d] \in {"checked", "shadow"}
         /\ rstage'[d] = "idle" => damaged'[d] = {}
         /\ rstage'[d] \in {"report", "checked", "shadow"} => damaged'[d] # {}
    BY <1>3, <1>4, <1>5 DEF ReadingInv
<1>11. ReadingInv'
    BY <1>3, <1>6, <1>7, <1>8, <1>9, <1>10 DEF ReadingInv
<1> QED
    BY <1>4, <1>11 DEF StuckInv

\* A discard takes the REPAIR lock.
LEMMA BeginDiscardStep ==
    ASSUME Safe, NEW c \in Caches, BeginDiscard(c)
    PROVE  Safe'
<1> USE DEF Safe
<1>1. UNCHANGED <<disk, selection, entry, hits>> /\ rstage[c] = "report" /\ repair = None
    BY DEF BeginDiscard
<1>2. Later
    BY <1>1, NestingAssumption DEF Later, Isolated, DiskInv, disk
<1>3. DiskInv' /\ Deeper
    BY <1>1, <1>2, DiskKept
<1>4. SelectionInv'
    BY <1>1, <1>3, SelectionKept
<1>5. CASE Resolve(First(c), rdb[c][2]) # rdb[c][2]
    BY <1>1, <1>3, <1>4, <1>5, NextReportKeeps DEF BeginDiscard
<1>6. CASE Resolve(First(c), rdb[c][2]) = rdb[c][2]
    <2>1. repair' = c /\ rstage' = [rstage EXCEPT ![c] = "checked"] /\ UNCHANGED <<rdb, batch, damaged>>
        BY <1>6 DEF BeginDiscard
    <2>2. /\ rstage' \in [Caches -> Stages] /\ rstage'[c] = "checked"
          /\ \A d \in Caches \ {c} : rstage'[d] = rstage[d] /\ rstage[d] \notin {"checked", "shadow"}
        BY <1>1, <2>1, NoneAssumption DEF ReadingInv, Stages
    <2>3. \A d \in Caches : repair' = d <=> rstage'[d] \in {"checked", "shadow"}
        BY <2>1, <2>2
    <2>4. UNCHANGED <<dirs, entry>> /\ repair' \in Caches \cup {None}
        BY <1>1, <2>1 DEF disk
    <2>5. ReadingInv'
        BY <1>1, <2>1, <2>2, <2>3, <2>4 DEF ReadingInv, Exists
    <2>6. StuckInv'
        BY <2>2 DEF StuckInv
    <2> QED
        BY <1>3, <1>4, <2>5, <2>6
<1> QED
    BY <1>5, <1>6

\* What a reader reports is a tile of the database it read, at a level that is there.
LEMMA ReportedTile ==
    ASSUME DiskInv, ReadingInv, NEW c \in Caches, rstage[c] \in {"report", "checked", "shadow"}
    PROVE  /\ First(c) \in damaged[c] /\ First(c) \in Tiles
           /\ rdb[c][2] \in Levels /\ rdb[c][2] \in Nat /\ rdb[c][2] + 1 \in Levels
           /\ Exists(First(c), rdb[c][2])
<1>1. First(c) \in damaged[c] /\ First(c) \in Tiles
    BY DEF First, ReadingInv
<1>2. /\ rdb[c][2] \in Levels /\ rdb[c][2] \in Nat /\ Exists(rdb[c][1], rdb[c][2])
      /\ rdb[c][2] = 0 \/ rdb[c][1] = First(c)
    BY <1>1, AssetParts DEF ReadingInv
<1>3. dirs[First(c)] \in Nat
    BY <1>1, LevelsAreNumbers DEF DiskInv
<1> QED
    BY <1>1, <1>2, <1>3, LevelsAreNumbers DEF Exists

\* What is deleted is looked at again first.
LEMMA DeleteTileStep ==
    ASSUME Safe, NEW c \in Caches, DeleteTile(c)
    PROVE  Safe'
<1> DEFINE t == First(c)
           k == rdb[c][2]
<1> USE DEF Safe
<1>1. /\ rstage[c] = "checked" /\ repair = c
      /\ UNCHANGED <<shared, dirs, marked, building, selection, entry, hits>>
    BY DEF DeleteTile, ReadingInv
<1>2. t \in damaged[c] /\ t \in Tiles /\ k \in Levels /\ Exists(t, k)
    BY <1>1, ReportedTile
<1>3. Later
    BY <1>1, NestingAssumption DEF Later, Isolated, DiskInv
<1>4. CASE rows[t][k] \in {"none", "good"}
    <2>1. NextReport(c, First(c)) /\ UNCHANGED rows
        BY <1>4 DEF DeleteTile
    <2>2. DiskInv' /\ Deeper
        BY <1>1, <1>3, <2>1, DiskKept DEF disk
    <2> QED
        BY <1>1, <2>1, <2>2, SelectionKept, NextReportKeeps
<1>5. CASE rows[t][k] = "bad" /\ ~(k = 0 /\ shared # "writable")
    <2>1. rows' = [rows EXCEPT ![t][k] = "none"] /\ NextReport(c, First(c))
        BY <1>5 DEF DeleteTile
    <2> HIDE DEF t, k
    <2>2. DiskInv' /\ Deeper
        <3>1. "none" \in Contents /\ "none" \notin Broken
            BY DEF Contents, Broken
        <3> QED
            BY <1>1, <1>2, <1>3, <2>1, <3>1, RowsChange DEF Later
    <2> QED
        BY <1>1, <2>1, <2>2, SelectionKept, NextReportKeeps
<1>6. CASE /\ rows[t][k] \notin {"none", "good"}
           /\ ~(rows[t][k] = "bad" /\ ~(k = 0 /\ shared # "writable"))
    <2>1. rstage' = [rstage EXCEPT ![c] = "shadow"] /\ UNCHANGED <<rows, repair, rdb, batch, damaged>>
        BY <1>6 DEF DeleteTile
    <2>2. DiskInv' /\ Deeper
        BY <1>1, <1>3, <2>1, DiskKept DEF disk
    <2>3. Stuck(t, k)
        <3>1. rows[t][k] \in Contents
            BY <1>2 DEF DiskInv
        <3> QED
            BY <1>6, <3>1 DEF Stuck, Contents
    <2>4. /\ rstage' \in [Caches -> Stages] /\ rstage'[c] = "shadow"
          /\ \A d \in Caches \ {c} : rstage'[d] = rstage[d] /\ rstage[d] \notin {"checked", "shadow"}
        BY <1>1, <2>1 DEF ReadingInv, Stages
    <2>5. \A d \in Caches : repair' = d <=> rstage'[d] \in {"checked", "shadow"}
        BY <1>1, <2>1, <2>4
    <2>6. damaged[c] # {} /\ UNCHANGED <<dirs, entry, repair, rdb, batch, damaged>>
        BY <1>1, <1>2, <2>1
    <2>7. ReadingInv'
        BY <1>1, <2>4, <2>5, <2>6 DEF ReadingInv, Exists
    <2>8. StuckInv'
        <3>1. First(c)' = First(c)
            BY <2>1 DEF First
        <3>2. Stuck(First(c), rdb[c][2])'
            BY <1>1, <2>1, <2>3, <3>1 DEF Stuck
        <3> QED
            BY <2>4, <3>2 DEF StuckInv
    <2> QED
        BY <1>1, <2>2, <2>7, <2>8, SelectionKept
<1> QED
    BY <1>4, <1>5, <1>6

\* The new directory is paid for by the damage to the rows above it.
LEMMA ShadowStep ==
    ASSUME Safe, NEW c \in Caches, Shadow(c)
    PROVE  Safe'
<1> DEFINE t == First(c)
           k == rdb[c][2]
           below == k + 1
<1> USE DEF Safe
<1>1. /\ rstage[c] = "shadow" /\ repair = c
      /\ UNCHANGED <<rows, shared, marked, building, selection, entry, hits>>
      /\ dirs' = [dirs EXCEPT ![t] = Most(@, below)] /\ NextReport(c, First(c))
    BY DEF Shadow, ReadingInv
<1>2. t \in Tiles /\ k \in Levels /\ k \in Nat /\ below \in Levels /\ Exists(t, k)
    BY <1>1, ReportedTile
<1>3. below <= dirs[t] \/ below <= Allowance
    <2>1. dirs[t] \in Nat
        BY <1>2, LevelsAreNumbers DEF DiskInv
    <2>2. rows[t][k] \in Broken
        BY <1>1 DEF StuckInv, Stuck, Broken
    <2>3. k = dirs[t] => k < Allowance
        BY <1>2, <2>2 DEF DiskInv, BreakageIsPaidFor
    <2> QED
        BY <1>2, <2>1, <2>3, AllowanceIsNumber DEF Exists
<1> HIDE DEF t, k, below
<1>4. DiskInv' /\ Deeper
    BY <1>1, <1>2, <1>3, DirsGrow
<1> QED
    BY <1>1, <1>4, SelectionKept, NextReportKeeps

-----------------------------------------------------------------------------
(* The disk and the user.                                                  *)

\* A damage adds to what the directories may cost.
LEMMA DamageStep ==
    ASSUME Safe, NEW t \in Tiles, NEW k \in Levels, NEW x \in {"bad", "torn", "gone"}, Damage(t, k, x)
    PROVE  Safe'
<1> USE DEF Safe
<1>1. /\ rows[t][k] = "good" /\ rows' = [rows EXCEPT ![t][k] = x] /\ hits' = hits + 1
      /\ UNCHANGED <<shared, dirs, marked, repair, building, selection, reading, entry>>
    BY DEF Damage
<1>2. hits' \in 0 .. DamageBudget /\ hits' >= hits
    BY NestingAssumption DEF Damage, DiskInv
<1>3. x \in Contents
    BY DEF Contents
<1>4. DiskInv' /\ Deeper
    BY <1>1, <1>2, <1>3, RowsChange
<1>5. SelectionInv' /\ ReadingInv'
    BY <1>1, <1>4, SelectionKept, ReadingKept DEF ReadingInv
<1>6. StuckInv'
    <2>1. ASSUME NEW u \in Tiles, NEW l \in Levels, Stuck(u, l)
          PROVE  rows'[u][l] = rows[u][l]
        BY <1>1, <2>1 DEF Stuck, DiskInv
    <2> QED
        BY <1>1, <2>1, StuckKept DEF DiskInv
<1> QED
    BY <1>4, <1>5, <1>6

\* A shared database that fails or is spared changes no rows.
LEMMA FreezeStep ==
    ASSUME Safe, Freeze
    PROVE  Safe'
<1> USE DEF Safe, Freeze
<1>1. Later /\ shared' \in SharedStates
    BY NestingAssumption DEF DiskInv, Later, Isolated, SharedStates
<1>2. \A u \in Tiles : dirs[u] \in Nat
    BY LevelsAreNumbers DEF DiskInv
<1>3. Deeper
    BY <1>2 DEF Deeper, DiskInv
<1>4. hits' > 0
    BY NestingAssumption DEF DiskInv
<1>5. NestingIsPaidFor' /\ BreakageIsPaidFor'
    BY <1>1, <1>2, <1>4, AllowanceGrows, AllowanceIsNumber DEF DiskInv, NestingIsPaidFor, BreakageIsPaidFor
<1>6. DiskInv'
    BY <1>1, <1>5 DEF DiskInv, Exists, Later
<1>7. SelectionInv' /\ ReadingInv'
    BY <1>3, SelectionKept, ReadingKept DEF ReadingInv
<1>8. StuckInv'
    BY <1>1, StuckKept
<1> QED
    BY <1>6, <1>7, <1>8

\* A cache forgets tiles off screen.
LEMMA PruneStep ==
    ASSUME Safe, NEW c \in Caches, Prune(c)
    PROVE  Safe'
<1> USE DEF Safe, Prune
<1>1. Later
    BY NestingAssumption DEF DiskInv, Later, Isolated, disk
<1>2. DiskInv' /\ Deeper
    BY <1>1, DiskKept
<1>3. SelectionInv'
    BY <1>2, SelectionKept
<1>4. entry' \in [Caches -> [AssetSet -> {"none", "empty", "lines"}]]
    BY DEF ReadingInv
<1>5. ReadingInv'
    BY <1>2, <1>4, ReadingKept
<1>6. StuckInv'
    BY StuckKept DEF DiskInv, disk
<1> QED
    BY <1>2, <1>3, <1>5, <1>6

\* A discard that fails leaves everything as it was but the reader.
LEMMA DiscardFailsStep ==
    ASSUME Safe, NEW c \in Caches, DiscardFails(c)
    PROVE  Safe'
<1> USE DEF Safe
<1>1. /\ UNCHANGED <<disk, selection, entry>> /\ NextReport(c, First(c))
      /\ rstage[c] \in {"checked", "shadow"} /\ hits < DamageBudget /\ hits' = hits + 1
    BY DEF DiscardFails
<1>2. Later
    BY <1>1, NestingAssumption DEF DiskInv, Later, Isolated, disk
<1>3. DiskInv' /\ Deeper
    BY <1>1, <1>2, DiskKept
<1>4. SelectionInv'
    BY <1>1, <1>3, SelectionKept
<1>5. repair \in {None, c}
    BY <1>1 DEF ReadingInv
<1> QED
    BY <1>1, <1>3, <1>4, <1>5, NextReportKeeps

-----------------------------------------------------------------------------

\* Nothing is damaged at first.
LEMMA InitHolds == Init => Safe
<1> SUFFICES ASSUME Init
             PROVE  Safe
    OBVIOUS
<1> USE DEF Init
<1>1. DiskInv
    <2>1. 0 \in Levels /\ 0 \in 0 .. DamageBudget /\ NotBuilding \in 0 .. NotBuilding
        BY NestingAssumption DEF Levels, NotBuilding
    <2>2. /\ rows \in [Tiles -> [Levels -> Contents]]
          /\ \A t \in Tiles, k \in Levels : rows[t][k] \in {"none", "good"}
          /\ \A t \in Tiles, k \in Levels : k > 0 => rows[t][k] = "none"
        BY DEF Contents
    <2>3. Allowance \in Nat
        BY DEF Allowance
    <2>4. NestingIsPaidFor
        BY <2>3 DEF NestingIsPaidFor
    <2>5. BreakageIsPaidFor
        BY <2>1, <2>2 DEF BreakageIsPaidFor, Broken
    <2> QED
        BY <2>1, <2>2, <2>4, <2>5 DEF DiskInv, SharedStates
<1>2. SelectionInv
    BY DEF SelectionInv
<1>3. ReadingInv /\ StuckInv
    BY NoneAssumption DEF ReadingInv, StuckInv, Stages
<1> QED
    BY <1>1, <1>2, <1>3 DEF Safe

\* Every step keeps the strengthened invariant.
LEMMA StepHolds == Safe /\ [Next]_vars => Safe'
<1> SUFFICES ASSUME Safe, [Next]_vars
             PROVE  Safe'
    OBVIOUS
<1>1. ASSUME NEW c \in Caches, ManifestStep(c)
      PROVE  Safe'
    BY <1>1, SelectStep, EnsureStep DEF ManifestStep
<1>2. ASSUME NEW c \in Caches, ReaderStep(c)
      PROVE  Safe'
    BY <1>2, BeginReadStep, ReadTileStep, EndBatchStep, BeginDiscardStep, DeleteTileStep, ShadowStep
    DEF ReaderStep
<1>3. CASE \E t \in Tiles : Import(t)
    BY <1>3, ImportStep
<1>4. CASE Disturbance
    BY <1>4, DamageStep, FreezeStep, BuildFailsStep, PruneStep, DiscardFailsStep DEF Disturbance
<1>5. CASE UNCHANGED vars
    <2>1. Later /\ UNCHANGED <<disk, selection, reading, repair, entry>>
        BY <1>5, NestingAssumption DEF vars, disk, Later, Isolated, Safe, DiskInv
    <2>2. DiskInv' /\ Deeper
        BY <2>1, DiskKept DEF Safe
    <2> QED
        BY <2>1, <2>2, SelectionKept, ReadingKept, StuckKept DEF Safe, ReadingInv, DiskInv, disk
<1> QED
    BY <1>1, <1>2, <1>3, <1>4, <1>5 DEF Next

\* Hence it holds always.
LEMMA SafeAlways == Spec => []Safe
BY InitHolds, StepHolds, PTL DEF Spec

\* At every moment the databases, the builds, the selections and the readers fit
\* together as IInv says; above all, every replacement directory of a tile is paid for
\* by a damage of its own (or by the repair root), however many readers report it.
THEOREM NestingStaysPaidFor == Spec => []IInv
<1>1. Safe => IInv
    BY Groups
<1> QED
    BY <1>1, SafeAlways, PTL

\* No step of a reader makes a readable tile unreadable.
LEMMA ReaderSpares ==
    ASSUME Safe, NEW c \in Caches, ReaderStep(c), NEW t \in Tiles, Readable(t)
    PROVE  Readable(t)'
<1>1. CASE UNCHANGED disk
    BY <1>1 DEF disk, Readable, Serving, Resolve
<1>2. CASE DeleteTile(c)
    <2>1. UNCHANGED dirs /\ rstage[c] = "checked"
        BY <1>2 DEF DeleteTile
    <2>2. First(c) \in Tiles /\ rdb[c][2] \in Levels
        BY <2>1, ReportedTile DEF Safe
    <2>3. rows' = rows \/ (/\ rows[First(c)][rdb[c][2]] = "bad"
                          /\ rows' = [rows EXCEPT ![First(c)][rdb[c][2]] = "none"])
        BY <1>2 DEF DeleteTile
    <2>4. Serving(t)' = Serving(t) /\ rows[t][Serving(t)] = "good"
        BY <2>1 DEF Serving, Resolve, Readable
    <2>5. Serving(t) \in Levels
        BY ResolveBounds, LevelsAreNumbers DEF Safe, Exists
    <2>6. rows'[t][Serving(t)] = "good"
        BY <2>2, <2>3, <2>4, <2>5 DEF Safe, DiskInv
    <2> QED
        BY <2>4, <2>6 DEF Readable
<1>3. CASE Shadow(c)
    <2> DEFINE k == rdb[c][2]
    <2>1. /\ UNCHANGED rows /\ rstage[c] = "shadow"
          /\ dirs' = [dirs EXCEPT ![First(c)] = Most(@, k + 1)]
        BY <1>3 DEF Shadow
    <2>2. First(c) \in Tiles /\ k \in Nat /\ Exists(First(c), k)
        BY <2>1, ReportedTile DEF Safe
    <2>3. Stuck(First(c), k)
        BY <2>1 DEF Safe, StuckInv
    <2>4. dirs[First(c)] \in Nat
        BY <2>2, LevelsAreNumbers DEF Safe, DiskInv
    <2>5. CASE t = First(c)
        <3>1. k # dirs[t]
            <4>1. k = dirs[t] => Serving(t) = k
                BY <2>2, <2>5, ResolveBounds DEF Safe, Exists
            <4> QED
                BY <2>3, <2>5, <4>1 DEF Readable, Stuck
        <3>2. Most(dirs[t], k + 1) = dirs[t]
            BY <2>2, <2>4, <2>5, <3>1 DEF Exists, Most
        <3>3. dirs'[t] = dirs[t]
            BY <2>1, <2>5, <3>2 DEF Safe, DiskInv
        <3> QED
            BY <2>1, <3>3 DEF Readable, Serving, Resolve
    <2>6. CASE t # First(c)
        <3>1. dirs'[t] = dirs[t]
            BY <2>1, <2>6 DEF Safe, DiskInv
        <3> QED
            BY <2>1, <3>1 DEF Readable, Serving, Resolve
    <2> QED
        BY <2>5, <2>6
<1> QED
    BY <1>1, <1>2, <1>3 DEF ReaderStep, BeginRead, ReadTile, EndBatch, BeginDiscard

\* A late verdict never costs a tile that has become readable meanwhile: what a reader
\* deletes is bad at that moment, and what it shadows could not be repaired in place.
THEOREM DiscardsSpareReadable == Spec => DiscardSparesReadable
<1>1. Safe /\ [Next]_vars =>
        [\A t \in Tiles : Readable(t) /\ (\E c \in Caches : ReaderStep(c)) => Readable(t)']_vars
    BY ReaderSpares
<1> QED
    BY <1>1, SafeAlways, PTL DEF Spec, DiscardSparesReadable

=============================================================================
