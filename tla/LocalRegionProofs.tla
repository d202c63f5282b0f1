-------------------------- MODULE LocalRegionProofs ---------------------------
(***************************************************************************)
(* Proofs about LocalRegion: its invariant for every set of views, tiles   *)
(* and bounds, and that a stationary view decodes no tile twice.           *)
(*                                                                         *)
(* Core is the inductive part of IInv.  Each action disturbs few of its    *)
(* conjuncts, so a lemma for each group of variables says what is kept     *)
(* while they are, and a lemma for each action proves the others.          *)
(***************************************************************************)
EXTENDS LocalRegion, FiniteSetTheorems, TLAPS

Cache ==
    /\ SceneIsolation /\ ResidentIsWanted /\ ClaimsHaveReader
    /\ ReaderShape /\ MergeShape /\ DecodedIsResident
Core == TypeOK /\ RepaintShape /\ Cache /\ SelectionShape /\ CountersArePaid

cacheVars == <<residency, sceneKey, loadEpoch, geometry, inFlight, loadInFlight, merged,
               mergers, readers, decoded>>
selectionVars == <<snapshot, selectors, store>>
counterVars == <<camera, sceneKey, loadEpoch, manifestInFlight, selectors, resets, spent>>

-----------------------------------------------------------------------------
(* What is kept while a group of variables is.                             *)

\* No conjunct of Cache reads anything but cacheVars.
LEMMA CacheKept ==
    ASSUME Cache, UNCHANGED cacheVars
    PROVE  Cache'
  <1>1. \A t : IsWanted(t)' <=> IsWanted(t)
    BY DEF cacheVars, residency, IsWanted, Wanted, Near, OnScreen
  <1> QED
    BY <1>1 DEF cacheVars, residency, geometry, Cache, SceneIsolation, ResidentIsWanted,
                ClaimsHaveReader, ReaderShape, MergeShape, DecodedIsResident

\* No conjunct of SelectionShape reads anything but selectionVars.
LEMMA SelectionsKept ==
    ASSUME SelectionShape, UNCHANGED selectionVars
    PROVE  SelectionShape'
  <1>1. \A key : Selection(key)' = Selection(key)
    BY DEF selectionVars, store, Selection
  <1> QED
    BY <1>1 DEF selectionVars, store, SelectionShape, Lists

\* No conjunct of CountersArePaid reads anything but counterVars.
LEMMA CountersKept ==
    ASSUME CountersArePaid, UNCHANGED counterVars
    PROVE  CountersArePaid'
  BY DEF counterVars, CountersArePaid, EpochIsPaid, SlotsArePaid, Selecting

\* To spend more of the budget pays for no less.
LEMMA EpochKept ==
    ASSUME EpochIsPaid, UNCHANGED <<camera, sceneKey, loadEpoch>>,
           loadEpoch \in Nat, spent \in Nat, spent' \in Nat, spent <= spent'
    PROVE  EpochIsPaid'
  <1> DEFINE open == IF camera = None THEN 0 ELSE 1
             due == IF camera \in Hosted /\ sceneKey # Scene[camera] THEN 1 ELSE 0
  <1>1. open \in Nat /\ due \in Nat
    OBVIOUS
  <1>2. \A e, s, t, o, d \in Nat : e <= 2 * s + o - d /\ s <= t => e <= 2 * t + o - d
    BY ONLY SMT
  <1>3. loadEpoch <= 2 * spent + open - due
    BY DEF EpochIsPaid
  <1> HIDE DEF open, due
  <1>4. loadEpoch <= 2 * spent' + open - due
    BY <1>1, <1>2, <1>3
  <1> QED
    BY <1>4 DEF EpochIsPaid, open, due

\* There are Budget + 1 slots, and finitely many of them are taken.
LEMMA SlotsAreFinite ==
    /\ IsFiniteSet(Slots) /\ Cardinality(Slots) = Budget + 1
    /\ \A S \in SUBSET Slots : IsFiniteSet(S) /\ Cardinality(S) \in Nat
  <1>1. Budget \in Nat /\ 1 \in Int /\ Budget + 1 \in Int
    BY ViewAssumption
  <1>2. IsFiniteSet(Slots) /\ Cardinality(Slots) = Budget + 1
    BY <1>1, FS_Interval DEF Slots
  <1>3. \A S \in SUBSET Slots : IsFiniteSet(S)
    BY <1>2, FS_Subset
  <1> QED
    BY <1>2, <1>3, FS_CardinalityType

\* The epoch has room for a load of another scene, and for a reset that is paid for.
LEMMA EpochHasRoom ==
    ASSUME Core
    PROVE  /\ frame # "viewport" /\ sceneKey # Scene[camera] => loadEpoch + 1 \in Epochs
           /\ spent < Budget => loadEpoch + 1 \in Epochs
  <1>1. /\ loadEpoch \in Nat /\ spent \in Nat /\ spent <= Budget /\ Budget \in Nat
    BY ViewAssumption DEF Core, TypeOK, Epochs
  <1>2. loadEpoch <= 2 * spent + 1
    BY <1>1 DEF Core, CountersArePaid, EpochIsPaid, SlotsArePaid
  <1>3. ASSUME frame # "viewport", sceneKey # Scene[camera]
        PROVE  loadEpoch <= 2 * spent
    <2>1. camera \in Hosted
      BY <1>3 DEF Core, RepaintShape
    <2> QED
      BY <1>1, <1>3, <2>1 DEF Core, CountersArePaid, EpochIsPaid, SlotsArePaid
  <1> QED
    BY <1>1, <1>2, <1>3 DEF Epochs

\* What begin_local_read does to the claims: nothing, or a batch of offered tiles that
\* are wanted, and neither decoded nor claimed, gets the only reader.
LEMMA ReadClaims ==
    ASSUME NEW key, NEW known, NEW kept, NEW claimed, NEW retry, NEW epoch,
           BeginLocalRead(key, known, kept, claimed, retry, epoch)
    PROVE  \/ inFlight' = claimed /\ UNCHANGED <<loadInFlight, readers>>
           \/ /\ loadInFlight = None
              /\ \E S \in SUBSET offered :
                    /\ \A t \in S : /\ Wanted(t, key.centre, viewport, known)
                                    /\ t \notin kept \cup claimed
                    /\ inFlight' = claimed \cup S
                    /\ loadInFlight' = epoch
                    /\ readers' = readers \cup
                          {[epoch |-> epoch, batch |-> S, todo |-> S, failed |-> {}]}
  <1> DEFINE todo == {t \in offered : /\ Wanted(t, key.centre, viewport, known)
                                      /\ t \notin kept \cup claimed}
  <1>1. CASE loadInFlight # None \/ retry \/ todo = {}
    BY <1>1 DEF BeginLocalRead
  <1>2. CASE ~(loadInFlight # None \/ retry \/ todo = {})
    <2>1. PICK S \in SUBSET todo :
                 /\ inFlight' = claimed \cup S
                 /\ loadInFlight' = epoch
                 /\ readers' = readers \cup
                       {[epoch |-> epoch, batch |-> S, todo |-> S, failed |-> {}]}
      BY <1>2 DEF BeginLocalRead
    <2> QED
      BY <1>2, <2>1
  <1> QED
    BY <1>1, <1>2

-----------------------------------------------------------------------------
(* The initial state.                                                      *)

\* An empty cache satisfies the invariant.
LEMMA InitHolds ==
    Init => Core
  <1> SUFFICES ASSUME Init PROVE Core
    OBVIOUS
  <1>1. TypeOK
    <2>1. 0 \in Epochs /\ 0 \in 0 .. Budget
      BY ViewAssumption DEF Epochs
    <2>2. selectors \in [Slots -> {None} \cup Selections]
      BY DEF Init
    <2> QED
      BY <2>1, <2>2 DEF Init, TypeOK
  <1>2. Cache
    BY DEF Init, Cache, SceneIsolation, ResidentIsWanted, ClaimsHaveReader, ReaderShape,
           MergeShape, DecodedIsResident
  <1>4. RepaintShape /\ SelectionShape
    BY DEF Init, RepaintShape, SelectionShape
  <1>3. CountersArePaid
    <2>1. Selecting = {}
      BY DEF Init, Selecting
    <2>2. camera \in Hosted => FALSE
      BY NoneAssumption, ViewAssumption DEF Init
    <2> QED
      BY <2>1, <2>2, FS_EmptySet DEF Init, CountersArePaid, EpochIsPaid, SlotsArePaid
  <1> QED
    BY <1>1, <1>2, <1>3, <1>4 DEF Core

-----------------------------------------------------------------------------
(* The repaint.                                                            *)

\* A merge that loses its freshness is still a merge, and a fresh one of what is kept
\* is not touched.
LEMMA EntriesShape ==
    ASSUME TypeOK, \A m \in mergers : m.fresh => m.tiles \subseteq entries,
           NEW kept \in SUBSET Tiles, SetEntries(kept)
    PROVE  /\ entries' = kept
           /\ mergedKey' \in {None} \cup Centres
           /\ mergers' \subseteq Merges
           /\ \A m \in mergers' : m.fresh => m.tiles \subseteq kept
  <1>1. CASE kept = entries
    BY <1>1 DEF SetEntries, TypeOK
  <1>2. CASE kept # entries
    <2>1. \A m \in Merges : /\ [m EXCEPT !.fresh = FALSE] \in Merges
                            /\ ~[m EXCEPT !.fresh = FALSE].fresh
      BY DEF Merges
    <2>2. mergers' = {[m EXCEPT !.fresh = FALSE] : m \in mergers} /\ mergedKey' = None
      BY <1>2 DEF SetEntries
    <2> QED
      BY <2>1, <2>2 DEF SetEntries, TypeOK
  <1> QED
    BY <1>1, <1>2

\* What prune leaves is what is wanted, and the picture shows no tile without geometry.
LEMMA PruneShape ==
    ASSUME TypeOK, MergeShape, NEW win, NEW view, NEW known, Prune(win, view, known)
    PROVE  /\ entries' = {t \in entries : Wanted(t, win, view, known)}
           /\ publishedTiles' = {t \in publishedTiles : Wanted(t, win, view, known)}
           /\ mergedKey' \in {None} \cup Centres
           /\ mergers' \subseteq Merges
           /\ merged' \in SUBSET merged
           /\ MergeShape'
  <1> DEFINE Kept(S) == {t \in S : Wanted(t, win, view, known)}
  <1>1. Kept(entries) \in SUBSET Tiles
    BY DEF TypeOK
  <1>2. /\ SetEntries(Kept(entries)) /\ publishedTiles' = Kept(publishedTiles)
        /\ merged' = IF Kept(entries) = {} /\ entries # {} THEN {} ELSE merged
    BY DEF Prune, PruneFor
  <1> HIDE DEF Kept
  <1>3. /\ entries' = Kept(entries) /\ mergedKey' \in {None} \cup Centres /\ mergers' \subseteq Merges
        /\ \A m \in mergers' : m.fresh => m.tiles \subseteq Kept(entries)
    BY <1>1, <1>2, EntriesShape DEF MergeShape
  <1>4. publishedTiles' \subseteq Kept(entries) /\ publishedTiles \subseteq merged
    BY <1>2 DEF Kept, MergeShape
  <1>5. publishedTiles' \subseteq publishedTiles
    BY <1>2 DEF Kept
  <1>6. publishedTiles' \subseteq merged' /\ merged' \in SUBSET merged
    BY <1>2, <1>4, <1>5
  <1>7. MergeShape'
    BY <1>3, <1>4, <1>6 DEF MergeShape
  <1> QED
    BY <1>2, <1>3, <1>6, <1>7 DEF Kept

\* set_local_viewport keeps what the new viewport wants.
LEMMA ViewportStep ==
    ASSUME Core, NEW v \in Views, SetLocalViewport(v),
           \/ v = camera /\ UNCHANGED spent
           \/ camera = None /\ UNCHANGED spent
           \/ Spend
    PROVE  Core'
  <1>1. /\ TypeOK /\ MergeShape /\ Prune(window, v, bounds)
        /\ camera' = v /\ viewport' = v /\ UNCHANGED <<window, bounds>>
        /\ frame' = IF v \in Hosted THEN "manifest" ELSE "viewport"
        /\ decoded' = IF viewport = v THEN decoded ELSE {}
    BY DEF Core, Cache, SetLocalViewport
  <1>2. /\ UNCHANGED <<offered, sceneKey, loadEpoch, reading, mergeRequestedKey, mergeInFlight,
                       manifest, selectors, readers, store, resets>>
    BY DEF SetLocalViewport
  <1>3. /\ entries' = {t \in entries : Wanted(t, window, v, bounds)}
        /\ publishedTiles' = {t \in publishedTiles : Wanted(t, window, v, bounds)}
        /\ mergedKey' \in {None} \cup Centres /\ mergers' \subseteq Merges
        /\ merged' \in SUBSET merged /\ MergeShape'
    BY <1>1, PruneShape
  <1>4. \A t : IsWanted(t)' <=> Wanted(t, window, v, bounds)
    BY <1>1 DEF IsWanted, Wanted, Near, OnScreen
  <1>5. TypeOK'
    <2>1. spent' \in 0 .. Budget
      BY <1>1, ViewAssumption DEF TypeOK, Spend
    <2> QED
      BY <1>1, <1>2, <1>3, <2>1 DEF TypeOK, reading, manifest, store
  <1>6. RepaintShape'
    BY <1>1 DEF RepaintShape
  <1>7. Cache'
    <2>1. SceneIsolation' /\ ClaimsHaveReader' /\ ReaderShape'
      BY <1>2, <1>3 DEF Core, Cache, SceneIsolation, ClaimsHaveReader, ReaderShape, reading
    <2>2. ResidentIsWanted'
      BY <1>3, <1>4 DEF ResidentIsWanted
    <2>3. DecodedIsResident'
      <3>1. CASE viewport = v
        <4>1. \A t \in decoded : Wanted(t, window, v, bounds) => t \in entries
          BY <3>1 DEF Core, Cache, DecodedIsResident, IsWanted
        <4> QED
          BY <1>1, <1>3, <1>4, <4>1 DEF DecodedIsResident
      <3>2. CASE viewport # v
        BY <1>1, <3>2 DEF DecodedIsResident
      <3> QED
        BY <3>1, <3>2
    <2> QED
      BY <1>3, <2>1, <2>2, <2>3 DEF Cache
  <1>8. SelectionShape'
    BY <1>2, SelectionsKept DEF Core, selectionVars, manifest, store
  <1>9. CountersArePaid'
    <2> DEFINE due == IF camera \in Hosted /\ sceneKey # Scene[camera] THEN 1 ELSE 0
    <2>1. v # None /\ due \in 0 .. 1 /\ due' \in 0 .. 1 /\ (v = camera => due' = due)
      BY <1>1, <1>2, NoneAssumption
    <2>2. /\ loadEpoch <= 2 * spent + (IF camera = None THEN 0 ELSE 1) - due /\ resets <= spent
          /\ loadEpoch \in Nat /\ spent \in Nat /\ resets \in Nat
          /\ Cardinality(Selecting) <= resets + (IF manifestInFlight = None THEN 0 ELSE 1)
      BY <1>1 DEF Core, CountersArePaid, EpochIsPaid, SlotsArePaid, TypeOK, Epochs
    <2>3. camera = None => due = 0
      BY NoneAssumption, ViewAssumption
    <2>4. Selecting' = Selecting /\ UNCHANGED <<loadEpoch, resets, manifestInFlight>>
      BY <1>2 DEF Selecting, manifest
    <2> HIDE DEF due
    <2>5. loadEpoch' <= 2 * spent' + 1 - due' /\ resets' <= spent'
      BY <2>1, <2>2, <2>3, <2>4 DEF Spend
    <2> QED
      BY <1>1, <2>1, <2>2, <2>4, <2>5 DEF CountersArePaid, EpochIsPaid, SlotsArePaid, due
  <1> QED
    BY <1>5, <1>6, <1>7, <1>8, <1>9 DEF Core

\* A reset leaves an empty cache in the next epoch; the reader of this one goes on.
LEMMA ResetStep ==
    ASSUME Core, frame = "viewport", Spend, ResetAll,
           camera' \in {None, camera}, UNCHANGED <<frame, offered>>
    PROVE  Core'
  <1>1. /\ bounds' = {} /\ decoded' = {} /\ entries' = {} /\ publishedTiles' = {}
        /\ merged' = {} /\ mergedKey' = None /\ mergeRequestedKey' = None /\ mergeInFlight' = None
        /\ mergers' = {[m EXCEPT !.fresh = FALSE] : m \in mergers}
        /\ loadEpoch' = loadEpoch + 1 /\ retryAt' = FALSE
    BY DEF ResetAll, ClearEntries
  <1>2. /\ inFlight' = {} /\ viewport' = None /\ window' = None /\ sceneKey' = None
        /\ snapshot' = None /\ requestedKey' = None /\ manifestInFlight' = None
        /\ resets' = resets + 1
        /\ UNCHANGED <<loadInFlight, selectors, readers, ready, revision>>
    BY DEF ResetAll, store
  <1>3. \A m \in Merges : /\ [m EXCEPT !.fresh = FALSE] \in Merges
                          /\ ~[m EXCEPT !.fresh = FALSE].fresh
    BY DEF Merges
  <1>4. mergers' \subseteq Merges /\ \A m \in mergers' : ~m.fresh
    BY <1>1, <1>3 DEF Core, TypeOK
  <1>5. /\ spent \in Nat /\ spent < Budget /\ spent' = spent + 1 /\ Budget \in Nat
        /\ loadEpoch' \in Epochs /\ loadEpoch \in Nat /\ resets \in Nat
    BY <1>1, EpochHasRoom, ViewAssumption DEF Core, TypeOK, Spend, Epochs
  <1>6. TypeOK'
    <2>1. spent' \in 0 .. Budget /\ resets' \in Nat
      BY <1>2, <1>5
    <2> QED
      BY <1>1, <1>2, <1>4, <1>5, <2>1 DEF Core, TypeOK
  <1>7. RepaintShape'
    BY DEF RepaintShape
  <1>8. Cache'
    <2>1. ReaderShape'
      <3>1. \A r \in readers : r.epoch \in Nat /\ r.epoch <= loadEpoch /\ loadInFlight = r.epoch
                               /\ \A other \in readers : other = r
        BY DEF Core, Cache, ReaderShape, TypeOK, Batches, Epochs
      <3> QED
        BY <1>1, <1>2, <1>5, <3>1 DEF ReaderShape
    <2> QED
      BY <1>1, <1>2, <1>4, <2>1 DEF Cache, SceneIsolation, ResidentIsWanted, ClaimsHaveReader,
                                    MergeShape, DecodedIsResident
  <1>9. SelectionShape'
    <2>1. \A key : Selection(key)' = Selection(key)
      BY <1>2 DEF Selection
    <2> QED
      BY <1>2, <2>1 DEF Core, SelectionShape, Lists
  <1>10. CountersArePaid'
    <2>1. /\ loadEpoch <= 2 * spent + 1 /\ resets <= spent
          /\ Cardinality(Selecting) <= resets + (IF manifestInFlight = None THEN 0 ELSE 1)
      BY <1>5 DEF Core, CountersArePaid, EpochIsPaid, SlotsArePaid
    <2>2. Selecting' = Selecting /\ Selecting \subseteq Slots
      BY <1>2 DEF Selecting
    <2>3. Cardinality(Selecting) \in Nat
      BY <2>2, SlotsAreFinite
    <2>4. Cardinality(Selecting)' <= resets' + 0
      BY <1>2, <1>5, <2>1, <2>2, <2>3
    <2>5. loadEpoch' <= 2 * spent'
      BY <1>1, <1>5, <2>1
    <2>6. camera' = None => camera' \notin Hosted
      BY NoneAssumption, ViewAssumption
    <2>7. resets' <= spent'
      BY <1>2, <1>5, <2>1
    <2> QED
      BY <1>1, <1>2, <1>5, <2>4, <2>5, <2>6, <2>7 DEF CountersArePaid, EpochIsPaid, SlotsArePaid
  <1> QED
    BY <1>6, <1>7, <1>8, <1>9, <1>10 DEF Core

\* A selection starts in a free slot: the slots that are taken are paid for by resets.
LEMMA SelectorStarts ==
    ASSUME Core, NEW key \in Keys, manifestInFlight = None, StartSelector(key)
    PROVE  /\ manifestInFlight' = key
           /\ selectors' \in [Slots -> {None} \cup Selections]
           /\ (SelectionShape /\ UNCHANGED <<snapshot, store>> => SelectionShape')
           /\ Cardinality(Selecting') <= resets + 1
  <1> DEFINE s == CHOOSE s \in Slots : selectors[s] = None
             new == [key |-> key, rev |-> revision, seen |-> None]
  <1>1. /\ Cardinality(Selecting) <= resets + 0 /\ resets <= spent
        /\ resets \in Nat /\ spent \in 0 .. Budget /\ Budget \in Nat
        /\ revision \in Nat /\ selectors \in [Slots -> {None} \cup Selections]
    BY ViewAssumption DEF Core, CountersArePaid, EpochIsPaid, SlotsArePaid, TypeOK
  <1>2. Selecting \in SUBSET Slots /\ IsFiniteSet(Selecting) /\ Cardinality(Selecting) \in Nat
    BY SlotsAreFinite DEF Selecting
  <1>3. s \in Slots
    <2>1. Cardinality(Selecting) # Cardinality(Slots)
      BY <1>1, <1>2, SlotsAreFinite
    <2>2. \E f \in Slots : selectors[f] = None
      BY <1>2, <2>1 DEF Selecting
    <2> QED
      BY <2>2
  <1>4. manifestInFlight' = key /\ selectors' = [selectors EXCEPT ![s] = new]
    BY DEF StartSelector
  <1>5. new \in Selections /\ new.seen = None /\ new.rev = revision
    BY <1>1 DEF Selections
  <1> HIDE DEF s, new
  <1>6. selectors' \in [Slots -> {None} \cup Selections] /\ selectors'[s] = new
        /\ \A o \in Slots : o # s => selectors'[o] = selectors[o]
    BY <1>1, <1>3, <1>4, <1>5
  <1>7. ASSUME SelectionShape, UNCHANGED <<snapshot, store>>
        PROVE  SelectionShape'
    <2>1. \A k : Selection(k)' = Selection(k)
      BY <1>7 DEF Selection, store
    <2>2. \A o \in Slots : selectors'[o] = selectors[o] \/ (selectors'[o].rev = revision /\ selectors'[o].seen = None)
      BY <1>5, <1>6
    <2>3. revision' = revision /\ revision \in Nat /\ snapshot' = snapshot
      BY <1>1, <1>7 DEF store
    <2> QED
      BY <1>7, <2>1, <2>2, <2>3 DEF SelectionShape, Lists
  <1>8. Cardinality(Selecting') <= resets + 1
    <2>1. Selecting' \subseteq Selecting \cup {s}
      BY <1>6 DEF Selecting
    <2>2. /\ IsFiniteSet(Selecting \cup {s})
          /\ Cardinality(Selecting \cup {s}) =
                IF s \in Selecting THEN Cardinality(Selecting) ELSE Cardinality(Selecting) + 1
      BY <1>2, FS_AddElement
    <2>3. IsFiniteSet(Selecting') /\ Cardinality(Selecting') <= Cardinality(Selecting \cup {s})
      BY <2>1, <2>2, FS_Subset
    <2>4. Cardinality(Selecting') \in Nat /\ Cardinality(Selecting \cup {s}) \in Nat
      BY <2>2, <2>3, FS_CardinalityType
    <2> QED
      BY <1>1, <1>2, <2>2, <2>3, <2>4
  <1> QED
    BY <1>4, <1>6, <1>7, <1>8

\* The frame reads a selection of its own key, and no older one.
LEMMA ManifestStep ==
    ASSUME Core, LocalManifestAssets
    PROVE  Core'
  <1> DEFINE key == KeyOf(camera)
  <1>1. /\ frame = "manifest" /\ frame' = "load" /\ offered' = ReaderAssets(key) /\ requestedKey' = key
        /\ UNCHANGED <<camera, residency, sceneKey, loadEpoch, geometry, reading, merging, snapshot,
                       readers, mergers, store, decoded, resets, spent>>
    BY DEF LocalManifestAssets
  <1>2. UNCHANGED <<manifestInFlight, selectors>> \/ (manifestInFlight = None /\ StartSelector(key))
    BY DEF LocalManifestAssets
  <1>3. camera \in Hosted /\ viewport = camera /\ key \in Keys
    BY <1>1 DEF Core, RepaintShape, Keys
  <1> HIDE DEF key
  <1>4. /\ manifestInFlight' \in {None} \cup Keys
        /\ selectors' \in [Slots -> {None} \cup Selections]
        /\ SelectionShape'
        /\ Cardinality(Selecting') <= resets + (IF manifestInFlight' = None THEN 0 ELSE 1)
    <2>1. CASE UNCHANGED <<manifestInFlight, selectors>>
      <3>1. SelectionShape' /\ Selecting' = Selecting
        BY <1>1, <2>1, SelectionsKept DEF Core, selectionVars, Selecting
      <3> QED
        BY <2>1, <3>1 DEF Core, TypeOK, CountersArePaid, EpochIsPaid, SlotsArePaid
    <2>2. CASE manifestInFlight = None /\ StartSelector(key)
      <3>1. key # None
        BY <1>3, NoneAssumption
      <3> QED
        BY <1>1, <1>3, <2>2, <3>1, SelectorStarts DEF Core
    <2> QED
      BY <1>2, <2>1, <2>2
  <1>5. ReaderAssets(key) \in SUBSET Tiles /\ ReaderAssets(key) \subseteq Selection(key)
    BY DEF ReaderAssets, Core, TypeOK, Snapshots, SelectionShape, Lists
  <1>6. TypeOK'
    BY <1>1, <1>3, <1>4, <1>5 DEF Core, TypeOK, residency, geometry, reading, merging, store
  <1>7. RepaintShape'
    BY <1>1, <1>3, <1>5 DEF RepaintShape, residency, Selection, store, key
  <1>8. Cache'
    BY <1>1, CacheKept DEF Core, cacheVars, reading, merging
  <1>9. CountersArePaid'
    BY <1>1, <1>4 DEF Core, CountersArePaid, EpochIsPaid, SlotsArePaid
  <1> QED
    BY <1>4, <1>6, <1>7, <1>8, <1>9 DEF Core

\* A load of another scene empties the cache and takes an epoch, so that only the reader
\* it starts, if it does, may fill it.
LEMMA LoadSceneStep ==
    ASSUME Core, Load, LoadScene(KeyOf(camera))
    PROVE  Core'
  <1> DEFINE key == KeyOf(camera)
  <1>1. /\ frame = "load" /\ frame' = "merge" /\ offered' = {}
        /\ UNCHANGED <<camera, viewport, manifest, selectors, store, resets, spent>>
    BY DEF Load
  <1>2. /\ sceneKey # key.scene /\ sceneKey' = key.scene /\ window' = key.centre
        /\ bounds' = {} /\ decoded' = {} /\ entries' = {} /\ publishedTiles' = {} /\ merged' = {}
        /\ mergedKey' = None /\ mergeRequestedKey' = None /\ mergeInFlight' = None
        /\ mergers' = {[m EXCEPT !.fresh = FALSE] : m \in mergers}
        /\ loadEpoch' = loadEpoch + 1 /\ retryAt' = FALSE
        /\ BeginLocalRead(key, {}, {}, {}, FALSE, loadEpoch + 1)
    BY DEF LoadScene, ClearEntries
  <1>3. /\ camera \in Hosted /\ viewport = camera /\ offered \subseteq Selection(key)
        /\ key.scene = Scene[camera] /\ key.centre = Centre[camera]
        /\ key.scene \in Scenes /\ key.centre \in Centres
    BY <1>1 DEF Core, RepaintShape, KeyOf, Scenes, Centres
  <1>4. \A t \in offered : t \in Tiles /\ t.scene = key.scene
    BY <1>3 DEF Core, TypeOK, Selection
  <1> HIDE DEF key
  <1>5. loadEpoch' \in Epochs /\ loadEpoch \in Nat /\ spent \in Nat
    BY <1>1, <1>2, <1>3, EpochHasRoom DEF Core, TypeOK, Epochs
  <1>6. mergers' \subseteq Merges /\ \A m \in mergers' : ~m.fresh
    <2>1. \A m \in Merges : /\ [m EXCEPT !.fresh = FALSE] \in Merges
                            /\ ~[m EXCEPT !.fresh = FALSE].fresh
      BY DEF Merges
    <2> QED
      BY <1>2, <2>1 DEF Core, TypeOK
  <1> DEFINE ReadsTheScene ==
        /\ inFlight' \in SUBSET Tiles /\ loadInFlight' \in {None} \cup Epochs /\ readers' \subseteq Batches
        /\ \A t \in inFlight' : t.scene = sceneKey'
        /\ ClaimsHaveReader' /\ ReaderShape'
  <1>7. ReadsTheScene
    <2>1. CASE inFlight' = {} /\ UNCHANGED <<loadInFlight, readers>>
      <3>1. \A r \in readers : r.epoch \in Nat /\ r.epoch <= loadEpoch /\ loadInFlight = r.epoch
                               /\ \A other \in readers : other = r
        BY DEF Core, Cache, ReaderShape, TypeOK, Batches, Epochs
      <3>2. ReaderShape'
        BY <1>2, <1>5, <2>1, <3>1 DEF ReaderShape
      <3> QED
        BY <2>1, <3>2 DEF ClaimsHaveReader, Core, TypeOK
    <2>2. ASSUME loadInFlight = None, NEW S \in SUBSET offered,
                 inFlight' = {} \cup S, loadInFlight' = loadEpoch + 1,
                 readers' = readers \cup
                     {[epoch |-> loadEpoch + 1, batch |-> S, todo |-> S, failed |-> {}]}
          PROVE  ReadsTheScene
      <3> DEFINE new == [epoch |-> loadEpoch + 1, batch |-> S, todo |-> S, failed |-> {}]
      <3>1. new \in Batches
        BY <1>2, <1>4, <1>5, <2>2 DEF Batches
      <3>2. readers = {}
        BY <2>2, NoneAssumption DEF Core, Cache, ReaderShape, TypeOK, Batches
      <3>3. readers' = {new} /\ new.epoch = loadEpoch' /\ new.batch = S /\ new.todo = S
        BY <1>2, <2>2, <3>2
      <3> HIDE DEF new
      <3>4. \A t \in S : t \in Tiles /\ t.scene = sceneKey'
        BY <1>2, <1>4
      <3>5. ReaderShape'
        BY <1>2, <1>5, <2>2, <3>3, <3>4 DEF ReaderShape
      <3>6. ClaimsHaveReader'
        BY <1>2, <2>2, <3>3 DEF ClaimsHaveReader
      <3> QED
        BY <1>2, <1>5, <2>2, <3>1, <3>3, <3>4, <3>5, <3>6
    <2> DEFINE nothing == {}
               retry == FALSE
               epoch == loadEpoch + 1
    <2>3. BeginLocalRead(key, nothing, nothing, nothing, retry, epoch)
      BY <1>2
    <2> HIDE DEF nothing, retry, epoch
    <2>4. \/ inFlight' = nothing /\ UNCHANGED <<loadInFlight, readers>>
          \/ /\ loadInFlight = None
             /\ \E S \in SUBSET offered :
                   /\ inFlight' = nothing \cup S /\ loadInFlight' = epoch
                   /\ readers' = readers \cup
                         {[epoch |-> epoch, batch |-> S, todo |-> S, failed |-> {}]}
      BY ONLY <2>3, ReadClaims
    <2> QED
      BY <2>1, <2>2, <2>4 DEF nothing, epoch
  <1>8. TypeOK'
    BY <1>1, <1>2, <1>3, <1>5, <1>6, <1>7 DEF Core, TypeOK, manifest, store
  <1>9. RepaintShape'
    BY <1>1, <1>2, <1>3 DEF RepaintShape
  <1>10. Cache'
    BY <1>2, <1>6, <1>7 DEF Cache, SceneIsolation, ResidentIsWanted, MergeShape, DecodedIsResident
  <1>11. SelectionShape'
    BY <1>1, SelectionsKept DEF Core, selectionVars, manifest
  <1>12. CountersArePaid'
    <2>1. loadEpoch <= 2 * spent + 1 - 1
      BY <1>2, <1>3, <1>5, NoneAssumption, ViewAssumption DEF Core, CountersArePaid, EpochIsPaid, SlotsArePaid
    <2>2. Selecting' = Selecting
      BY <1>1 DEF Selecting
    <2> QED
      BY <1>1, <1>2, <1>3, <1>5, <2>1, <2>2, NoneAssumption, ViewAssumption
         DEF Core, CountersArePaid, EpochIsPaid, SlotsArePaid, manifest
  <1> QED
    BY <1>8, <1>9, <1>10, <1>11, <1>12 DEF Core

\* A load within the scene prunes to the new window, and claims tiles the cache lacks.
LEMMA LoadWindowStep ==
    ASSUME Core, Load, LoadWindow(KeyOf(camera))
    PROVE  Core' /\ \A t \in inFlight' \ inFlight : t \notin decoded'
  <1> DEFINE key == KeyOf(camera)
             known == BoundsFor(key.centre)
             Kept(S) == {t \in S : Wanted(t, key.centre, viewport, known)}
  <1>1. /\ frame = "load" /\ frame' = "merge" /\ offered' = {}
        /\ UNCHANGED <<camera, viewport, manifest, selectors, store, resets, spent>>
    BY DEF Load
  <1>2. /\ sceneKey = key.scene /\ window' = key.centre /\ bounds' = known
        /\ decoded' = IF window = key.centre THEN decoded ELSE {}
        /\ UNCHANGED <<sceneKey, loadEpoch, retryAt, mergeRequestedKey, mergeInFlight>>
        /\ BeginLocalRead(key, known, entries', inFlight, retryAt, loadEpoch)
        /\ IF window = key.centre THEN UNCHANGED <<geometry, merged, mergedKey, mergers>>
                                  ELSE Prune(key.centre, viewport, known)
    BY DEF LoadWindow
  <1>3. /\ camera \in Hosted /\ viewport = camera /\ offered \subseteq Selection(key)
        /\ key.centre = Centre[camera] /\ key.centre \in Centres
    BY <1>1 DEF Core, RepaintShape, KeyOf, Centres
  <1>4. /\ \A t \in offered : t \in Tiles /\ t.scene = sceneKey
        /\ loadEpoch \in Epochs /\ known \in SUBSET Tiles
    BY <1>2, <1>3 DEF Core, TypeOK, Selection, BoundsFor
  <1>5. window = key.centre => known = bounds
    BY DEF BoundsFor
  <1> HIDE DEF key, known
  <1>6. \A t : IsWanted(t)' <=> Wanted(t, key.centre, viewport, known)
    BY <1>1, <1>2 DEF IsWanted, Wanted, Near, OnScreen
  <1>7. /\ entries' = Kept(entries) /\ publishedTiles' = Kept(publishedTiles)
        /\ mergedKey' \in {None} \cup Centres /\ mergers' \subseteq Merges
        /\ merged' \in SUBSET merged /\ MergeShape'
    <2>1. CASE window = key.centre
      <3>1. UNCHANGED <<entries, publishedTiles, merged, mergedKey, mergers>>
        BY <1>2, <2>1 DEF geometry
      <3>2. \A t \in entries \cup publishedTiles : Wanted(t, key.centre, viewport, known)
        BY <1>5, <2>1 DEF Core, Cache, ResidentIsWanted, IsWanted
      <3> QED
        BY <3>1, <3>2 DEF Core, TypeOK, Cache, MergeShape
    <2>2. CASE window # key.centre
      BY <1>2, <2>2, PruneShape DEF Core, Cache
    <2> QED
      BY <2>1, <2>2
  <1>8. \A t \in decoded' : Wanted(t, key.centre, viewport, known) => t \in entries'
    <2>1. CASE window = key.centre
      <3>1. \A t \in decoded : Wanted(t, key.centre, viewport, known) => t \in entries
        BY <1>5, <2>1 DEF Core, Cache, DecodedIsResident, IsWanted
      <3> QED
        BY <1>2, <1>7, <2>1, <3>1
    <2>2. CASE window # key.centre
      BY <1>2, <2>2
    <2> QED
      BY <2>1, <2>2
  <1> HIDE DEF Kept
  <1>9. entries' \subseteq entries /\ publishedTiles' \subseteq publishedTiles
    BY <1>7 DEF Kept
  <1> DEFINE ReadsTheScene ==
        /\ inFlight' \in SUBSET Tiles /\ loadInFlight' \in {None} \cup Epochs /\ readers' \subseteq Batches
        /\ \A t \in inFlight' : t.scene = sceneKey
        /\ ClaimsHaveReader' /\ ReaderShape'
        /\ \A t \in inFlight' \ inFlight : t \notin decoded'
  <1>10. ReadsTheScene
    <2>1. CASE inFlight' = inFlight /\ UNCHANGED <<loadInFlight, readers>>
      BY <1>2, <1>9, <2>1 DEF Core, TypeOK, Cache, SceneIsolation, ClaimsHaveReader, ReaderShape
    <2>2. ASSUME loadInFlight = None, NEW S \in SUBSET offered,
                 \A t \in S : Wanted(t, key.centre, viewport, known) /\ t \notin entries' \cup inFlight,
                 inFlight' = inFlight \cup S, loadInFlight' = loadEpoch,
                 readers' = readers \cup
                     {[epoch |-> loadEpoch, batch |-> S, todo |-> S, failed |-> {}]}
          PROVE  ReadsTheScene
      <3> DEFINE new == [epoch |-> loadEpoch, batch |-> S, todo |-> S, failed |-> {}]
      <3>1. new \in Batches
        BY <1>4 DEF Batches
      <3>2. readers = {}
        BY <2>2, NoneAssumption DEF Core, Cache, ReaderShape, TypeOK, Batches
      <3>3. readers' = {new} /\ new.epoch = loadEpoch /\ new.batch = S /\ new.todo = S
        BY <2>2, <3>2
      <3> HIDE DEF new
      <3>4. inFlight = {}
        BY <3>2 DEF Core, Cache, ClaimsHaveReader
      <3>5. \A t \in S : t \in Tiles /\ t.scene = sceneKey
        BY <1>4
      <3>6. ReaderShape'
        BY <1>2, <1>4, <2>2, <3>3, <3>5 DEF ReaderShape, Epochs
      <3>7. ClaimsHaveReader'
        BY <1>2, <2>2, <3>3, <3>4 DEF ClaimsHaveReader
      <3> QED
        BY <1>4, <1>8, <2>2, <3>1, <3>3, <3>4, <3>5, <3>6, <3>7
    <2>3. \/ inFlight' = inFlight /\ UNCHANGED <<loadInFlight, readers>>
          \/ /\ loadInFlight = None
             /\ \E S \in SUBSET offered :
                   /\ \A t \in S : /\ Wanted(t, key.centre, viewport, known)
                                   /\ t \notin entries' \cup inFlight
                   /\ inFlight' = inFlight \cup S /\ loadInFlight' = loadEpoch
                   /\ readers' = readers \cup
                         {[epoch |-> loadEpoch, batch |-> S, todo |-> S, failed |-> {}]}
      <3>1. BeginLocalRead(key, known, entries', inFlight, retryAt, loadEpoch)
        BY <1>2
      <3> QED
        BY ONLY <3>1, ReadClaims
    <2> QED
      BY <2>1, <2>2, <2>3
  <1>11. TypeOK'
    BY <1>1, <1>2, <1>3, <1>4, <1>7, <1>9, <1>10 DEF Core, TypeOK, manifest, store
  <1>12. RepaintShape'
    BY <1>1, <1>2, <1>3 DEF RepaintShape
  <1>13. Cache'
    <2>1. SceneIsolation'
      BY <1>2, <1>7, <1>9, <1>10 DEF Core, Cache, SceneIsolation
    <2>2. ResidentIsWanted'
      BY <1>6, <1>7 DEF ResidentIsWanted, Kept
    <2>3. DecodedIsResident'
      BY <1>6, <1>8 DEF DecodedIsResident
    <2> QED
      BY <1>7, <1>10, <2>1, <2>2, <2>3 DEF Cache
  <1>14. SelectionShape'
    BY <1>1, SelectionsKept DEF Core, selectionVars, manifest
  <1>15. CountersArePaid'
    BY <1>1, <1>2, CountersKept DEF Core, counterVars, manifest
  <1> QED
    BY <1>10, <1>11, <1>12, <1>13, <1>14, <1>15 DEF Core

\* A merge starts from decoded tiles; without any, the picture and the published
\* selection are empty already, as every tile of the cache is near its window.
LEMMA MergeStarts ==
    ASSUME Core, BeginLocalMerge
    PROVE  Core'
  <1> DEFINE centre == Centre[camera]
             tiles == {t \in entries : Near(t, centre)}
             new == [epoch |-> loadEpoch, centre |-> centre, tiles |-> tiles, fresh |-> TRUE]
  <1>1. /\ frame = "merge" /\ frame' = "viewport" /\ mergeRequestedKey' = centre
        /\ UNCHANGED <<camera, offered, residency, sceneKey, loadEpoch, geometry, reading, manifest,
                       selectors, readers, store, decoded, resets, spent>>
    BY DEF BeginLocalMerge
  <1>2. \/ UNCHANGED <<merged, mergedKey, mergeInFlight, mergers>>
        \/ tiles = {} /\ merged' = {} /\ mergedKey' = centre /\ UNCHANGED <<mergeInFlight, mergers>>
        \/ /\ mergeInFlight' = loadEpoch /\ mergers' = mergers \cup {new}
           /\ UNCHANGED <<merged, mergedKey>>
    BY DEF BeginLocalMerge
  <1>3. window = centre /\ centre \in Centres
    BY <1>1 DEF Core, RepaintShape, Centres
  <1>4. tiles = entries
    BY <1>3, NoneAssumption DEF Core, Cache, ResidentIsWanted, IsWanted, Wanted
  <1>5. new \in Merges /\ new.tiles = entries
    BY <1>3, <1>4 DEF Core, TypeOK, Merges
  <1> HIDE DEF centre, tiles, new
  <1>6. /\ mergers' \subseteq Merges /\ mergeInFlight' \in {None} \cup Epochs
        /\ mergedKey' \in {None} \cup Centres /\ merged' \in SUBSET merged
        /\ MergeShape'
    <2>1. /\ MergeShape /\ UNCHANGED <<entries, publishedTiles>>
          /\ mergers \subseteq Merges /\ mergeInFlight \in {None} \cup Epochs
          /\ loadEpoch \in Epochs /\ mergedKey \in {None} \cup Centres
      BY <1>1 DEF Core, Cache, TypeOK, geometry
    <2> QED
      BY <1>2, <1>3, <1>4, <1>5, <2>1 DEF MergeShape
  <1>7. TypeOK'
    BY <1>1, <1>3, <1>6 DEF Core, TypeOK, residency, geometry, reading, manifest, store
  <1>8. RepaintShape'
    BY <1>1 DEF RepaintShape
  <1>9. Cache'
    <2>1. \A t : IsWanted(t)' <=> IsWanted(t)
      BY <1>1 DEF residency, IsWanted, Wanted, Near, OnScreen
    <2> QED
      BY <1>1, <1>6, <2>1 DEF Core, Cache, SceneIsolation, ResidentIsWanted, ClaimsHaveReader,
                              ReaderShape, DecodedIsResident, geometry, reading
  <1>10. SelectionShape'
    BY <1>1, SelectionsKept DEF Core, selectionVars, manifest
  <1>11. CountersArePaid'
    BY <1>1, CountersKept DEF Core, counterVars, manifest
  <1> QED
    BY <1>6, <1>7, <1>8, <1>9, <1>10, <1>11 DEF Core

-----------------------------------------------------------------------------
(* The workers.                                                            *)

\* A selection lists what is committed at that moment.
LEMMA SelectStep ==
    ASSUME Core, NEW s \in Slots, SelectTiles(s)
    PROVE  Core'
  <1>1. /\ selectors[s] # None /\ selectors' = [selectors EXCEPT ![s].seen = Selection(selectors[s].key)]
        /\ UNCHANGED <<cacheAndPainting, geometry, reading, merging, manifest, readers, mergers,
                       store, decoded, resets, spent>>
    BY DEF SelectTiles
  <1>2. selectors \in [Slots -> {None} \cup Selections] /\ selectors[s] \in Selections
    BY <1>1 DEF Core, TypeOK
  <1>3. \A key : Selection(key) \in SUBSET Tiles /\ Selection(key)' = Selection(key)
    BY <1>1 DEF Core, TypeOK, Selection, store
  <1> DEFINE new == [selectors[s] EXCEPT !.seen = Selection(selectors[s].key)]
  <1>4. /\ new \in Selections /\ new.key = selectors[s].key /\ new.rev = selectors[s].rev
        /\ new.seen = Selection(new.key)
    BY <1>2, <1>3 DEF Selections
  <1>5. selectors' = [selectors EXCEPT ![s] = new]
    BY <1>1, <1>2
  <1> HIDE DEF new
  <1>6. /\ selectors' \in [Slots -> {None} \cup Selections] /\ selectors'[s] = new
        /\ \A o \in Slots : o # s => selectors'[o] = selectors[o]
    BY <1>2, <1>4, <1>5
  <1>7. TypeOK'
    BY <1>1, <1>6 DEF Core, TypeOK, cacheAndPainting, painting, residency, geometry, reading,
                      merging, manifest, store
  <1>8. RepaintShape'
    BY <1>1, <1>3 DEF Core, RepaintShape, cacheAndPainting, painting, residency
  <1>9. Cache'
    BY <1>1, CacheKept DEF Core, cacheVars, cacheAndPainting, reading, merging
  <1>10. SelectionShape'
    <2>1. selectors[s].rev <= revision
      BY <1>1 DEF Core, SelectionShape
    <2>2. Lists(new.seen, new.key, new.rev)
      BY <1>4, <2>1 DEF Lists
    <2>3. UNCHANGED <<snapshot, revision>>
      BY <1>1 DEF manifest, store
    <2> QED
      BY <1>3, <1>4, <1>6, <2>1, <2>2, <2>3 DEF Core, SelectionShape, Lists
  <1>11. CountersArePaid'
    <2>1. /\ Selecting' \in SUBSET Selecting /\ Selecting \in SUBSET Slots
          /\ UNCHANGED <<camera, sceneKey, loadEpoch, manifestInFlight, resets, spent>>
      BY <1>1, <1>6 DEF Selecting, cacheAndPainting, painting, manifest
    <2>2. Selecting' \in SUBSET Slots /\ resets \in Nat
      BY <2>1 DEF Core, TypeOK
    <2>3. /\ Cardinality(Selecting) \in Nat /\ Cardinality(Selecting') \in Nat
          /\ Cardinality(Selecting') <= Cardinality(Selecting)
      BY <2>1, <2>2, SlotsAreFinite, FS_Subset
    <2>4. EpochIsPaid'
      BY <2>1 DEF Core, CountersArePaid, EpochIsPaid
    <2>5. SlotsArePaid'
      BY <2>1, <2>2, <2>3 DEF Core, CountersArePaid, SlotsArePaid
    <2> QED
      BY <2>4, <2>5 DEF CountersArePaid
  <1> QED
    BY <1>7, <1>8, <1>9, <1>10, <1>11 DEF Core

\* A worker that ends, however it ends, frees its slot; a snapshot keeps what the
\* selection listed, at the revision it began with.
LEMMA FinishManifestStep ==
    ASSUME Core, NEW s \in Slots, selectors[s] # None, NEW assets \in {None, selectors[s].seen},
           FinishLocalManifest(s, assets), UNCHANGED spent \/ Spend
    PROVE  Core'
  <1> DEFINE key == selectors[s].key
             rev == selectors[s].rev
             new == [key |-> key, rev |-> rev, assets |-> assets]
  <1>1. /\ manifestInFlight' = IF manifestInFlight = key THEN None ELSE manifestInFlight
        /\ snapshot' = IF requestedKey = key /\ assets # None THEN new ELSE snapshot
        /\ selectors' = [selectors EXCEPT ![s] = None]
        /\ UNCHANGED <<cacheAndPainting, geometry, reading, merging, requestedKey, readers, mergers,
                       store, decoded, resets>>
    BY DEF FinishLocalManifest, FinishManifestAt
  <1>2. /\ selectors \in [Slots -> {None} \cup Selections]
        /\ key \in Keys /\ rev \in Nat
        /\ assets # None => assets \in SUBSET Tiles
    <2>1. selectors \in [Slots -> {None} \cup Selections]
      BY DEF Core, TypeOK
    <2>2. selectors[s] \in Selections
      BY <2>1
    <2> QED
      BY <2>1, <2>2 DEF Selections
  <1>3. /\ selectors' \in [Slots -> {None} \cup Selections] /\ selectors'[s] = None
        /\ \A o \in Slots : o # s => selectors'[o] = selectors[o]
    BY <1>1, <1>2
  <1>4. \A k : Selection(k)' = Selection(k)
    BY <1>1 DEF Selection, store
  <1>5. assets # None => /\ new \in Snapshots /\ Lists(assets, key, rev)
    BY <1>2 DEF Core, SelectionShape, Snapshots
  <1>6. new.key = key /\ new.rev = rev /\ new.assets = assets
    OBVIOUS
  <1> HIDE DEF key, rev, new
  <1>7. TypeOK'
    <2>1. snapshot' \in {None} \cup Snapshots /\ manifestInFlight' \in {None} \cup Keys
      BY <1>1, <1>5 DEF Core, TypeOK
    <2>2. spent' \in 0 .. Budget
      BY ViewAssumption DEF Core, TypeOK, Spend
    <2> QED
      BY <1>1, <1>3, <2>1, <2>2 DEF Core, TypeOK, cacheAndPainting, painting, residency, geometry,
                                    reading, merging, store
  <1>8. RepaintShape'
    BY <1>1, <1>4 DEF Core, RepaintShape, cacheAndPainting, painting, residency
  <1>9. Cache'
    BY <1>1, CacheKept DEF Core, cacheVars, cacheAndPainting, reading, merging
  <1>10. SelectionShape'
    <2>1. revision' = revision
      BY <1>1 DEF store
    <2> QED
      BY <1>1, <1>3, <1>4, <1>5, <1>6, <2>1 DEF Core, SelectionShape, Lists
  <1>11. CountersArePaid'
    <2>1. /\ UNCHANGED <<camera, sceneKey, loadEpoch, resets>>
          /\ manifestInFlight' \in {None, manifestInFlight}
      BY <1>1 DEF cacheAndPainting, painting
    <2>2. /\ loadEpoch \in Nat /\ spent \in Nat /\ resets \in Nat
          /\ spent' \in Nat /\ spent <= spent'
      BY DEF Core, TypeOK, Epochs, Spend
    <2>3. resets <= spent /\ Cardinality(Selecting) <= resets + 1
      BY <1>3, <2>2, SlotsAreFinite DEF Core, CountersArePaid, SlotsArePaid, Selecting
    <2>4. Cardinality(Selecting') <= Cardinality(Selecting) - 1
      <3>1. Selecting' = Selecting \ {s} /\ s \in Selecting /\ Selecting \in SUBSET Slots
        BY <1>3 DEF Selecting
      <3>2. Cardinality(Selecting \ {s}) = Cardinality(Selecting) - 1 /\ Cardinality(Selecting) \in Nat
        BY <3>1, SlotsAreFinite, FS_RemoveElement
      <3> QED
        BY <3>1, <3>2
    <2>5. Cardinality(Selecting) \in Nat /\ Cardinality(Selecting') \in Nat
      BY <1>3, SlotsAreFinite DEF Selecting
    <2>6. Cardinality(Selecting') <= resets' /\ resets' <= spent'
      BY <2>1, <2>2, <2>3, <2>4, <2>5
    <2>7. SlotsArePaid'
      BY <2>1, <2>2, <2>5, <2>6 DEF SlotsArePaid
    <2>8. EpochIsPaid'
      BY <2>1, <2>2, EpochKept DEF Core, CountersArePaid
    <2> QED
      BY <2>7, <2>8 DEF CountersArePaid
  <1> QED
    BY <1>7, <1>8, <1>9, <1>10, <1>11 DEF Core

\* A reader that goes on, with less to read and its claims as they are, is still the
\* only one.
LEMMA ReaderGoesOn ==
    ASSUME Core, NEW r \in readers, NEW left \in SUBSET r.todo, NEW failed \in SUBSET Tiles,
           readers' = (readers \ {r}) \cup {[r EXCEPT !.todo = left, !.failed = failed]},
           UNCHANGED <<loadEpoch, loadInFlight, sceneKey>>, inFlight' \subseteq inFlight,
           r.epoch = loadEpoch => left \subseteq inFlight'
    PROVE  /\ readers' \subseteq Batches /\ ReaderShape'
           /\ \E n \in readers' : n.batch = r.batch /\ n.epoch = r.epoch
  <1> DEFINE new == [r EXCEPT !.todo = left, !.failed = failed]
  <1>1. /\ r \in Batches /\ \A other \in readers : other = r
        /\ loadInFlight = r.epoch /\ r.epoch <= loadEpoch
        /\ r.epoch = loadEpoch => \A t \in r.batch : t.scene = sceneKey
    BY DEF Core, TypeOK, Cache, ReaderShape
  <1>2. new \in Batches /\ new.batch = r.batch /\ new.epoch = r.epoch /\ new.todo = left
    BY <1>1 DEF Batches
  <1>3. readers' = {new}
    BY <1>1
  <1> HIDE DEF new
  <1>4. ReaderShape'
    BY <1>1, <1>2, <1>3 DEF ReaderShape
  <1> QED
    BY <1>2, <1>3, <1>4

\* A claim keeps its reader when the claims only shrink and the readers keep batches.
LEMMA ClaimsKept ==
    ASSUME ClaimsHaveReader, UNCHANGED <<loadEpoch, loadInFlight>>,
           inFlight' \subseteq inFlight, inFlight' \cap entries' = {},
           \A r \in readers : \E n \in readers' : n.batch = r.batch /\ n.epoch = r.epoch
    PROVE  ClaimsHaveReader'
  BY DEF ClaimsHaveReader

\* A tile read for this epoch is of the scene, and gets geometry if it is wanted with
\* its decoded bounds; one of another epoch changes nothing.
LEMMA PublishStep ==
    ASSUME Core, NEW r \in readers, NEW t \in r.todo, PublishTile(r, t)
    PROVE  Core' /\ inFlight' \subseteq inFlight
  <1> DEFINE current == r.epoch = loadEpoch /\ loadInFlight = r.epoch
             known == bounds \cup {t}
             kept == IF Wanted(t, window, viewport, known) THEN entries \cup {t} ELSE entries
             left == IF current THEN r.todo \ {t} ELSE {}
  <1>1. /\ readers' = (readers \ {r}) \cup {[r EXCEPT !.todo = left]}
        /\ UNCHANGED <<painting, viewport, window, sceneKey, loadEpoch, publishedTiles, loadInFlight,
                       retryAt, merged, mergeRequestedKey, mergeInFlight, manifest, selectors, store,
                       resets, spent>>
    BY DEF PublishTile, PublishTileIf
  <1>2. \/ /\ ~current
           /\ UNCHANGED <<inFlight, bounds, decoded, entries, mergedKey, mergers>>
        \/ /\ current /\ inFlight' = inFlight \ {t} /\ bounds' = known
           /\ decoded' = decoded \cup {t} /\ SetEntries(kept)
    BY DEF PublishTile, PublishTileIf
  <1>3. /\ r \in Batches /\ t \in Tiles
        /\ current => /\ t \in inFlight /\ r.todo \subseteq inFlight
                      /\ t \notin entries /\ t.scene = sceneKey
    BY DEF Core, TypeOK, Cache, ReaderShape, Batches, ClaimsHaveReader, SceneIsolation
  <1>4. left \in SUBSET r.todo /\ [r EXCEPT !.todo = left] = [r EXCEPT !.todo = left, !.failed = r.failed]
        /\ r.failed \in SUBSET Tiles
    BY <1>3 DEF Batches
  <1> HIDE DEF current, known, kept, left
  <1>5. /\ inFlight' \subseteq inFlight
        /\ r.epoch = loadEpoch => left \subseteq inFlight'
    <2>1. r.epoch = loadEpoch => current
      BY DEF current, Core, Cache, ReaderShape
    <2>2. current => left = r.todo \ {t}
      BY DEF left
    <2> QED
      BY <1>2, <1>3, <2>1, <2>2
  <1>6. /\ readers' \subseteq Batches /\ ReaderShape'
        /\ \E n \in readers' : n.batch = r.batch /\ n.epoch = r.epoch
    BY <1>1, <1>4, <1>5, ReaderGoesOn
  <1>7. /\ mergedKey' \in {None} \cup Centres /\ mergers' \subseteq Merges
        /\ entries' \in SUBSET Tiles /\ entries \subseteq entries' /\ MergeShape'
    <2>1. CASE ~current
      BY <1>1, <1>2, <2>1 DEF Core, TypeOK, Cache, MergeShape
    <2>2. CASE current
      <3>1. kept \in SUBSET Tiles /\ entries \subseteq kept
        BY <1>3 DEF kept, Core, TypeOK
      <3>2. /\ entries' = kept /\ mergedKey' \in {None} \cup Centres /\ mergers' \subseteq Merges
            /\ \A m \in mergers' : m.fresh => m.tiles \subseteq kept
        BY <1>2, <2>2, <3>1, EntriesShape DEF Core, Cache, MergeShape
      <3> QED
        BY <1>1, <3>1, <3>2 DEF Core, Cache, MergeShape
    <2> QED
      BY <2>1, <2>2
  <1>8. TypeOK'
    BY <1>1, <1>2, <1>3, <1>5, <1>6, <1>7 DEF Core, TypeOK, painting, manifest, store, known
  <1>9. RepaintShape' /\ SelectionShape'
    <2>1. \A key : Selection(key)' = Selection(key)
      BY <1>1 DEF Selection, store
    <2> QED
      BY <1>1, <2>1, SelectionsKept DEF Core, RepaintShape, painting, selectionVars, manifest
  <1>10. Cache'
    <2>1. ClaimsHaveReader'
      <3>1. inFlight' \cap entries' = {}
        BY <1>2 DEF Core, Cache, ClaimsHaveReader, kept, SetEntries
      <3>2. \A q \in readers : q = r
        BY DEF Core, Cache, ReaderShape
      <3> QED
        BY <1>1, <1>5, <1>6, <3>1, <3>2, ClaimsKept DEF Core, Cache
    <2>2. CASE ~current
      <3>1. \A u : IsWanted(u)' <=> IsWanted(u)
        BY <1>1, <1>2, <2>2 DEF IsWanted, Wanted, Near, OnScreen
      <3>2. SceneIsolation' /\ ResidentIsWanted' /\ DecodedIsResident'
        BY <1>1, <1>2, <2>2, <3>1 DEF Core, Cache, SceneIsolation, ResidentIsWanted, DecodedIsResident
      <3> QED
        BY <1>6, <1>7, <2>1, <3>2 DEF Cache
    <2>3. CASE current
      <3>1. inFlight' = inFlight \ {t} /\ bounds' = known /\ decoded' = decoded \cup {t} /\ entries' = kept
        BY <1>2, <2>3 DEF SetEntries
      <3>2. \A u : u # t => (IsWanted(u)' <=> IsWanted(u))
        BY <1>1, <3>1 DEF known, IsWanted, Wanted, Near, OnScreen
      <3>3. IsWanted(t)' <=> Wanted(t, window, viewport, known)
        BY <1>1, <3>1 DEF IsWanted, Wanted, Near, OnScreen
      <3>4. t \notin publishedTiles
        BY <1>3, <2>3 DEF Core, Cache, MergeShape
      <3>5. SceneIsolation'
        BY <1>1, <1>3, <2>3, <3>1 DEF Core, Cache, SceneIsolation, kept
      <3>6. ResidentIsWanted'
        BY <1>1, <1>3, <2>3, <3>1, <3>2, <3>3, <3>4 DEF Core, Cache, ResidentIsWanted, kept
      <3>7. DecodedIsResident'
        BY <1>1, <3>1, <3>2, <3>3 DEF Core, Cache, DecodedIsResident, kept
      <3> QED
        BY <1>6, <1>7, <2>1, <3>5, <3>6, <3>7 DEF Cache
    <2> QED
      BY <2>2, <2>3
  <1>11. CountersArePaid'
    BY <1>1, CountersKept DEF Core, counterVars, painting, manifest
  <1> QED
    BY <1>5, <1>8, <1>9, <1>10, <1>11 DEF Core

\* A tile that fails stays claimed until its reader ends.
LEMMA FailStep ==
    ASSUME Core, NEW r \in readers, NEW S \in SUBSET r.todo, TilesFail(r, S)
    PROVE  Core' /\ UNCHANGED inFlight
  <1>1. /\ spent < Budget /\ spent' = spent + 1
        /\ readers' = (readers \ {r}) \cup {[r EXCEPT !.todo = @ \ S, !.failed = @ \cup S]}
        /\ UNCHANGED <<cacheAndPainting, geometry, reading, merging, manifest, selectors, mergers,
                       store, decoded, resets>>
    BY DEF TilesFail, Spend
  <1>2. r \in Batches /\ r.todo \ S \in SUBSET r.todo /\ r.failed \cup S \in SUBSET Tiles
    BY DEF Core, TypeOK, Batches
  <1>3. readers' = (readers \ {r}) \cup {[r EXCEPT !.todo = r.todo \ S, !.failed = r.failed \cup S]}
    BY <1>1, <1>2 DEF Batches
  <1>4. UNCHANGED <<camera, frame, offered, residency, sceneKey, loadEpoch, inFlight, loadInFlight>>
    BY <1>1 DEF cacheAndPainting, painting, reading
  <1>5. r.epoch = loadEpoch => r.todo \ S \subseteq inFlight'
    BY <1>4 DEF Core, Cache, ReaderShape
  <1>6. /\ readers' \subseteq Batches /\ ReaderShape'
        /\ \E n \in readers' : n.batch = r.batch /\ n.epoch = r.epoch
    BY <1>2, <1>3, <1>4, <1>5, ReaderGoesOn
  <1>7. TypeOK'
    <2>1. spent' \in 0 .. Budget
      BY <1>1, ViewAssumption DEF Core, TypeOK
    <2> QED
      BY <1>1, <1>4, <1>6, <2>1 DEF Core, TypeOK, residency, geometry, reading, merging, manifest, store
  <1>8. RepaintShape' /\ SelectionShape'
    <2>1. \A key : Selection(key)' = Selection(key)
      BY <1>1 DEF Selection, store
    <2> QED
      BY <1>1, <1>4, <2>1, SelectionsKept DEF Core, RepaintShape, residency, selectionVars, manifest
  <1>9. Cache'
    <2>1. \A t : IsWanted(t)' <=> IsWanted(t)
      BY <1>4 DEF residency, IsWanted, Wanted, Near, OnScreen
    <2>2. ClaimsHaveReader'
      <3>1. \A q \in readers : q = r
        BY DEF Core, Cache, ReaderShape
      <3> QED
        BY <1>1, <1>4, <1>6, <3>1, ClaimsKept DEF Core, Cache, ClaimsHaveReader, geometry
    <2> QED
      BY <1>1, <1>4, <1>6, <2>1, <2>2 DEF Core, Cache, SceneIsolation, ResidentIsWanted, MergeShape,
                                          DecodedIsResident, geometry, merging
  <1>10. CountersArePaid'
    <2>1. /\ loadEpoch \in Nat /\ spent \in Nat /\ spent' \in Nat /\ spent <= spent' /\ resets \in Nat
          /\ UNCHANGED <<manifestInFlight, selectors, resets>>
      BY <1>1 DEF Core, TypeOK, Epochs, manifest
    <2>2. EpochIsPaid'
      BY <1>4, <2>1, EpochKept DEF Core, CountersArePaid
    <2>3. SlotsArePaid'
      BY <2>1 DEF Core, CountersArePaid, SlotsArePaid, Selecting
    <2> QED
      BY <2>2, <2>3 DEF CountersArePaid
  <1> QED
    BY <1>4, <1>7, <1>8, <1>9, <1>10 DEF Core

\* The only reader ends, and releases what it had claimed in its epoch.
LEMMA FinishReadStep ==
    ASSUME Core, NEW r \in readers, FinishLocalRead(r)
    PROVE  Core' /\ inFlight' \subseteq inFlight
  <1>1. /\ readers' = readers \ {r}
        /\ IF loadInFlight = r.epoch THEN loadInFlight' = None ELSE UNCHANGED loadInFlight
        /\ IF loadInFlight = r.epoch /\ loadEpoch = r.epoch
           THEN inFlight' = inFlight \ r.batch /\ retryAt' \in BOOLEAN
           ELSE UNCHANGED <<inFlight, retryAt>>
        /\ UNCHANGED <<cacheAndPainting, geometry, merging, manifest, selectors, mergers, store,
                       decoded, resets, spent>>
    <2>1. \A S \in SUBSET BOOLEAN : retryAt' \in S => retryAt' \in BOOLEAN
      OBVIOUS
    <2>2. (IF r.failed = r.batch THEN {TRUE} ELSE {r.failed # {}, FALSE}) \in SUBSET BOOLEAN
      OBVIOUS
    <2> QED
      BY <2>1, <2>2 DEF FinishLocalRead
  <1>2. loadInFlight = r.epoch /\ \A q \in readers : q = r
    BY DEF Core, Cache, ReaderShape
  <1>3. readers' = {} /\ loadInFlight' = None /\ inFlight' \subseteq inFlight
    BY <1>1, <1>2
  <1>4. retryAt' \in BOOLEAN
    BY <1>1 DEF Core, TypeOK
  <1>5. UNCHANGED <<camera, frame, offered, residency, sceneKey, loadEpoch>>
    BY <1>1 DEF cacheAndPainting, painting
  <1>6. inFlight' = {}
    BY <1>1, <1>2 DEF Core, Cache, ClaimsHaveReader
  <1>7. TypeOK'
    BY <1>1, <1>3, <1>4, <1>5, <1>6 DEF Core, TypeOK, residency, geometry, merging, manifest, store
  <1>8. RepaintShape' /\ SelectionShape'
    <2>1. \A key : Selection(key)' = Selection(key)
      BY <1>1 DEF Selection, store
    <2> QED
      BY <1>1, <1>5, <2>1, SelectionsKept DEF Core, RepaintShape, residency, selectionVars, manifest
  <1>9. Cache'
    <2>1. \A t : IsWanted(t)' <=> IsWanted(t)
      BY <1>5 DEF residency, IsWanted, Wanted, Near, OnScreen
    <2> QED
      BY <1>1, <1>3, <1>5, <1>6, <2>1 DEF Core, Cache, SceneIsolation, ResidentIsWanted,
         ClaimsHaveReader, ReaderShape, MergeShape, DecodedIsResident, geometry, merging
  <1>10. CountersArePaid'
    BY <1>1, <1>5, CountersKept DEF Core, counterVars, manifest
  <1> QED
    BY <1>3, <1>7, <1>8, <1>9, <1>10 DEF Core

\* The delay is no part of the invariant but for its type.
LEMMA RetryStep ==
    ASSUME Core, RetryDue
    PROVE  Core' /\ UNCHANGED inFlight
  <1>1. /\ retryAt' \in BOOLEAN
        /\ UNCHANGED <<camera, frame, offered, residency, sceneKey, loadEpoch, geometry, inFlight,
                       loadInFlight, merging, manifest, selectors, readers, mergers, store, decoded,
                       resets, spent>>
    BY DEF RetryDue, cacheAndPainting, painting
  <1>2. TypeOK'
    BY <1>1 DEF Core, TypeOK, residency, geometry, merging, manifest, store
  <1>3. RepaintShape'
    <2>1. \A key : Selection(key)' = Selection(key)
      BY <1>1 DEF Selection, store
    <2> QED
      BY <1>1, <2>1 DEF Core, RepaintShape, residency
  <1>4. Cache' /\ SelectionShape' /\ CountersArePaid'
    BY <1>1, CacheKept, SelectionsKept, CountersKept
       DEF Core, cacheVars, selectionVars, counterVars, merging, manifest
  <1> QED
    BY <1>1, <1>2, <1>3, <1>4 DEF Core

\* A merge is accepted while no entry has changed: the picture is of decoded tiles.
LEMMA FinishMergeStep ==
    ASSUME Core, NEW m \in mergers, NEW done \in BOOLEAN,
           FinishLocalMerge(m, done), UNCHANGED spent \/ Spend
    PROVE  Core' /\ UNCHANGED inFlight
  <1>1. /\ mergers' = mergers \ {m}
        /\ mergeInFlight' = IF mergeInFlight = m.epoch THEN None ELSE mergeInFlight
        /\ UNCHANGED <<cacheAndPainting, entries, reading, mergeRequestedKey, manifest, selectors,
                       readers, store, decoded, resets>>
    BY DEF FinishLocalMerge, FinishMergeWith
  <1>2. \/ m.fresh /\ merged' = m.tiles /\ publishedTiles' = m.tiles /\ mergedKey' = m.centre
        \/ UNCHANGED <<merged, publishedTiles, mergedKey>>
    BY DEF FinishLocalMerge, FinishMergeWith, IsAccepted
  <1>3. m \in Merges /\ m.tiles \in SUBSET Tiles /\ m.centre \in Centres
    BY DEF Core, TypeOK, Merges
  <1>4. /\ UNCHANGED <<camera, frame, offered, residency, sceneKey, loadEpoch, inFlight, loadInFlight,
                       retryAt>>
        /\ spent' \in 0 .. Budget
    BY <1>1, ViewAssumption DEF cacheAndPainting, painting, reading, Core, TypeOK, Spend
  <1>5. MergeShape' /\ publishedTiles' \subseteq entries /\ \A t \in merged' : t \in merged \/ t \in entries
    BY <1>1, <1>2 DEF Core, Cache, MergeShape
  <1>6. TypeOK'
    BY <1>1, <1>2, <1>3, <1>4 DEF Core, TypeOK, residency, manifest, store
  <1>7. RepaintShape' /\ SelectionShape'
    <2>1. \A key : Selection(key)' = Selection(key)
      BY <1>1 DEF Selection, store
    <2> QED
      BY <1>1, <1>4, <2>1, SelectionsKept DEF Core, RepaintShape, residency, selectionVars, manifest
  <1>8. Cache'
    <2>1. \A t : IsWanted(t)' <=> IsWanted(t)
      BY <1>4 DEF residency, IsWanted, Wanted, Near, OnScreen
    <2>2. SceneIsolation' /\ ResidentIsWanted'
      BY <1>1, <1>4, <1>5, <2>1 DEF Core, Cache, SceneIsolation, ResidentIsWanted
    <2>3. ClaimsHaveReader' /\ ReaderShape' /\ DecodedIsResident'
      BY <1>1, <1>4, <2>1 DEF Core, Cache, ClaimsHaveReader, ReaderShape, DecodedIsResident
    <2> QED
      BY <1>5, <2>2, <2>3 DEF Cache
  <1>9. CountersArePaid'
    <2>1. /\ loadEpoch \in Nat /\ spent \in Nat /\ spent' \in Nat /\ spent <= spent' /\ resets \in Nat
          /\ UNCHANGED <<manifestInFlight, selectors, resets>>
      BY <1>1, <1>4 DEF Core, TypeOK, Epochs, manifest, Spend
    <2>2. EpochIsPaid'
      BY <1>4, <2>1, EpochKept DEF Core, CountersArePaid
    <2>3. SlotsArePaid'
      BY <2>1 DEF Core, CountersArePaid, SlotsArePaid, Selecting
    <2> QED
      BY <2>2, <2>3 DEF CountersArePaid
  <1> QED
    BY <1>4, <1>6, <1>7, <1>8, <1>9 DEF Core

\* A commit outdates every selection that began before it.
LEMMA CommitStep ==
    ASSUME Core, NEW t \in Tiles, CommitTile(t)
    PROVE  Core' /\ UNCHANGED inFlight
  <1>1. /\ ready' = ready \cup {t} /\ revision' = revision + 1
        /\ UNCHANGED <<camera, frame, offered, residency, sceneKey, loadEpoch, geometry, reading,
                       merging, manifest, selectors, readers, mergers, decoded, resets, spent>>
    BY DEF CommitTile, cacheAndPainting, painting
  <1>2. \A key : Selection(key) \subseteq Selection(key)'
    BY <1>1 DEF Selection
  <1>3. revision \in Nat
    BY DEF Core, TypeOK
  <1>4. TypeOK'
    BY <1>1, <1>3 DEF Core, TypeOK, residency, geometry, reading, merging, manifest
  <1>5. RepaintShape'
    BY <1>1, <1>2 DEF Core, RepaintShape, residency
  <1>6. Cache' /\ CountersArePaid'
    BY <1>1, CacheKept, CountersKept DEF Core, cacheVars, counterVars, reading, merging, manifest
  <1>7. SelectionShape'
    <2>1. \A assets, key : \A rev \in Nat :
              Lists(assets, key, rev) => Lists(assets, key, rev)'
      BY <1>1, <1>2, <1>3 DEF Lists
    <2>2. /\ snapshot # None => snapshot.rev \in Nat
          /\ \A s \in Slots : selectors[s] # None => selectors[s].rev \in Nat
      BY DEF Core, TypeOK, Snapshots, Selections
    <2>3. \A rev \in Nat : rev <= revision => rev <= revision'
      BY <1>1, <1>3
    <2>4. UNCHANGED <<snapshot, selectors>>
      BY <1>1 DEF manifest
    <2> QED
      BY <2>1, <2>2, <2>3, <2>4 DEF Core, SelectionShape
  <1> QED
    BY <1>1, <1>4, <1>5, <1>6, <1>7 DEF Core, reading

-----------------------------------------------------------------------------
(* The theorems.                                                           *)

\* Every step keeps the invariant, and claims no tile decoded since the view changed.
LEMMA StepHolds ==
    Core /\ [Next]_vars => Core' /\ \A t \in inFlight' \ inFlight : t \notin decoded'
  <1> DEFINE ClaimsNew == \A t \in inFlight' \ inFlight : t \notin decoded'
  <1> SUFFICES ASSUME Core, [Next]_vars PROVE Core' /\ ClaimsNew
    OBVIOUS
  <1>1. ASSUME NEW v \in Views, SetLocalViewport(v),
               \/ v = camera /\ UNCHANGED spent
               \/ camera = None /\ UNCHANGED spent
               \/ Spend
        PROVE  Core' /\ ClaimsNew
    <2>1. inFlight' = inFlight
      BY <1>1 DEF SetLocalViewport, reading
    <2> QED
      BY <1>1, <2>1, ViewportStep
  <1>2. ASSUME Repaint PROVE Core' /\ ClaimsNew
    <2>1. camera \in Views
      BY <1>2 DEF Repaint, Core, TypeOK
    <2> QED
      BY <1>1, <1>2, <2>1 DEF Repaint
  <1>3. ASSUME NEW v \in Views, Move(v) PROVE Core' /\ ClaimsNew
    BY <1>1, <1>3 DEF Move
  <1>4. ASSUME LeaveLocalView \/ BlastTileCaches PROVE Core' /\ ClaimsNew
    <2>1. inFlight' = {}
      BY <1>4 DEF LeaveLocalView, BlastTileCaches, ResetAll
    <2>2. /\ frame = "viewport" /\ Spend /\ ResetAll
          /\ camera' \in {None, camera} /\ UNCHANGED <<frame, offered>>
      BY <1>4 DEF LeaveLocalView, BlastTileCaches, painting
    <2> QED
      BY <2>1, <2>2, ResetStep
  <1>5. ASSUME LocalManifestAssets PROVE Core' /\ ClaimsNew
    BY <1>5, ManifestStep DEF LocalManifestAssets, reading
  <1>6. ASSUME Load PROVE Core' /\ ClaimsNew
    <2>1. CASE LoadScene(KeyOf(camera))
      <3>1. decoded' = {}
        BY <2>1 DEF LoadScene, ClearEntries
      <3> QED
        BY <1>6, <2>1, <3>1, LoadSceneStep
    <2>2. CASE LoadWindow(KeyOf(camera))
      BY <1>6, <2>2, LoadWindowStep
    <2> QED
      BY <1>6, <2>1, <2>2 DEF Load
  <1>7. ASSUME BeginLocalMerge PROVE Core' /\ ClaimsNew
    BY <1>7, MergeStarts DEF BeginLocalMerge, reading
  <1>8. ASSUME NEW s \in Slots, SelectTiles(s) PROVE Core' /\ ClaimsNew
    BY <1>8, SelectStep DEF SelectTiles, reading
  <1>9. ASSUME NEW s \in Slots, PublishSelection(s) \/ SelectionPanics(s) PROVE Core' /\ ClaimsNew
    <2>1. PICK assets \in {None, selectors[s].seen} :
             /\ selectors[s] # None /\ FinishLocalManifest(s, assets)
             /\ UNCHANGED spent \/ Spend
      BY <1>9 DEF PublishSelection, SelectionPanics
    <2>2. inFlight' = inFlight
      BY <2>1 DEF FinishLocalManifest, FinishManifestAt, reading
    <2> QED
      BY <2>1, <2>2, FinishManifestStep
  <1>10. ASSUME NEW r \in readers, Reader(r) PROVE Core' /\ ClaimsNew
    BY <1>10, FinishReadStep, PublishStep DEF Reader
  <1>11. ASSUME NEW r \in readers, NEW S \in SUBSET r.todo, TilesFail(r, S) PROVE Core' /\ ClaimsNew
    BY <1>11, FailStep
  <1>12. ASSUME NEW m \in mergers, Merge(m) \/ MergePanics(m) PROVE Core' /\ ClaimsNew
    <2>1. PICK done \in BOOLEAN : FinishLocalMerge(m, done) /\ (UNCHANGED spent \/ Spend)
      BY <1>12 DEF Merge, MergePanics
    <2> QED
      BY <2>1, FinishMergeStep
  <1>13. CASE UNCHANGED vars
    <2>1. TypeOK' /\ RepaintShape'
      BY <1>13 DEF vars, cacheAndPainting, painting, residency, geometry, reading, merging, manifest,
                   store, Core, TypeOK, RepaintShape, Selection
    <2>2. UNCHANGED <<cacheVars, selectionVars, counterVars>>
      BY <1>13 DEF vars, cacheAndPainting, painting, reading, merging, manifest,
                   cacheVars, selectionVars, counterVars
    <2> QED
      BY <2>1, <2>2, CacheKept, SelectionsKept, CountersKept DEF Core, cacheVars
  <1> QED
    BY <1>2, <1>3, <1>4, <1>5, <1>6, <1>7, <1>8, <1>9, <1>10, <1>11, <1>12, <1>13,
       RetryStep, CommitStep
       DEF Next, Frame, User, Faults, Selector

\* Core holds in every reachable state.
LEMMA SafeAlways ==
    Spec => []Core
  <1> QED
    BY InitHolds, StepHolds, PTL DEF Spec

\* What the inductive part implies is the rest of the invariant, and that the snapshot
\* is of the revision it says.
LEMMA CoreImplies ==
    Core => IInv /\ SnapshotIsCurrent
  <1> SUFFICES ASSUME Core PROVE IInv /\ SnapshotIsCurrent
    OBVIOUS
  <1>1. HandedOutIsMerged
    BY DEF Core, Cache, MergeShape, HandedOutIsMerged, LocalTiles
  <1>2. OneCoordinator
    <2>1. CASE readers = {}
      BY <2>1, FS_EmptySet DEF OneCoordinator
    <2>2. ASSUME NEW r \in readers PROVE OneCoordinator
      <3>1. readers = {r}
        BY DEF Core, Cache, ReaderShape
      <3>2. Cardinality({r}) = 1
        BY FS_Singleton
      <3> QED
        BY <3>1, <3>2 DEF OneCoordinator
    <2> QED
      BY <2>1, <2>2
  <1>3. SelectorsAreBounded
    <2>1. Cardinality(Selecting) \in Nat /\ resets \in Nat
      BY SlotsAreFinite DEF Core, TypeOK, Selecting
    <2> QED
      BY <2>1 DEF Core, CountersArePaid, SlotsArePaid, SelectorsAreBounded
  <1>4. SnapshotIsCurrent
    BY DEF Core, SelectionShape, Lists, SnapshotIsCurrent
  <1> QED
    BY <1>1, <1>2, <1>3, <1>4 DEF Core, Cache, IInv

\* The cache, its claims and its workers agree after every critical section, however
\* many views, windows and tiles there are (contour_asset.rs).
THEOREM CacheStaysConsistent ==
    Spec => []IInv
  BY SafeAlways, CoreImplies, PTL

\* Nothing of another scene is shown, held or being read, whatever workers of earlier
\* scenes are still at it: publish_tile and the finish functions compare the epoch.
THEOREM ScenesDoNotMix ==
    Spec => []SceneIsolation
  <1>1. Core => SceneIsolation
    BY DEF Core, Cache
  <1> QED
    BY <1>1, SafeAlways, PTL

\* A snapshot that says it is of the current revision lists all there is, since it took
\* the revision before its worker looked (finish_local_manifest).
THEOREM SnapshotsLoseNoCommit ==
    Spec => []SnapshotIsCurrent
  BY SafeAlways, CoreImplies, PTL

\* A stationary view decodes no tile twice: begin_local_read claims no tile that was
\* decoded since the viewport or the window changed.
THEOREM TilesAreDecodedOnce ==
    Spec => DecodedOnce
  <1>1. Core /\ [Next]_vars => [\A t \in inFlight' \ inFlight : t \notin decoded']_vars
    BY StepHolds
  <1> QED
    BY <1>1, SafeAlways, PTL DEF Spec, DecodedOnce
=============================================================================
