-------------------------- MODULE GlobeRegionProofs ---------------------------
(***************************************************************************)
(* Proofs about GlobeRegion: its gates, its budget, the isolation of its   *)
(* scenes and the terrain it keeps on screen, for every ground, set of     *)
(* tiles and views, and both variants.                                     *)
(*                                                                         *)
(* Safe is the inductive part of IInv, in groups of conjuncts that read    *)
(* the same variables.  A lemma for each group says what keeps it, and a   *)
(* lemma for each action proves the groups it disturbs.  On top of it,     *)
(* CarriedOver is about the picture, for which steps are of three kinds.   *)
(***************************************************************************)
EXTENDS GlobeRegion, FiniteSetTheorems, TLAPS

Choosing ==
    SelectionShape /\ (busy <=> selectors # {}) /\ \A s, other \in selectors : s = other
Fetching ==
    /\ ReaderShape /\ (loadInFlight # None <=> readers # {}) /\ \A r, other \in readers : r = other
    /\ \A t \in inFlight : \E r \in readers : t \in r.batch /\ IsCurrent(r)
Composing ==
    MergeShape /\ (mergeInFlight # None <=> mergers # {}) /\ \A m, other \in mergers : m = other
Showing == IsOfRoot(picture) /\ IsOfRoot(fallback)
Holding == EveryTileIsCharged /\ \A t \in tiles : t.scene = scene
Safe == TypeOK /\ RepaintShape /\ Choosing /\ Fetching /\ Composing /\ Showing /\ Holding

-----------------------------------------------------------------------------
(* What keeps a group.                                                     *)

\* What a picture draws, without the definition of UNION.
LEMMA InPicture ==
    \A p, t : t \in TilesOf(p) <=> t \notin Blank /\ \E g \in Ground : t \in p[g]
  <1> SUFFICES ASSUME NEW p, NEW t
               PROVE  t \in TilesOf(p) <=> t \notin Blank /\ \E g \in Ground : t \in p[g]
    OBVIOUS
  <1>1. t \in UNION {p[g] : g \in Ground} <=> \E g \in Ground : t \in p[g]
    OBVIOUS
  <1> QED
    BY <1>1 DEF TilesOf

\* An empty picture has no tile.
LEMMA NothingIsOfRoot ==
    Nothing \in Pictures /\ TilesOf(Nothing) = {}
  <1>1. \A t : t \notin TilesOf(Nothing)
    BY InPicture DEF Nothing
  <1> QED
    BY <1>1 DEF Nothing, Pictures

\* The selectors' invariant depends on nothing else.
LEMMA ChoosingKept ==
    ASSUME Choosing, UNCHANGED <<snapshot, selectors, busy>>
    PROVE  Choosing'
  BY DEF Choosing, SelectionShape

\* The readers' invariant survives claims that are given up.
LEMMA FetchingKept ==
    ASSUME Fetching, UNCHANGED <<loadInFlight, readers, loadEpoch, scene>>, inFlight' \subseteq inFlight
    PROVE  Fetching'
  BY DEF Fetching, ReaderShape, IsCurrent

\* The invariant of what is drawn depends on nothing else.
LEMMA ShowingKept ==
    ASSUME Showing, UNCHANGED <<picture, fallback, scene>>
    PROVE  Showing'
  BY DEF Showing, IsOfRoot

\* The invariant of what is held depends on nothing else.
LEMMA HoldingKept ==
    ASSUME Holding, UNCHANGED <<body, tiles, costs, bounds, scene>>
    PROVE  Holding'
  BY DEF Holding, EveryTileIsCharged

\* The workers that compose keep to what they began with, whether they are marked as
\* outdated in their epoch or left behind in it.
LEMMA ComposingKept ==
    ASSUME TypeOK, Composing, UNCHANGED mergeInFlight,
           UNCHANGED <<loadEpoch, scene>> \/ loadEpoch' = loadEpoch + 1,
           mergers' = {} <=> mergers = {}, \A n, other \in mergers' : n = other,
           \A n \in mergers' : \E m \in mergers :
               n.epoch = m.epoch /\ n.tiles = m.tiles /\ n.under = m.under
    PROVE  Composing'
  <1>1. loadEpoch \in Nat /\ \A m \in mergers : m.epoch \in Nat /\ m.epoch <= loadEpoch
    BY DEF TypeOK, Merges, Composing, MergeShape
  <1>2. ASSUME NEW n \in mergers'
        PROVE  /\ n.epoch <= loadEpoch'
               /\ n.epoch = loadEpoch' => IsOfRoot(n.under)' /\ \A t \in n.tiles : t.scene = scene'
    <2>1. PICK m \in mergers : n.epoch = m.epoch /\ n.tiles = m.tiles /\ n.under = m.under
      OBVIOUS
    <2>2. CASE UNCHANGED <<loadEpoch, scene>>
      <3>1. m.epoch = loadEpoch => IsOfRoot(m.under) /\ \A t \in m.tiles : t.scene = scene
        BY DEF Composing, MergeShape
      <3> QED
        BY <1>1, <2>1, <2>2, <3>1 DEF IsOfRoot
    <2>3. CASE loadEpoch' = loadEpoch + 1
      BY <1>1, <2>1, <2>3
    <2> QED
      BY <2>2, <2>3
  <1>3. MergeShape'
    BY <1>2 DEF MergeShape, IsOfRoot
  <1> QED
    BY <1>3 DEF Composing

\* What marking a worker as outdated leaves of it.
MarkedFrom(new) ==
    /\ new \subseteq Merges /\ (new = {} <=> mergers = {}) /\ \A n, other \in new : n = other
    /\ \A n \in new : \E m \in mergers :
           n.epoch = m.epoch /\ n.tiles = m.tiles /\ n.under = m.under

\* Marking compositions as outdated changes nothing else of them.
LEMMA Marking ==
    ASSUME TypeOK, Composing, NEW fresh \in BOOLEAN, NEW steady \in BOOLEAN
    PROVE  MarkedFrom({[m EXCEPT !.fresh = @ /\ fresh, !.steady = @ /\ steady] : m \in mergers})
  <1> DEFINE Mark(m) == [m EXCEPT !.fresh = @ /\ fresh, !.steady = @ /\ steady]
  <1>1. \A m \in Merges : /\ Mark(m).epoch = m.epoch /\ Mark(m).tiles = m.tiles
                          /\ Mark(m).under = m.under /\ Mark(m) \in Merges
    BY DEF Merges
  <1>2. mergers \subseteq Merges /\ \A m, other \in mergers : m = other
    BY DEF TypeOK, Composing
  <1> HIDE DEF Mark
  <1>3. MarkedFrom({Mark(m) : m \in mergers})
    <2>1. CASE mergers = {}
      <3>1. {Mark(m) : m \in mergers} = {}
        BY <2>1
      <3> QED
        BY <2>1, <3>1 DEF MarkedFrom
    <2>2. ASSUME NEW m \in mergers PROVE MarkedFrom({Mark(n) : n \in mergers})
      <3>1. mergers = {m}
        BY <1>2
      <3>2. {Mark(n) : n \in mergers} = {Mark(m)}
        BY <3>1
      <3> QED
        BY <1>1, <1>2, <3>2 DEF MarkedFrom
    <2> QED
      BY <2>1, <2>2
  <1> QED
    BY <1>3 DEF Mark

\* The same for a worker of which only `fresh` is dropped.
LEMMA Outdating ==
    ASSUME TypeOK, Composing
    PROVE  MarkedFrom({[m EXCEPT !.fresh = FALSE] : m \in mergers})
  <1>1. \A m \in Merges :
            [m EXCEPT !.fresh = @ /\ FALSE, !.steady = @ /\ TRUE] = [m EXCEPT !.fresh = FALSE]
    BY DEF Merges
  <1>2. mergers \subseteq Merges
    BY DEF TypeOK
  <1>3. {[m EXCEPT !.fresh = @ /\ FALSE, !.steady = @ /\ TRUE] : m \in mergers}
          = {[m EXCEPT !.fresh = FALSE] : m \in mergers}
    BY <1>1, <1>2
  <1> QED
    BY <1>3, Marking

\* mark_tiles_changed.
LEMMA TilesMarked ==
    ASSUME TypeOK, Composing, NEW kept \in SUBSET Tiles, SetTiles(kept),
           UNCHANGED <<mergeInFlight, loadEpoch, scene>>
    PROVE  /\ tiles' = kept /\ mergers' \subseteq Merges /\ composed' \in BOOLEAN
           /\ Composing'
  <1>1. CASE kept = tiles
    <2>1. tiles' = kept /\ UNCHANGED <<composed, mergers>>
      BY <1>1 DEF SetTiles
    <2> QED
      BY <2>1, ComposingKept DEF TypeOK, Composing
  <1>2. CASE kept # tiles
    <2>1. /\ tiles' = kept /\ composed' = FALSE
          /\ mergers' = {[m EXCEPT !.fresh = FALSE] : m \in mergers}
      BY <1>2 DEF SetTiles
    <2>2. MarkedFrom(mergers')
      BY <2>1, Outdating
    <2>3. Composing'
      BY <2>2, ComposingKept DEF MarkedFrom
    <2> QED
      BY <2>1, <2>2, <2>3 DEF MarkedFrom
  <1> QED
    BY <1>1, <1>2

-----------------------------------------------------------------------------
(* The initial state.                                                      *)

\* A cache without tiles, workers or picture satisfies the invariant.
LEMMA InitHolds ==
    Init => Safe
  <1> SUFFICES ASSUME Init PROVE Safe
    OBVIOUS
  <1>1. Nothing \in Pictures /\ TilesOf(Nothing) = {} /\ 0 \in 0 .. Budget
    BY NothingIsOfRoot, GlobeAssumption
  <1>2. TypeOK
    BY <1>1 DEF Init, TypeOK
  <1>3. RepaintShape /\ Holding
    BY DEF Init, RepaintShape, Holding, EveryTileIsCharged
  <1>4. Showing
    BY <1>1 DEF Init, Showing, IsOfRoot
  <1>5. Choosing
    BY DEF Init, Choosing, SelectionShape
  <1>6. Fetching /\ Composing
    BY DEF Init, Fetching, ReaderShape, Composing, MergeShape
  <1> QED
    BY <1>2, <1>3, <1>4, <1>5, <1>6 DEF Safe

-----------------------------------------------------------------------------
(* The repaint.                                                            *)

\* A repaint sets the viewport and disturbs nothing else.
LEMMA ViewportStep ==
    ASSUME Safe, NEW v \in Views, SetViewport(v), UNCHANGED spent \/ Spend
    PROVE  Safe'
  <1>1. /\ step' = "manifest" /\ camera' = v /\ viewport' = v
        /\ UNCHANGED <<body, offered, aim, bounds, costs, fallbackCost, place, tiles, reading,
                       drawing, manifest, selectors, readers, mergers, store>>
    BY DEF SetViewport
  <1>2. spent' \in 0 .. Budget
    BY GlobeAssumption DEF Safe, TypeOK, Spend
  <1>3. TypeOK'
    BY <1>1, <1>2 DEF Safe, TypeOK, place, reading, drawing, manifest, store
  <1>4. RepaintShape'
    BY <1>1, NoneAssumption DEF RepaintShape
  <1>5. Choosing' /\ Fetching' /\ Showing' /\ Holding'
    BY <1>1, ChoosingKept, FetchingKept, ShowingKept, HoldingKept
       DEF Safe, place, reading, drawing, manifest
  <1>6. Composing'
    BY <1>1, ComposingKept DEF Safe, Composing, place, drawing
  <1> QED
    BY <1>3, <1>4, <1>5, <1>6 DEF Safe

\* A reset starts a new epoch, in which the workers that stay have no say.
LEMMA ResetStep ==
    ASSUME Safe, step = "viewport", UNCHANGED <<body, step, offered>>, Spend, ResetAll,
           camera' \in {None, camera}, viewport' \in {None, viewport}
    PROVE  Safe'
  <1>1. /\ tiles' = {} /\ inFlight' = {} /\ retryAt' = FALSE /\ loadEpoch' = loadEpoch + 1
        /\ mergers' = {[m EXCEPT !.fresh = FALSE] : m \in mergers}
        /\ aim' = None /\ bounds' = {} /\ costs' = {} /\ composed' = FALSE
        /\ scene' = None /\ picture' = Nothing /\ fallback' = Nothing
        /\ snapshot' = None /\ requestedKey' = None /\ manifestEpoch' = manifestEpoch + 1
        /\ UNCHANGED <<loadInFlight, mergeInFlight, busy, selectors, readers, store>>
    BY DEF ResetAll, ResetTo
  <1>2. TypeOK /\ loadEpoch \in Nat /\ manifestEpoch \in Nat
    BY DEF Safe, TypeOK
  <1>3. MarkedFrom(mergers')
    BY <1>1, Outdating DEF Safe
  <1>4. TypeOK'
    <2>1. spent' \in 0 .. Budget /\ loadEpoch' \in Nat /\ manifestEpoch' \in Nat
      BY <1>1, <1>2, GlobeAssumption DEF TypeOK, Spend
    <2>2. composed' \in BOOLEAN /\ retryAt' \in BOOLEAN
      BY <1>1
    <2> QED
      BY <1>1, <1>2, <1>3, <2>1, <2>2, NothingIsOfRoot DEF TypeOK, MarkedFrom, store
  <1>5. RepaintShape'
    BY DEF RepaintShape
  <1>6. Choosing'
    BY <1>1 DEF Safe, Choosing, SelectionShape
  <1>7. Fetching'
    <2>1. \A r \in readers : r.epoch \in Nat /\ r.epoch <= loadEpoch
      BY DEF Safe, Fetching, ReaderShape, TypeOK, Batches
    <2>2. ReaderShape'
      BY <1>1, <1>2, <2>1 DEF Safe, Fetching, ReaderShape
    <2> QED
      BY <1>1, <2>2 DEF Safe, Fetching
  <1>8. Composing'
    BY <1>1, <1>2, <1>3, ComposingKept DEF Safe, MarkedFrom
  <1>9. Showing' /\ Holding'
    BY <1>1, NothingIsOfRoot DEF Showing, IsOfRoot, Holding, EveryTileIsCharged
  <1> QED
    BY <1>4, <1>5, <1>6, <1>7, <1>8, <1>9 DEF Safe

\* Without a scene there is nothing to reset.
LEMMA LeaveStep ==
    ASSUME Safe, Leave
    PROVE  Safe'
  <1>1. CASE scene # None
    <2>1. /\ step = "viewport" /\ Spend /\ ResetAll /\ camera' = None /\ viewport' = None
          /\ UNCHANGED <<body, step, offered>>
      BY <1>1 DEF Leave
    <2> QED
      BY <2>1, ResetStep
  <1>2. CASE scene = None
    <2>1. /\ step = "viewport" /\ Spend /\ camera' = None /\ viewport' = None
          /\ UNCHANGED <<body, step, offered, aim, bounds, costs, fallbackCost, place, tiles,
                         reading, drawing, manifest, selectors, readers, mergers, store>>
      BY <1>2 DEF Leave
    <2>2. spent' \in 0 .. Budget
      BY <2>1, GlobeAssumption DEF Safe, TypeOK, Spend
    <2>3. TypeOK'
      BY <2>1, <2>2 DEF Safe, TypeOK, place, reading, drawing, manifest, store
    <2>4. RepaintShape'
      BY <2>1 DEF RepaintShape
    <2>5. Choosing' /\ Fetching' /\ Showing' /\ Holding'
      BY <2>1, ChoosingKept, FetchingKept, ShowingKept, HoldingKept
         DEF Safe, place, reading, drawing, manifest
    <2>6. Composing'
      BY <2>1, ComposingKept DEF Safe, Composing, place, drawing
    <2> QED
      BY <2>3, <2>4, <2>5, <2>6 DEF Safe
  <1> QED
    BY <1>1, <1>2

\* Only a snapshot of the view's own key is offered, and the gate lets one worker through.
LEMMA AssetsStep ==
    ASSUME Safe, Assets
    PROVE  Safe'
  <1> DEFINE key == KeyOf(camera)
             new == [epoch |-> manifestEpoch, key |-> key, rev |-> revision, seen |-> None]
  <1>1. /\ step = "manifest" /\ step' = "load" /\ requestedKey' = key
        /\ offered' = IF snapshot # None /\ snapshot.key = key THEN snapshot.assets ELSE {}
        /\ UNCHANGED <<body, camera, residency, place, tiles, reading, drawing, snapshot,
                       manifestEpoch, readers, mergers, store, spent>>
    BY DEF Assets
  <1>2. \/ UNCHANGED <<busy, selectors>>
        \/ ~busy /\ busy' = TRUE /\ selectors' = selectors \cup {new}
    BY DEF Assets
  <1>3. camera \in Views /\ camera # None
    BY <1>1 DEF Safe, RepaintShape, TypeOK
  <1>4. key \in Keys /\ key.scene = Scene[camera]
    BY <1>3 DEF Keys, KeyOf
  <1>5. new \in Selections /\ new.seen = None
    BY <1>4 DEF Safe, TypeOK, Selections
  <1> HIDE DEF key, new
  <1>6. offered' \in SUBSET Tiles /\ \A t \in offered' : t.scene = key.scene
    BY <1>1 DEF Safe, TypeOK, Snapshots, Choosing, SelectionShape
  <1>7. Choosing' /\ selectors' \subseteq Selections /\ busy' \in BOOLEAN
    <2>1. CASE UNCHANGED <<busy, selectors>>
      BY <1>1, <2>1, ChoosingKept DEF Safe, TypeOK
    <2>2. CASE ~busy /\ busy' = TRUE /\ selectors' = selectors \cup {new}
      <3>1. selectors = {}
        BY <2>2 DEF Safe, Choosing
      <3>2. selectors' = {new}
        BY <2>2, <3>1
      <3> QED
        BY <1>1, <1>5, <2>2, <3>2 DEF Safe, Choosing, SelectionShape
    <2> QED
      BY <1>2, <2>1, <2>2
  <1>8. TypeOK'
    BY <1>1, <1>4, <1>6, <1>7 DEF Safe, TypeOK, residency, place, reading, drawing, store
  <1>9. RepaintShape'
    BY <1>1, <1>3, <1>4, <1>6 DEF RepaintShape
  <1>10. Fetching' /\ Showing' /\ Holding'
    BY <1>1, FetchingKept, ShowingKept, HoldingKept DEF Safe, residency, place, reading, drawing
  <1>11. Composing'
    BY <1>1, ComposingKept DEF Safe, Composing, place, drawing
  <1> QED
    BY <1>7, <1>8, <1>9, <1>10, <1>11 DEF Safe

\* What begin_globe_read does to the claims: nothing, or all that is missing gets the
\* only reader.
LEMMA ReadClaims ==
    ASSUME NEW kept, NEW known, NEW claimed, NEW retry, NEW epoch,
           BeginGlobeRead(kept, known, claimed, retry, epoch)
    PROVE  \/ inFlight' = claimed /\ UNCHANGED <<loadInFlight, readers>>
           \/ /\ loadInFlight = None
              /\ \E S \in SUBSET offered :
                    /\ inFlight' = claimed \cup S
                    /\ loadInFlight' = epoch
                    /\ readers' = readers \cup {[epoch |-> epoch, todo |-> S, done |-> {},
                                                 batch |-> S, failed |-> FALSE]}
  <1> DEFINE todo == {t \in offered : Wanted(t, viewport, known) /\ t \notin kept \cup claimed}
  <1>1. todo \in SUBSET offered
    OBVIOUS
  <1>2. \/ inFlight' = claimed /\ UNCHANGED <<loadInFlight, readers>>
        \/ /\ loadInFlight = None
           /\ inFlight' = claimed \cup todo
           /\ loadInFlight' = epoch
           /\ readers' = readers \cup {[epoch |-> epoch, todo |-> todo, done |-> {},
                                        batch |-> todo, failed |-> FALSE]}
    BY DEF BeginGlobeRead
  <1> HIDE DEF todo
  <1> QED
    BY <1>1, <1>2

\* A tile that prune drops loses its charge with it.
LEMMA PruneShape ==
    ASSUME NEW before \in SUBSET Tiles, NEW charged, NEW view, NEW known \in SUBSET Tiles, NEW reserve,
           Prune(before, charged, view, known, reserve)
    PROVE  /\ tiles' \in SUBSET before /\ costs' \in SUBSET before /\ bounds' \in SUBSET known
           /\ before \subseteq charged /\ before \subseteq known => costs' = tiles' /\ tiles' \subseteq bounds'
  <1>1. PICK S : /\ tiles' = before \ S /\ costs' = (charged \cap before) \ S
                 /\ bounds' = known \ S
    BY DEF Prune
  <1> QED
    BY <1>1

\* The part of load before the read: the scene the camera has arrived at.
LEMMA SceneStep ==
    ASSUME Safe, Load, camera \in Views
    PROVE  /\ scene' = Scene[camera] /\ scene' # None /\ loadEpoch' \in Nat
           /\ picture' \in Pictures /\ fallback' \in Pictures /\ retryAt' \in BOOLEAN
           /\ \/ scene = Scene[camera] /\ UNCHANGED <<scene, loadEpoch>>
              \/ scene # Scene[camera] /\ loadEpoch' = loadEpoch + 1
           /\ Showing'
  <1>1. Arrive(camera) /\ TypeOK /\ Showing /\ Scene[camera] # None
    BY NoneAssumption DEF Load, Safe
  <1>2. CASE scene = Scene[camera]
    <2>1. UNCHANGED <<scene, picture, fallback, loadEpoch, retryAt>>
      BY <1>1, <1>2 DEF Arrive
    <2> QED
      BY <1>1, <1>2, <2>1, ShowingKept DEF TypeOK
  <1>3. CASE scene # Scene[camera]
    <2> DEFINE sameRoot == scene # None /\ scene.root = Scene[camera].root
    <2>1. /\ scene' = Scene[camera] /\ fallback' = Kept(sameRoot) /\ picture' = Nothing
          /\ loadEpoch' = loadEpoch + 1 /\ retryAt' = FALSE
      BY <1>1, <1>3 DEF Arrive
    <2>2. fallback' \in {Nothing, picture, fallback} /\ (fallback' # Nothing => sameRoot)
      BY <2>1 DEF Kept
    <2>3. retryAt' \in BOOLEAN
      BY <2>1
    <2>4. loadEpoch' \in Nat /\ picture' \in Pictures /\ fallback' \in Pictures
      BY <1>1, <2>1, <2>2, NothingIsOfRoot DEF TypeOK
    <2>5. IsOfRoot(picture)'
      BY <2>1, NothingIsOfRoot DEF IsOfRoot
    <2>6. IsOfRoot(fallback)'
      <3>1. CASE fallback' = Nothing
        BY <3>1, NothingIsOfRoot DEF IsOfRoot
      <3>2. CASE fallback' # Nothing
        <4>1. \A t \in TilesOf(fallback') : t.scene.root = scene.root
          BY <1>1, <2>2, <3>2, NothingIsOfRoot DEF Showing, IsOfRoot
        <4> QED
          BY <1>1, <2>1, <2>2, <3>2, <4>1 DEF IsOfRoot
      <3> QED
        BY <3>1, <3>2
    <2> QED
      BY <1>1, <1>3, <2>1, <2>3, <2>4, <2>5, <2>6 DEF Showing
  <1> QED
    BY <1>2, <1>3

\* A load keeps the tiles and claims of its scene, and starts another with neither.
LEMMA LoadStep ==
    ASSUME Safe, Load
    PROVE  Safe'
  <1> DEFINE here == IF scene = Scene[camera] THEN tiles ELSE {}
             claimed == IF scene = Scene[camera] THEN inFlight ELSE {}
  <1>1. /\ step = "load" /\ step' \in {"render", "evict"}
        /\ Configure(camera, here) /\ Outdate(camera)
        /\ BeginGlobeRead(tiles', bounds', claimed, retryAt', loadEpoch')
        /\ UNCHANGED <<body, camera, offered, viewport, mergeInFlight, manifest, selectors, store,
                       spent>>
    BY DEF Load
  <1>2. /\ camera \in Views /\ camera # None /\ TypeOK
        /\ \A t \in offered : t \in Tiles /\ t.scene = Scene[camera]
    BY <1>1 DEF Safe, TypeOK, RepaintShape
  <1>3. /\ scene' = Scene[camera] /\ scene' # None /\ loadEpoch' \in Nat
        /\ picture' \in Pictures /\ fallback' \in Pictures /\ retryAt' \in BOOLEAN
        /\ \/ scene = Scene[camera] /\ UNCHANGED <<scene, loadEpoch>>
           \/ scene # Scene[camera] /\ loadEpoch' = loadEpoch + 1
        /\ Showing'
    BY <1>2, SceneStep
  <1>4. /\ Holding' /\ tiles' \in SUBSET Tiles /\ bounds' \in SUBSET Tiles /\ costs' \in SUBSET Tiles
        /\ aim' \in {None} \cup Views
    <2> DEFINE charged == IF here = {} THEN {} ELSE costs
               known == IF scene = Scene[camera] THEN bounds ELSE {}
    <2>1. here \in SUBSET Tiles /\ known \in SUBSET Tiles /\ \A t \in here : t.scene = scene'
      BY <1>2, <1>3 DEF Safe, TypeOK, Holding
    <2>2. CASE body = "Earth"
      <3>1. here \subseteq charged /\ here \subseteq known
        BY <2>2 DEF Safe, Holding, EveryTileIsCharged
      <3>2. Prune(here, charged, camera, known, fallbackCost') /\ aim' = camera
        BY <1>1, <2>2 DEF Configure
      <3> HIDE DEF here, charged, known
      <3>3. /\ tiles' \in SUBSET here /\ costs' \in SUBSET here /\ bounds' \in SUBSET known
            /\ costs' = tiles' /\ tiles' \subseteq bounds'
        BY <2>1, <3>1, <3>2, PruneShape
      <3> QED
        BY <1>2, <2>1, <3>2, <3>3 DEF Holding, EveryTileIsCharged
    <2>3. CASE body # "Earth"
      <3>1. tiles' = here /\ UNCHANGED <<aim, bounds, costs>> /\ body' # "Earth"
        BY <1>1, <2>3 DEF Configure
      <3> HIDE DEF here
      <3> QED
        BY <1>2, <2>1, <3>1 DEF Holding, EveryTileIsCharged, TypeOK
    <2> QED
      BY <2>2, <2>3
  <1>5. Composing' /\ mergers' \subseteq Merges /\ composed' \in BOOLEAN
    <2> DEFINE turned == body = "Earth" /\ (aim = None \/ Cells[aim] # Cells[camera])
               same == tiles' = tiles /\ scene = Scene[camera]
               steady == ~turned
    <2>1. /\ same \in BOOLEAN /\ steady \in BOOLEAN /\ composed' = (composed /\ same)
          /\ mergers' = {[m EXCEPT !.fresh = @ /\ same, !.steady = @ /\ steady] : m \in mergers}
      BY <1>1 DEF Outdate
    <2> HIDE DEF turned, same, steady
    <2>2. MarkedFrom(mergers')
      BY <2>1, Marking DEF Safe
    <2>3. Composing'
      BY <1>1, <1>2, <1>3, <2>2, ComposingKept DEF Safe, MarkedFrom
    <2>4. composed' \in BOOLEAN
      BY <2>1
    <2> QED
      BY <2>2, <2>3, <2>4 DEF MarkedFrom
  <1> DEFINE ReadsTheScene ==
        /\ Fetching' /\ inFlight' \in SUBSET Tiles /\ loadInFlight' \in {None} \cup Nat
        /\ readers' \subseteq Batches
  <1>6. ReadsTheScene
    <2>1. /\ claimed \in SUBSET Tiles
          /\ \A r \in readers : /\ r.epoch \in Nat /\ r.epoch <= loadEpoch /\ loadInFlight = r.epoch
                                /\ r.todo \cup r.done \subseteq r.batch
      BY <1>2 DEF Safe, Fetching, ReaderShape, TypeOK, Batches
    <2>2. CASE inFlight' = claimed /\ UNCHANGED <<loadInFlight, readers>>
      <3>1. CASE scene = Scene[camera] /\ UNCHANGED <<scene, loadEpoch>>
        BY <2>2, <3>1, FetchingKept DEF Safe, TypeOK
      <3>2. CASE scene # Scene[camera] /\ loadEpoch' = loadEpoch + 1
        <4>1. inFlight' = {} /\ loadEpoch \in Nat
          BY <1>2, <2>2, <3>2 DEF TypeOK
        <4>2. ReaderShape'
          BY <2>1, <2>2, <3>2, <4>1 DEF ReaderShape
        <4> QED
          BY <2>1, <2>2, <4>1, <4>2 DEF Safe, Fetching, TypeOK
      <3> QED
        BY <1>3, <3>1, <3>2
    <2>3. ASSUME loadInFlight = None, NEW S \in SUBSET offered,
                 inFlight' = claimed \cup S, loadInFlight' = loadEpoch',
                 readers' = readers \cup {[epoch |-> loadEpoch', todo |-> S, done |-> {},
                                           batch |-> S, failed |-> FALSE]}
          PROVE  ReadsTheScene
      <3> DEFINE new == [epoch |-> loadEpoch', todo |-> S, done |-> {}, batch |-> S, failed |-> FALSE]
      <3>1. readers = {} /\ inFlight = {} /\ claimed = {}
        BY <2>3 DEF Safe, Fetching
      <3>2. new \in Batches
        BY <1>2, <1>3 DEF Batches
      <3>3. /\ readers' = {new} /\ new.epoch = loadEpoch' /\ new.batch = S
            /\ new.todo \cup new.done \subseteq new.batch
        BY <2>3, <3>1
      <3> HIDE DEF new
      <3>4. ReaderShape'
        BY <1>2, <1>3, <2>3, <3>3 DEF ReaderShape
      <3>5. loadInFlight' # None
        BY <1>3, <2>3, NoneAssumption
      <3>6. Fetching'
        BY <2>3, <3>1, <3>3, <3>4, <3>5 DEF Fetching, IsCurrent
      <3> QED
        BY <1>2, <1>3, <2>3, <3>1, <3>2, <3>3, <3>6
    <2> DEFINE epoch == loadEpoch'
    <2> HIDE DEF epoch, claimed
    <2>4. BeginGlobeRead(tiles', bounds', claimed, retryAt', epoch)
      BY <1>1 DEF epoch, claimed
    <2>5. \/ inFlight' = claimed /\ UNCHANGED <<loadInFlight, readers>>
          \/ /\ loadInFlight = None
             /\ \E S \in SUBSET offered :
                   /\ inFlight' = claimed \cup S
                   /\ loadInFlight' = epoch
                   /\ readers' = readers \cup {[epoch |-> epoch, todo |-> S, done |-> {},
                                                batch |-> S, failed |-> FALSE]}
      BY ONLY <2>4, ReadClaims
    <2> QED
      BY <2>2, <2>3, <2>5 DEF epoch, claimed
  <1>7. TypeOK'
    BY <1>1, <1>2, <1>3, <1>4, <1>5, <1>6 DEF TypeOK, manifest, store
  <1>8. RepaintShape'
    BY <1>1, <1>2 DEF RepaintShape
  <1>9. Choosing'
    BY <1>1, ChoosingKept DEF Safe, manifest
  <1> QED
    BY <1>3, <1>4, <1>5, <1>6, <1>7, <1>8, <1>9 DEF Safe

\* An eviction takes charges with the tiles, and leaves claims or drops them.
LEMMA EvictStep ==
    ASSUME Safe, Evict
    PROVE  Safe'
  <1>1. /\ step = "evict" /\ step' = "render" /\ TypeOK
        /\ UNCHANGED <<body, camera, offered, viewport, aim, fallbackCost, place, loadInFlight,
                       retryAt, picture, fallback, mergeInFlight, manifest, selectors, readers,
                       store, spent>>
    BY DEF Evict, Safe
  <1>2. /\ tiles' \in SUBSET tiles /\ inFlight' \in SUBSET inFlight
        /\ bounds' \in SUBSET Tiles /\ costs' \in SUBSET Tiles /\ EveryTileIsCharged'
        /\ mergers' \subseteq Merges /\ composed' \in BOOLEAN /\ Composing'
    <2>1. CASE body = "Earth"
      <3>1. /\ Prune(tiles, costs, viewport, bounds, fallbackCost) /\ SetTiles(tiles')
            /\ UNCHANGED inFlight
        BY <2>1 DEF Evict
      <3>2. costs = tiles /\ tiles \subseteq bounds /\ tiles \in SUBSET Tiles /\ bounds \in SUBSET Tiles
        BY <1>1, <2>1 DEF Safe, Holding, EveryTileIsCharged, TypeOK
      <3>3. /\ tiles' \in SUBSET tiles /\ costs' \in SUBSET tiles /\ bounds' \in SUBSET bounds
            /\ costs' = tiles' /\ tiles' \subseteq bounds'
        BY <3>1, <3>2, PruneShape
      <3>4. PICK kept \in SUBSET Tiles : kept = tiles' /\ SetTiles(kept)
        BY <3>1, <3>2, <3>3
      <3>5. mergers' \subseteq Merges /\ composed' \in BOOLEAN /\ Composing'
        BY <1>1, <3>4, TilesMarked DEF Safe, place
      <3> QED
        BY <3>1, <3>2, <3>3, <3>5 DEF EveryTileIsCharged
    <2>2. CASE body # "Earth"
      <3>1. KeepNearest \/ UNCHANGED <<tiles, inFlight, composed, mergers>>
        BY <2>2 DEF Evict
      <3>2. UNCHANGED <<bounds, costs>>
        BY <2>2 DEF Evict
      <3>3. CASE KeepNearest
        <4>1. PICK S \in SUBSET tiles : inFlight' = inFlight \cap S /\ SetTiles(S)
          BY <3>3 DEF KeepNearest
        <4>2. /\ tiles' = S /\ mergers' \subseteq Merges /\ composed' \in BOOLEAN /\ Composing'
          BY <1>1, <4>1, TilesMarked DEF Safe, TypeOK, place
        <4> QED
          BY <1>1, <2>2, <3>2, <4>1, <4>2 DEF EveryTileIsCharged, TypeOK
      <3>4. CASE UNCHANGED <<tiles, inFlight, composed, mergers>>
        BY <1>1, <2>2, <3>2, <3>4, ComposingKept DEF EveryTileIsCharged, TypeOK, Safe, Composing, place
      <3> QED
        BY <3>1, <3>3, <3>4
    <2> QED
      BY <2>1, <2>2
  <1>3. TypeOK'
    BY <1>1, <1>2 DEF TypeOK, place, manifest, store
  <1>4. RepaintShape'
    BY <1>1 DEF Safe, RepaintShape
  <1>5. Choosing' /\ Fetching' /\ Showing'
    BY <1>1, <1>2, ChoosingKept, FetchingKept, ShowingKept DEF Safe, place, manifest
  <1>6. Holding'
    BY <1>1, <1>2 DEF Safe, Holding, place
  <1> QED
    BY <1>2, <1>3, <1>4, <1>5, <1>6 DEF Safe

\* A composition begins with the tiles of the scene, over what is kept of its root.
LEMMA RenderStep ==
    ASSUME Safe, Render
    PROVE  Safe'
  <1> DEFINE new == [epoch |-> loadEpoch, tiles |-> tiles, under |-> fallback, view |-> viewport,
                     fresh |-> TRUE, steady |-> TRUE]
  <1>1. /\ step = "render" /\ step' = "viewport" /\ offered' = {} /\ TypeOK
        /\ UNCHANGED <<body, camera, residency, place, tiles, reading, picture, fallback, composed,
                       manifest, selectors, readers, store, spent>>
    BY DEF Render, Safe
  <1>2. \/ UNCHANGED <<mergeInFlight, mergers>>
        \/ mergeInFlight = None /\ mergeInFlight' = loadEpoch /\ mergers' = mergers \cup {new}
    BY DEF Render
  <1>3. Composing' /\ mergers' \subseteq Merges /\ mergeInFlight' \in {None} \cup Nat
    <2>1. CASE UNCHANGED <<mergeInFlight, mergers>>
      BY <1>1, <2>1, ComposingKept DEF Safe, Composing, TypeOK, place
    <2>2. CASE mergeInFlight = None /\ mergeInFlight' = loadEpoch /\ mergers' = mergers \cup {new}
      <3>1. mergers = {} /\ loadEpoch \in Nat /\ loadEpoch # None
        BY <1>1, <2>2, NoneAssumption DEF Safe, Composing, TypeOK
      <3>2. /\ new \in Merges /\ new.epoch = loadEpoch /\ new.tiles = tiles /\ new.under = fallback
        BY <1>1 DEF TypeOK, Merges
      <3> HIDE DEF new
      <3>3. mergers' = {new}
        BY <2>2, <3>1
      <3>4. IsOfRoot(fallback) /\ \A t \in tiles : t.scene = scene
        BY DEF Safe, Showing, Holding
      <3>5. MergeShape'
        BY <1>1, <3>1, <3>2, <3>3, <3>4 DEF MergeShape, IsOfRoot, place
      <3> QED
        BY <2>2, <3>1, <3>2, <3>3, <3>5 DEF Composing
    <2> QED
      BY <1>2, <2>1, <2>2
  <1>4. TypeOK'
    BY <1>1, <1>3 DEF TypeOK, residency, place, reading, manifest, store
  <1>5. RepaintShape'
    BY <1>1 DEF RepaintShape
  <1>6. Choosing' /\ Fetching' /\ Showing' /\ Holding'
    BY <1>1, ChoosingKept, FetchingKept, ShowingKept, HoldingKept
       DEF Safe, residency, place, reading, manifest
  <1> QED
    BY <1>3, <1>4, <1>5, <1>6 DEF Safe

-----------------------------------------------------------------------------
(* The workers.                                                            *)

\* A selection lists tiles of its key's scene.
LEMMA SelectStep ==
    ASSUME Safe, NEW s \in selectors, SelectTiles(s), UNCHANGED spent
    PROVE  Safe'
  <1> DEFINE new == [s EXCEPT !.seen = Selection(s.key)]
  <1>1. /\ selectors' = (selectors \ {s}) \cup {new} /\ TypeOK
        /\ UNCHANGED <<painting, residency, place, tiles, reading, drawing, manifest, readers,
                       mergers, store>>
    BY DEF SelectTiles, Safe
  <1>2. s \in Selections /\ \A other \in selectors : other = s
    BY <1>1 DEF TypeOK, Safe, Choosing
  <1>3. Selection(s.key) \in SUBSET Tiles /\ \A t \in Selection(s.key) : t.scene = s.key.scene
    BY <1>1 DEF TypeOK, Selection
  <1>4. new \in Selections /\ new.key = s.key /\ new.seen = Selection(s.key)
    BY <1>2, <1>3 DEF Selections
  <1> HIDE DEF new
  <1>5. selectors' = {new}
    BY <1>1, <1>2
  <1>6. TypeOK'
    BY <1>1, <1>4, <1>5 DEF TypeOK, painting, residency, place, reading, drawing, manifest, store
  <1>7. RepaintShape'
    BY <1>1 DEF Safe, RepaintShape, painting
  <1>8. Choosing'
    BY <1>1, <1>3, <1>4, <1>5 DEF Safe, Choosing, SelectionShape, manifest
  <1>9. Fetching' /\ Showing' /\ Holding' /\ Composing'
    BY <1>1, FetchingKept, ShowingKept, HoldingKept, ComposingKept
       DEF Safe, Composing, painting, residency, place, reading, drawing
  <1> QED
    BY <1>6, <1>7, <1>8, <1>9 DEF Safe

\* The gate opens whatever comes of the result.
LEMMA FinishManifestStep ==
    ASSUME Safe, NEW s \in selectors, NEW assets \in {None, s.seen}, FinishManifest(s, assets),
           UNCHANGED spent \/ Spend
    PROVE  Safe'
  <1> DEFINE new == [key |-> s.key, rev |-> s.rev, assets |-> assets]
  <1>1. /\ selectors' = selectors \ {s} /\ busy' = FALSE /\ TypeOK
        /\ snapshot' = snapshot \/ (assets # None /\ snapshot' = new)
        /\ UNCHANGED <<painting, residency, place, tiles, reading, drawing, requestedKey,
                       manifestEpoch, readers, mergers, store>>
    BY DEF FinishManifest, FinishManifestWith, Safe
  <1>2. s \in Selections /\ \A other \in selectors : other = s
    BY <1>1 DEF TypeOK, Safe, Choosing
  <1>3. assets # None => /\ new \in Snapshots /\ \A t \in assets : t.scene = s.key.scene
    BY <1>2 DEF Selections, Snapshots, Safe, Choosing, SelectionShape
  <1>4. new.key = s.key /\ new.assets = assets
    OBVIOUS
  <1> HIDE DEF new
  <1>5. selectors' = {} /\ busy' \in BOOLEAN
    BY <1>1, <1>2
  <1>6. TypeOK'
    <2>1. snapshot' \in {None} \cup Snapshots /\ spent' \in 0 .. Budget
      BY <1>1, <1>3, GlobeAssumption DEF TypeOK, Spend
    <2> QED
      BY <1>1, <1>5, <2>1 DEF TypeOK, painting, residency, place, reading, drawing, store
  <1>7. RepaintShape'
    BY <1>1 DEF Safe, RepaintShape, painting
  <1>8. Choosing'
    BY <1>1, <1>3, <1>4, <1>5 DEF Safe, Choosing, SelectionShape
  <1>9. Fetching' /\ Showing' /\ Holding' /\ Composing'
    BY <1>1, FetchingKept, ShowingKept, HoldingKept, ComposingKept
       DEF Safe, Composing, painting, residency, place, reading, drawing
  <1> QED
    BY <1>6, <1>7, <1>8, <1>9 DEF Safe

\* A reader that goes on keeps its gate and its claims.
LEMMA ReaderGoesOn ==
    ASSUME Safe, NEW r \in readers, NEW next \in Batches, Goes(r, next),
           next.epoch = r.epoch, next.batch = r.batch, next.todo \cup next.done \subseteq r.batch,
           UNCHANGED <<loadInFlight, loadEpoch, scene>>, inFlight' \subseteq inFlight
    PROVE  Fetching' /\ readers' \subseteq Batches
  <1>1. /\ \A other \in readers : other = r
        /\ loadInFlight = r.epoch /\ r.epoch <= loadEpoch
        /\ r.epoch = loadEpoch => \A t \in r.batch : t.scene = scene
        /\ \A t \in inFlight : t \in r.batch /\ IsCurrent(r)
    BY DEF Safe, Fetching, ReaderShape
  <1>2. readers' = {next}
    BY <1>1 DEF Goes
  <1>3. ReaderShape'
    BY <1>1, <1>2 DEF ReaderShape
  <1>4. loadInFlight' # None
    BY DEF Safe, Fetching
  <1> QED
    BY <1>1, <1>2, <1>3, <1>4 DEF Fetching, IsCurrent

\* What a reader's step leaves alone, if it only sets the reader.
LEMMA ReaderOnlyStep ==
    ASSUME Safe, NEW r \in readers, NEW next \in Batches, Goes(r, next), ReaderOnly,
           next.epoch = r.epoch, next.batch = r.batch, next.todo \cup next.done \subseteq r.batch,
           UNCHANGED spent \/ Spend
    PROVE  Safe'
  <1>1. /\ TypeOK
        /\ UNCHANGED <<painting, residency, place, tiles, reading, drawing, manifest, selectors,
                       mergers, store>>
    BY DEF Safe, ReaderOnly
  <1>2. Fetching' /\ readers' \subseteq Batches
    BY <1>1, ReaderGoesOn DEF place, reading
  <1>3. TypeOK'
    <2>1. spent' \in 0 .. Budget
      BY <1>1, GlobeAssumption DEF TypeOK, Spend
    <2> QED
      BY <1>1, <1>2, <2>1 DEF TypeOK, painting, residency, place, reading, drawing, manifest, store
  <1>4. RepaintShape'
    BY <1>1 DEF Safe, RepaintShape, painting
  <1>5. Choosing' /\ Showing' /\ Holding' /\ Composing'
    BY <1>1, ChoosingKept, ShowingKept, HoldingKept, ComposingKept
       DEF Safe, Composing, painting, residency, place, drawing, manifest
  <1> QED
    BY <1>2, <1>3, <1>4, <1>5 DEF Safe

\* A tile decoded by a reader is published by the reader's epoch only.
LEMMA DecodeStep ==
    ASSUME Safe, NEW r \in readers, NEW t \in r.todo, Decode(r, t), UNCHANGED spent
    PROVE  Safe'
  <1> DEFINE next == [r EXCEPT !.todo = @ \ {t}, !.done = @ \cup {t}]
  <1>1. r \in Batches /\ r.todo \cup r.done \subseteq r.batch
    BY DEF Safe, TypeOK, Fetching, ReaderShape
  <1>2. /\ next \in Batches /\ next.epoch = r.epoch /\ next.batch = r.batch
        /\ next.todo \cup next.done \subseteq r.batch
    BY <1>1 DEF Batches
  <1>3. Goes(r, next) /\ ReaderOnly
    BY DEF Decode
  <1> QED
    BY <1>2, <1>3, ReaderOnlyStep

\* A reader that fails leaves its gate to whoever finishes it.
LEMMA FailStep ==
    ASSUME Safe, NEW r \in readers, ReaderFails(r) \/ \E t \in r.todo : TileFails(r, t), Spend
    PROVE  Safe'
  <1>1. r \in Batches /\ r.todo \cup r.done \subseteq r.batch
    BY DEF Safe, TypeOK, Fetching, ReaderShape
  <1>2. CASE ReaderFails(r)
    <2> DEFINE next == [r EXCEPT !.todo = {}, !.done = {}, !.failed = TRUE]
    <2>1. /\ next \in Batches /\ next.epoch = r.epoch /\ next.batch = r.batch
          /\ next.todo \cup next.done \subseteq r.batch
      BY <1>1 DEF Batches
    <2>2. Goes(r, next) /\ ReaderOnly
      BY <1>2 DEF ReaderFails
    <2> QED
      BY <2>1, <2>2, ReaderOnlyStep
  <1>3. ASSUME NEW t \in r.todo, TileFails(r, t) PROVE Safe'
    <2> DEFINE next == [r EXCEPT !.todo = @ \ {t}, !.failed = TRUE]
    <2>1. /\ next \in Batches /\ next.epoch = r.epoch /\ next.batch = r.batch
          /\ next.todo \cup next.done \subseteq r.batch
      BY <1>1 DEF Batches
    <2>2. Goes(r, next) /\ ReaderOnly
      BY <1>3 DEF TileFails
    <2> QED
      BY <2>1, <2>2, ReaderOnlyStep
  <1> QED
    BY <1>2, <1>3

\* A tile that is wanted is charged as it is adopted; one of another epoch is dropped.
LEMMA PublishStep ==
    ASSUME Safe, NEW r \in readers, NEW t \in r.todo, Publish(r, t), UNCHANGED spent
    PROVE  Safe'
  <1> DEFINE adopted == IF Wanted(t, viewport, bounds \cup {t}) THEN {t} ELSE {}
             on == [r EXCEPT !.todo = @ \ {t}, !.done = @ \cup {t}]
             ended == [r EXCEPT !.todo = {}]
  <1>1. /\ TypeOK /\ body = "Earth"
        /\ UNCHANGED <<painting, viewport, aim, fallbackCost, place, loadInFlight, retryAt, picture,
                       fallback, mergeInFlight, manifest, selectors, store>>
    BY DEF Publish, Safe
  <1>2. /\ r \in Batches /\ t \in Tiles /\ r.todo \cup r.done \subseteq r.batch
        /\ IsCurrent(r) => t.scene = scene
    BY DEF Safe, TypeOK, Fetching, ReaderShape, Batches, IsCurrent
  <1>3. /\ on \in Batches /\ on.epoch = r.epoch /\ on.batch = r.batch
        /\ on.todo \cup on.done \subseteq r.batch
        /\ ended \in Batches /\ ended.epoch = r.epoch /\ ended.batch = r.batch
        /\ ended.todo \cup ended.done \subseteq r.batch
    BY <1>2 DEF Batches
  <1>4. \/ /\ IsCurrent(r) /\ Goes(r, on) /\ inFlight' = inFlight \ {t}
           /\ bounds' = bounds \cup {t} /\ costs' = costs \cup adopted
           /\ SetTiles(tiles \cup adopted)
        \/ /\ Goes(r, ended) /\ UNCHANGED <<inFlight, bounds, costs, tiles, composed, mergers>>
    BY DEF Publish
  <1> HIDE DEF on, ended
  <1>5. inFlight' \subseteq inFlight
    BY <1>4
  <1>6. Fetching' /\ readers' \subseteq Batches
    BY <1>1, <1>3, <1>4, <1>5, ReaderGoesOn DEF place
  <1>7. /\ tiles' \in SUBSET Tiles /\ bounds' \in SUBSET Tiles /\ costs' \in SUBSET Tiles
        /\ mergers' \subseteq Merges /\ composed' \in BOOLEAN /\ Composing' /\ Holding'
    <2>1. CASE /\ IsCurrent(r) /\ inFlight' = inFlight \ {t}
               /\ bounds' = bounds \cup {t} /\ costs' = costs \cup adopted
               /\ SetTiles(tiles \cup adopted)
      <3>1. adopted \in SUBSET {t} /\ tiles \cup adopted \in SUBSET Tiles
        BY <1>1, <1>2 DEF TypeOK
      <3> HIDE DEF adopted
      <3>2. /\ tiles' = tiles \cup adopted /\ mergers' \subseteq Merges /\ composed' \in BOOLEAN
            /\ Composing'
        BY <1>1, <2>1, <3>1, TilesMarked DEF Safe, place
      <3>3. Holding'
        BY <1>1, <1>2, <2>1, <3>1, <3>2 DEF Safe, Holding, EveryTileIsCharged, painting, place
      <3> QED
        BY <1>1, <1>2, <2>1, <3>1, <3>2, <3>3 DEF TypeOK
    <2>2. CASE UNCHANGED <<inFlight, bounds, costs, tiles, composed, mergers>>
      BY <1>1, <2>2, ComposingKept, HoldingKept DEF Safe, Composing, TypeOK, painting, place
    <2> QED
      BY <1>4, <2>1, <2>2
  <1>8. TypeOK'
    BY <1>1, <1>5, <1>6, <1>7 DEF TypeOK, painting, place, manifest, store
  <1>9. RepaintShape'
    BY <1>1 DEF Safe, RepaintShape, painting
  <1>10. Choosing' /\ Showing'
    BY <1>1, ChoosingKept, ShowingKept DEF Safe, place, manifest
  <1> QED
    BY <1>6, <1>7, <1>8, <1>9, <1>10 DEF Safe

\* The reader ends, and with it its claims; the batch of a current one is of the scene.
LEMMA FinishReadStep ==
    ASSUME Safe, NEW r \in readers, FinishGlobeRead(r), UNCHANGED spent
    PROVE  Safe'
  <1> DEFINE failed == r.failed /\ r.done = {}
             brought == IF body = "Moon" /\ ~failed THEN r.done ELSE {}
  <1>1. /\ TypeOK /\ readers' = readers \ {r}
        /\ loadInFlight' = IF loadInFlight = r.epoch THEN None ELSE loadInFlight
        /\ UNCHANGED <<painting, residency, place, picture, fallback, mergeInFlight, manifest,
                       selectors, store>>
    BY DEF FinishGlobeRead, Safe
  <1>2. \/ /\ IsCurrent(r) /\ inFlight' = inFlight \ r.batch /\ retryAt' = failed
           /\ SetTiles(tiles \cup brought)
        \/ UNCHANGED <<inFlight, retryAt, tiles, composed, mergers>>
    BY DEF FinishGlobeRead
  <1>3. /\ r \in Batches /\ r.done \subseteq r.batch /\ loadInFlight = r.epoch
        /\ \A other \in readers : other = r
        /\ IsCurrent(r) => \A t \in r.batch : t.scene = scene
        /\ \A t \in inFlight : t \in r.batch /\ IsCurrent(r)
    BY <1>1 DEF Safe, TypeOK, Fetching, ReaderShape, IsCurrent
  <1>4. readers' = {} /\ loadInFlight' = None
    BY <1>1, <1>3
  <1>5. inFlight' = {}
    <2>1. CASE IsCurrent(r)
      <3>1. inFlight' = inFlight \ r.batch
        BY <2>1 DEF FinishGlobeRead
      <3> QED
        BY <1>3, <3>1
    <2>2. CASE ~IsCurrent(r)
      BY <1>2, <1>3, <2>2
    <2> QED
      BY <2>1, <2>2
  <1>6. Fetching'
    BY <1>4, <1>5 DEF Fetching, ReaderShape
  <1>7. /\ tiles' \in SUBSET Tiles /\ mergers' \subseteq Merges /\ composed' \in BOOLEAN
        /\ retryAt' \in BOOLEAN /\ Composing' /\ Holding'
    <2>1. CASE /\ IsCurrent(r) /\ retryAt' = failed /\ SetTiles(tiles \cup brought)
      <3>1. /\ brought \in SUBSET r.done /\ (body = "Earth" => brought = {})
            /\ failed \in BOOLEAN /\ tiles \cup brought \in SUBSET Tiles
        BY <1>1, <1>3 DEF TypeOK, Batches
      <3> HIDE DEF brought, failed
      <3>2. /\ tiles' = tiles \cup brought /\ mergers' \subseteq Merges /\ composed' \in BOOLEAN
            /\ Composing'
        BY <1>1, <2>1, <3>1, TilesMarked DEF Safe, place
      <3>3. Holding'
        BY <1>1, <1>3, <2>1, <3>1, <3>2 DEF Safe, Holding, EveryTileIsCharged, painting, residency, place
      <3> QED
        BY <2>1, <3>1, <3>2, <3>3
    <2>2. CASE UNCHANGED <<inFlight, retryAt, tiles, composed, mergers>>
      BY <1>1, <2>2, ComposingKept, HoldingKept DEF Safe, Composing, TypeOK, painting, residency, place
    <2> QED
      BY <1>2, <2>1, <2>2
  <1>8. TypeOK'
    BY <1>1, <1>4, <1>5, <1>7 DEF TypeOK, painting, residency, place, manifest, store
  <1>9. RepaintShape'
    BY <1>1 DEF Safe, RepaintShape, painting
  <1>10. Choosing' /\ Showing'
    BY <1>1, ChoosingKept, ShowingKept DEF Safe, place, manifest
  <1> QED
    BY <1>6, <1>7, <1>8, <1>9, <1>10 DEF Safe

\* A retry that falls due disturbs nothing.
LEMMA RetryStep ==
    ASSUME Safe, RetryDue
    PROVE  Safe'
  <1>1. /\ TypeOK /\ retryAt' \in BOOLEAN
        /\ UNCHANGED <<painting, residency, place, tiles, inFlight, loadInFlight, drawing, manifest,
                       selectors, readers, mergers, store, spent>>
    BY DEF Safe, RetryDue
  <1>2. TypeOK'
    BY <1>1 DEF TypeOK, painting, residency, place, drawing, manifest, store
  <1>3. RepaintShape'
    BY <1>1 DEF Safe, RepaintShape, painting
  <1>4. Choosing' /\ Fetching' /\ Showing' /\ Holding' /\ Composing'
    BY <1>1, ChoosingKept, FetchingKept, ShowingKept, HoldingKept, ComposingKept
       DEF Safe, Composing, painting, residency, place, drawing, manifest
  <1> QED
    BY <1>2, <1>3, <1>4 DEF Safe

\* The source of a point is one of the tiles that are composed.
LEMMA OwnerIsSource ==
    ASSUME NEW sources, NEW g
    PROVE  Owner(sources, g) \subseteq sources
  <1> DEFINE cores == {t \in sources : g \in Core[t]}
             halos == {t \in sources \ Blank : g \in Halo[t]}
  <1>1. Owner(sources, g) = cores \/ Owner(sources, g) = {}
          \/ (halos # {} /\ Owner(sources, g) = {CHOOSE t \in halos : TRUE})
    BY DEF Owner
  <1>2. halos # {} => (CHOOSE t \in halos : TRUE) \in halos
    OBVIOUS
  <1> QED
    BY <1>1, <1>2

\* What Earth composes, and what the Moon flattens, comes from the worker's tiles and from
\* what was underneath.
LEMMA PictureShape ==
    ASSUME TypeOK, NEW m \in mergers, Compose(m) \/ (Flatten(m) /\ fallback \in Pictures)
    PROVE  /\ picture' \in Pictures /\ fallback' \in Pictures /\ composed' \in BOOLEAN
           /\ \A g \in Ground : /\ fallback'[g] \subseteq m.under[g] \/ UNCHANGED fallback
                                /\ picture'[g] \subseteq m.tiles \cup fallback'[g]
  <1>1. m.tiles \in SUBSET Tiles /\ m.under \in [Ground -> SUBSET Tiles] /\ m.fresh \in BOOLEAN
    BY DEF TypeOK, Merges, Pictures
  <1>2. CASE Compose(m)
    <2> DEFINE rest == Uncovered(m.tiles, m.under)
    <2>1. PICK S : /\ fallback' = Without(rest, S)
                   /\ picture' = [g \in Ground |-> Owner(m.tiles, g) \cup fallback'[g]]
                   /\ composed' = m.fresh
      BY <1>2 DEF Compose
    <2>2. \A g \in Ground : rest[g] \subseteq m.under[g]
      BY DEF Uncovered
    <2> HIDE DEF rest
    <2>3. fallback' = [g \in Ground |-> rest[g] \ S]
      BY <2>1 DEF Without
    <2>4. fallback' \in [Ground -> SUBSET Tiles] /\ \A g \in Ground : fallback'[g] \subseteq m.under[g]
      BY <1>1, <2>2, <2>3
    <2>5. \A g \in Ground : picture'[g] \subseteq m.tiles \cup fallback'[g]
      BY <2>1, OwnerIsSource
    <2>6. picture' \in [Ground -> SUBSET Tiles]
      BY <1>1, <2>1, <2>4, <2>5
    <2> QED
      BY <1>1, <2>1, <2>4, <2>5, <2>6 DEF Pictures
  <1>3. CASE Flatten(m) /\ fallback \in Pictures
    <2>1. /\ picture' = [g \in Ground |-> {t \in m.tiles : g \in Halo[t]}]
          /\ composed' = TRUE /\ UNCHANGED fallback
      BY <1>3 DEF Flatten
    <2>2. picture' \in [Ground -> SUBSET Tiles] /\ \A g \in Ground : picture'[g] \subseteq m.tiles
      BY <1>1, <2>1
    <2> QED
      BY <1>3, <2>1, <2>2 DEF Pictures
  <1> QED
    BY <1>2, <1>3

\* A result of the current epoch shows the scene, over terrain of its root.
LEMMA FinishMergeStep ==
    ASSUME Safe, NEW m \in mergers, NEW done \in BOOLEAN, FinishMerge(m, done),
           UNCHANGED spent \/ Spend
    PROVE  Safe'
  <1>1. /\ TypeOK /\ mergers' = mergers \ {m} /\ mergeInFlight' = None
        /\ UNCHANGED <<painting, viewport, aim, bounds, costs, place, tiles, reading, manifest,
                       selectors, readers, store>>
    BY DEF FinishMerge, Safe
  <1>2. \/ m.epoch = loadEpoch /\ (Compose(m) \/ Flatten(m))
        \/ UNCHANGED <<picture, fallback, fallbackCost, composed>>
    BY DEF FinishMerge, IsAccepted
  <1>3. mergers' = {}
    BY <1>1 DEF Safe, Composing
  <1>4. Showing' /\ picture' \in Pictures /\ fallback' \in Pictures /\ composed' \in BOOLEAN
    <2>1. CASE m.epoch = loadEpoch /\ (Compose(m) \/ Flatten(m))
      <3>1. /\ picture' \in Pictures /\ fallback' \in Pictures /\ composed' \in BOOLEAN
            /\ \A g \in Ground : /\ fallback'[g] \subseteq m.under[g] \/ UNCHANGED fallback
                                 /\ picture'[g] \subseteq m.tiles \cup fallback'[g]
        BY <1>1, <2>1, PictureShape DEF TypeOK
      <3>2. /\ \A t \in m.tiles : t \in Tiles /\ t.scene = scene /\ scene # None
            /\ IsOfRoot(m.under) /\ IsOfRoot(fallback) /\ scene' = scene
        BY <1>1, <2>1, NoneAssumption DEF Safe, Composing, MergeShape, Showing, TypeOK, Merges, place
      <3>3. IsOfRoot(fallback)'
        <4>1. ASSUME NEW t \in TilesOf(fallback')
              PROVE  scene # None /\ t.scene.root = scene.root
          <5>1. PICK g \in Ground : t \in fallback'[g] /\ t \notin Blank
            BY <4>1, InPicture
          <5>2. t \in m.under[g] \/ t \in fallback[g]
            BY <3>1, <5>1
          <5>3. t \in TilesOf(m.under) \/ t \in TilesOf(fallback)
            BY <5>1, <5>2, InPicture
          <5> QED
            BY <3>2, <5>3 DEF IsOfRoot
        <4> QED
          BY <3>2, <4>1 DEF IsOfRoot
      <3>4. IsOfRoot(picture)'
        <4>1. ASSUME NEW t \in TilesOf(picture')
              PROVE  scene # None /\ t.scene.root = scene.root
          <5>1. PICK g \in Ground : t \in picture'[g] /\ t \notin Blank
            BY <4>1, InPicture
          <5>2. t \in m.tiles \/ t \in fallback'[g]
            BY <3>1, <5>1
          <5>3. t \in m.tiles \/ t \in TilesOf(fallback')
            BY <5>1, <5>2, InPicture
          <5> QED
            BY <3>2, <3>3, <5>3 DEF IsOfRoot
        <4> QED
          BY <3>2, <4>1 DEF IsOfRoot
      <3> QED
        BY <3>1, <3>3, <3>4 DEF Showing
    <2>2. CASE UNCHANGED <<picture, fallback, fallbackCost, composed>>
      BY <1>1, <2>2, ShowingKept DEF Safe, TypeOK, place
    <2> QED
      BY <1>2, <2>1, <2>2
  <1>5. TypeOK'
    <2>1. spent' \in 0 .. Budget
      BY <1>1, GlobeAssumption DEF TypeOK, Spend
    <2> QED
      BY <1>1, <1>3, <1>4, <2>1 DEF TypeOK, painting, place, reading, manifest, store
  <1>6. RepaintShape'
    BY <1>1 DEF Safe, RepaintShape, painting
  <1>7. Composing'
    BY <1>1, <1>3 DEF Composing, MergeShape
  <1>8. Choosing' /\ Fetching' /\ Holding'
    BY <1>1, ChoosingKept, FetchingKept, HoldingKept DEF Safe, painting, place, reading, manifest
  <1> QED
    BY <1>4, <1>5, <1>6, <1>7, <1>8 DEF Safe

\* A commit bumps the revision and outdates selections.
LEMMA CommitStep ==
    ASSUME Safe, NEW t \in Tiles, CommitTile(t)
    PROVE  Safe'
  <1>1. /\ TypeOK /\ ready' = ready \cup {t} /\ revision' = revision + 1
        /\ UNCHANGED <<painting, residency, place, tiles, reading, drawing, manifest, selectors,
                       readers, mergers, spent>>
    BY DEF Safe, CommitTile
  <1>2. TypeOK'
    BY <1>1 DEF TypeOK, painting, residency, place, reading, drawing, manifest
  <1>3. RepaintShape'
    BY <1>1 DEF Safe, RepaintShape, painting
  <1>4. Choosing' /\ Fetching' /\ Showing' /\ Holding' /\ Composing'
    BY <1>1, ChoosingKept, FetchingKept, ShowingKept, HoldingKept, ComposingKept
       DEF Safe, Composing, painting, residency, place, reading, drawing, manifest
  <1> QED
    BY <1>2, <1>3, <1>4 DEF Safe

-----------------------------------------------------------------------------
(* What is drawn, and what compositions take over.                         *)

\* Every composition is one of before, or begins with the fallback of now.
Follow ==
    \A n \in mergers' :
        \/ n.epoch = loadEpoch /\ n.under = fallback
        \/ \E m \in mergers : n.epoch = m.epoch /\ n.under = m.under

\* A step leaves the picture alone, or turns to another scene or to none, or publishes
\* the result of a composition.
Rests == UNCHANGED <<body, scene, loadEpoch, picture, fallback>> /\ Follow
Turns ==
    /\ UNCHANGED body /\ loadEpoch' = loadEpoch + 1 /\ picture' = Nothing
    /\ \A n \in mergers' : \E m \in mergers : n.epoch = m.epoch /\ n.under = m.under
    /\ \/ scene' = None /\ fallback' = Nothing
       \/ fallback' = Kept(scene # None /\ scene.root = scene'.root)
Publishes(m) ==
    /\ UNCHANGED <<body, scene, loadEpoch>> /\ m.epoch = loadEpoch /\ mergers' = {}
    /\ IF body = "Earth" THEN Compose(m) ELSE Flatten(m)

\* Workers that are only marked follow those of before.
LEMMA MarkedFollow ==
    ASSUME TypeOK, Composing, NEW fresh \in BOOLEAN, NEW steady \in BOOLEAN,
           \/ UNCHANGED mergers
           \/ mergers' = {[m EXCEPT !.fresh = FALSE] : m \in mergers}
           \/ mergers' = {[m EXCEPT !.fresh = @ /\ fresh, !.steady = @ /\ steady] : m \in mergers}
    PROVE  \A n \in mergers' : \E m \in mergers : n.epoch = m.epoch /\ n.under = m.under
  <1>1. CASE UNCHANGED mergers
    BY <1>1
  <1>2. CASE mergers' = {[m EXCEPT !.fresh = FALSE] : m \in mergers}
    BY <1>2, Outdating DEF MarkedFrom
  <1>3. CASE mergers' = {[m EXCEPT !.fresh = @ /\ fresh, !.steady = @ /\ steady] : m \in mergers}
    <2>1. MarkedFrom({[m EXCEPT !.fresh = @ /\ fresh, !.steady = @ /\ steady] : m \in mergers})
      BY Marking
    <2>2. MarkedFrom(mergers')
      BY <1>3, <2>1
    <2> QED
      BY <2>2 DEF MarkedFrom
  <1> QED
    BY <1>1, <1>2, <1>3

\* The repaint and the user.
LEMMA FrameDrives ==
    ASSUME Safe, Frame \/ User
    PROVE  Rests \/ Turns
  <1>0. TypeOK /\ Composing
    BY DEF Safe
  <1>1. CASE Repaint \/ (\E v \in Views : Move(v)) \/ Assets
    <2>1. UNCHANGED <<body, place, drawing, mergers>>
      BY <1>1 DEF Repaint, Move, SetViewport, Assets
    <2> QED
      BY <2>1 DEF Rests, Follow, place, drawing
  <1>2. CASE Leave \/ BlastTileCaches
    <2>1. CASE ResetAll /\ UNCHANGED body
      <3>1. /\ loadEpoch' = loadEpoch + 1 /\ scene' = None /\ picture' = Nothing /\ fallback' = Nothing
            /\ mergers' = {[m EXCEPT !.fresh = FALSE] : m \in mergers}
        BY <2>1 DEF ResetAll, ResetTo
      <3> QED
        BY <1>0, <2>1, <3>1, MarkedFollow DEF Turns
    <2>2. CASE UNCHANGED <<body, place, drawing, mergers>>
      BY <2>2 DEF Rests, Follow, place, drawing
    <2> QED
      BY <1>2, <2>1, <2>2 DEF Leave, BlastTileCaches, painting
  <1>3. CASE Load
    <2>1. UNCHANGED body /\ Arrive(camera) /\ Outdate(camera)
      BY <1>3 DEF Load
    <2>2. \A n \in mergers' : \E m \in mergers : n.epoch = m.epoch /\ n.under = m.under
      <3> DEFINE turned == body = "Earth" /\ (aim = None \/ Cells[aim] # Cells[camera])
                 same == tiles' = tiles /\ scene = Scene[camera]
                 steady == ~turned
      <3>1. mergers' = {[m EXCEPT !.fresh = @ /\ same, !.steady = @ /\ steady] : m \in mergers}
        BY <2>1 DEF Outdate
      <3>2. same \in BOOLEAN /\ steady \in BOOLEAN
        OBVIOUS
      <3> HIDE DEF same, steady
      <3> QED
        BY <1>0, <3>1, <3>2, MarkedFollow
    <2>3. CASE scene = Scene[camera]
      BY <2>1, <2>2, <2>3 DEF Arrive, Rests, Follow
    <2>4. CASE scene # Scene[camera]
      BY <2>1, <2>2, <2>4 DEF Arrive, Turns
    <2> QED
      BY <2>3, <2>4
  <1>4. CASE Evict
    <2>1. UNCHANGED <<body, place, picture, fallback>>
      BY <1>4 DEF Evict
    <2>2. UNCHANGED mergers \/ \E kept : SetTiles(kept)
      BY <1>4 DEF Evict, KeepNearest
    <2>3. UNCHANGED mergers \/ mergers' = {[m EXCEPT !.fresh = FALSE] : m \in mergers}
      BY <2>2 DEF SetTiles
    <2> QED
      BY <1>0, <2>1, <2>3, MarkedFollow DEF Rests, Follow, place
  <1>5. CASE Render
    <2>1. UNCHANGED <<body, place, picture, fallback>>
      BY <1>5 DEF Render
    <2>2. \/ UNCHANGED mergers
          \/ \E view : mergers' = mergers \cup
                 {[epoch |-> loadEpoch, tiles |-> tiles, under |-> fallback, view |-> view,
                   fresh |-> TRUE, steady |-> TRUE]}
      BY <1>5 DEF Render
    <2>3. Follow
      BY <2>2 DEF Follow
    <2> QED
      BY <2>1, <2>3 DEF Rests, place
  <1> QED
    BY <1>1, <1>2, <1>3, <1>4, <1>5 DEF Frame, User

\* The workers, their failures, and what happens outside.
LEMMA WorkDrives ==
    ASSUME Safe, Work \/ Faults \/ RetryDue \/ (\E t \in Tiles : CommitTile(t)) \/ UNCHANGED vars
    PROVE  Rests \/ \E m \in mergers : Publishes(m)
  <1>0. TypeOK /\ Composing /\ \A m, other \in mergers : m = other
    BY DEF Safe, Composing
  <1>1. ASSUME UNCHANGED <<body, place, picture, fallback>>,
               UNCHANGED mergers \/ mergers' = {[m EXCEPT !.fresh = FALSE] : m \in mergers}
        PROVE  Rests
    BY <1>0, <1>1, MarkedFollow DEF Rests, Follow, place
  <1>2. ASSUME NEW s \in selectors, NEW assets, SelectTiles(s) \/ FinishManifest(s, assets)
        PROVE  Rests
    BY <1>1, <1>2 DEF SelectTiles, FinishManifest, FinishManifestWith, painting, drawing
  <1>3. ASSUME NEW r \in readers, ReaderFails(r) \/ \E t \in r.todo : TileFails(r, t) \/ Decode(r, t)
        PROVE  Rests
    BY <1>1, <1>3 DEF ReaderFails, TileFails, Decode, ReaderOnly, painting, drawing
  <1>4. ASSUME NEW r \in readers, FinishGlobeRead(r) \/ \E t \in r.todo : Publish(r, t)
        PROVE  Rests
    <2>1. UNCHANGED <<body, place, picture, fallback>>
      BY <1>4 DEF FinishGlobeRead, Publish, painting
    <2>2. UNCHANGED mergers \/ \E kept : SetTiles(kept)
      BY <1>4 DEF FinishGlobeRead, Publish
    <2> QED
      BY <1>1, <2>1, <2>2 DEF SetTiles
  <1>5. ASSUME NEW m \in mergers, NEW done \in BOOLEAN, FinishMerge(m, done)
        PROVE  Rests \/ Publishes(m)
    <2>1. mergers' = {} /\ UNCHANGED <<body, place>>
      BY <1>0, <1>5 DEF FinishMerge, painting
    <2>2. CASE IsAccepted(m) /\ IF body = "Earth" THEN Compose(m) ELSE Flatten(m)
      BY <2>1, <2>2 DEF IsAccepted, Publishes, place
    <2>3. CASE UNCHANGED <<picture, fallback>>
      BY <2>1, <2>3 DEF Rests, Follow, place
    <2> QED
      BY <1>5, <2>2, <2>3 DEF FinishMerge
  <1>6. CASE RetryDue \/ (\E t \in Tiles : CommitTile(t)) \/ UNCHANGED vars
    BY <1>1, <1>6 DEF RetryDue, CommitTile, vars, painting, drawing
  <1>7. CASE Work
    BY <1>2, <1>3, <1>4, <1>5, <1>7 DEF Work, Selector, Reader
  <1>8. CASE Faults
    BY <1>2, <1>3, <1>5, <1>8 DEF Faults
  <1> QED
    BY <1>6, <1>7, <1>8

\* The source of a point reaches it.
LEMMA OwnerReaches ==
    ASSUME NEW sources \in SUBSET Tiles, NEW g
    PROVE  /\ \A t \in Owner(sources, g) : g \in Halo[t]
           /\ (\E t \in sources \ Blank : g \in Halo[t]) => Owner(sources, g) # {}
  <1> DEFINE cores == {t \in sources : g \in Core[t]}
             halos == {t \in sources \ Blank : g \in Halo[t]}
  <1>1. \A t \in cores : g \in Halo[t]
    BY GlobeAssumption
  <1>2. halos # {} => (CHOOSE t \in halos : TRUE) \in halos
    OBVIOUS
  <1>3. Owner(sources, g) = IF cores # {} THEN cores
                            ELSE IF halos # {} THEN {CHOOSE t \in halos : TRUE} ELSE {}
    BY DEF Owner
  <1>4. (\E t \in sources \ Blank : g \in Halo[t]) => halos # {}
    OBVIOUS
  <1>5. \A t \in halos : g \in Halo[t]
    OBVIOUS
  <1> HIDE DEF cores, halos
  <1> QED
    BY <1>1, <1>2, <1>3, <1>4, <1>5

\* A composition draws each point from its owner, and where there is none from what was
\* underneath, of which nothing goes that is on screen.
LEMMA Composed ==
    ASSUME TypeOK, NEW m \in mergers, Compose(m), NEW g \in Ground
    PROVE  /\ picture'[g] = Owner(m.tiles, g) \cup fallback'[g]
           /\ fallback'[g] \subseteq m.under[g]
           /\ Owner(m.tiles, g) = {} => \A t \in m.under[g] \ Blank : t \in Shape[m.view] => t \in fallback'[g]
  <1> DEFINE rest == Uncovered(m.tiles, m.under)
  <1>1. PICK S \in SUBSET {t \in TilesOf(rest) : t \notin Shape[m.view]} :
              /\ fallback' = Without(rest, S)
              /\ picture' = [h \in Ground |-> Owner(m.tiles, h) \cup fallback'[h]]
    BY DEF Compose
  <1>2. rest[g] = IF Owner(m.tiles, g) = {} THEN m.under[g] \ Blank ELSE {}
    BY DEF Uncovered
  <1>3. \A t \in S : t \notin Shape[m.view]
    BY <1>1
  <1> HIDE DEF rest
  <1>4. fallback'[g] = rest[g] \ S
    BY <1>1 DEF Without
  <1>5. picture'[g] = Owner(m.tiles, g) \cup fallback'[g]
    BY <1>1
  <1> QED
    BY <1>2, <1>3, <1>4, <1>5

\* Neither a turn to another scene nor a result brings what does not belong there.
LEMMA CarriedOverStep ==
    ASSUME Safe, CarriedOver, Rests \/ Turns \/ \E m \in mergers : Publishes(m)
    PROVE  CarriedOver'
  <1>0. TypeOK /\ loadEpoch \in Nat /\ \A m \in mergers : m.epoch \in Nat /\ m.epoch <= loadEpoch
    BY DEF Safe, TypeOK, Merges, Composing, MergeShape
  <1>1. CASE Rests
    BY <1>1 DEF Rests, Follow, CarriedOver
  <1>2. CASE Turns
    <2>1. \A g \in Ground : picture'[g] = {}
      BY <1>2 DEF Turns, Nothing
    <2>2. \A g \in Ground : fallback'[g] \subseteq picture[g] \cup fallback[g]
      BY <1>2 DEF Turns, Nothing, Kept
    <2>3. \A n \in mergers' : n.epoch # loadEpoch'
      BY <1>0, <1>2 DEF Turns
    <2> QED
      BY <2>1, <2>2, <2>3 DEF CarriedOver
  <1>3. ASSUME NEW m \in mergers, Publishes(m)
        PROVE  CarriedOver'
    <2>1. /\ m.under = fallback /\ m.tiles \in SUBSET Tiles /\ (\A t \in m.tiles : t.scene = scene)
          /\ mergers' = {} /\ UNCHANGED <<body, scene>>
      BY <1>0, <1>3 DEF Publishes, CarriedOver, Safe, TypeOK, Merges, Composing, MergeShape
    <2>2. CASE body = "Earth"
      <3>1. ASSUME NEW g \in Ground
            PROVE  /\ \A t \in picture'[g] \cup fallback'[g] : g \in Halo[t]
                   /\ \A t \in picture'[g] : t.scene = scene' \/ t \in fallback'[g]
        <4>1. picture'[g] = Owner(m.tiles, g) \cup fallback'[g] /\ fallback'[g] \subseteq fallback[g]
          BY <1>0, <1>3, <2>1, <2>2, Composed DEF Publishes
        <4>2. \A t \in fallback'[g] : g \in Halo[t]
          BY <4>1 DEF CarriedOver
        <4>3. \A t \in Owner(m.tiles, g) : g \in Halo[t] /\ t.scene = scene
          BY <2>1, OwnerReaches, OwnerIsSource
        <4> QED
          BY <2>1, <4>1, <4>2, <4>3
      <3> QED
        BY <2>1, <3>1 DEF CarriedOver
    <2>3. CASE body # "Earth"
      <3>1. /\ picture' = [g \in Ground |-> {t \in m.tiles : g \in Halo[t]}] /\ UNCHANGED fallback
        BY <1>3, <2>3 DEF Publishes, Flatten
      <3>2. \A g \in Ground : \A t \in picture'[g] \cup fallback'[g] : g \in Halo[t]
        BY <3>1 DEF CarriedOver
      <3> QED
        BY <2>1, <2>3, <3>2 DEF CarriedOver
    <2> QED
      BY <2>2, <2>3
  <1> QED
    BY <1>1, <1>2, <1>3

\* Earth shows the picture, and the fallback while there is none.
LEMMA ShownIs ==
    /\ body = "Earth" => Shown = IF picture # Nothing THEN picture ELSE fallback
    /\ body' = "Earth" => Shown' = IF picture' # Nothing THEN picture' ELSE fallback'
  <1>1. Drawn(Nothing) = {}
    BY DEF Drawn, Nothing
  <1> QED
    BY <1>1 DEF Shown, Drawn

\* Terrain that the composition knows is not lost with its result.
LEMMA TerrainSurvives ==
    ASSUME Safe, CarriedOver, Rests \/ Turns \/ \E m \in mergers : Publishes(m), RootStays,
           NEW g \in Drawn(Shown), \A m \in mergers : Knows(m, g)
    PROVE  Shown'[g] # {}
  <1>0. TypeOK /\ body = "Earth" /\ g \in Ground /\ Shown[g] # {}
    BY DEF Safe, RootStays, Drawn
  <1>1. CASE Rests
    BY <1>0, <1>1 DEF Rests, Shown, Drawn
  <1>2. CASE Turns
    <2>1. body' = "Earth" /\ picture' = Nothing /\ fallback' = Kept(TRUE)
      BY <1>0, <1>2 DEF Turns, RootStays
    <2>2. Shown' = Shown
      BY <1>0, <2>1, ShownIs DEF Kept
    <2> QED
      BY <1>0, <2>2
  <1>3. ASSUME NEW m \in mergers, Publishes(m)
        PROVE  Shown'[g] # {}
    <2>1. /\ m.under = fallback /\ m.tiles \in SUBSET Tiles /\ body' = "Earth" /\ Compose(m)
          /\ fallback \in Pictures /\ picture \in Pictures
      BY <1>0, <1>3 DEF Publishes, CarriedOver, TypeOK, Merges
    <2>2. picture'[g] # {}
      <3>1. /\ picture'[g] = Owner(m.tiles, g) \cup fallback'[g]
            /\ Owner(m.tiles, g) = {} =>
                  \A t \in fallback[g] \ Blank : t \in Shape[m.view] => t \in fallback'[g]
        BY <1>0, <2>1, Composed
      <3>2. PICK t \in Shown[g] \ Blank :
                \/ t \in m.tiles
                \/ (t.scene # scene \/ t \in fallback[g]) /\ g \in OnScreen(m.view)
        BY DEF Knows
      <3>3. t \in Tiles /\ g \in Halo[t] /\ (t.scene # scene => t \in fallback[g])
        <4>1. t \in picture[g] \/ t \in fallback[g]
          BY <1>0, <3>2, ShownIs
        <4>2. t \in Tiles
          BY <1>0, <2>1, <4>1 DEF Pictures
        <4> QED
          BY <1>0, <4>1, <4>2 DEF CarriedOver
      <3>4. CASE t \in m.tiles
        BY <2>1, <3>1, <3>2, <3>3, <3>4, OwnerReaches
      <3>5. CASE t \in fallback[g] /\ g \in OnScreen(m.view)
        <4>1. t \in Shape[m.view]
          BY <3>2, <3>3, <3>5 DEF OnScreen
        <4> QED
          BY <3>1, <3>2, <3>5, <4>1
      <3> QED
        BY <3>2, <3>3, <3>4, <3>5
    <2>3. picture' # Nothing
      BY <1>0, <2>2 DEF Nothing
    <2> QED
      BY <2>1, <2>2, <2>3, ShownIs
  <1> QED
    BY <1>1, <1>2, <1>3

-----------------------------------------------------------------------------
(* The theorems.                                                           *)

\* Every step keeps the invariant.
LEMMA StepHolds ==
    Safe /\ [Next]_vars => Safe'
  <1> SUFFICES ASSUME Safe, [Next]_vars PROVE Safe'
    OBVIOUS
  <1>1. CASE Frame \/ User
    <2>1. Repaint => camera \in Views
      BY DEF Repaint, Safe, TypeOK
    <2>2. Repaint \/ (\E v \in Views : Move(v)) => Safe'
      BY <2>1, ViewportStep DEF Repaint, Move
    <2>3. BlastTileCaches => Safe'
      <3>1. BlastTileCaches => /\ step = "viewport" /\ Spend /\ ResetAll
                               /\ camera' = camera /\ viewport' = viewport
                               /\ UNCHANGED <<body, step, offered>>
        BY DEF BlastTileCaches, painting
      <3> QED
        BY <3>1, ResetStep
    <2> QED
      BY <1>1, <2>2, <2>3, LeaveStep, AssetsStep, LoadStep, EvictStep, RenderStep DEF Frame, User
  <1>2. CASE Work /\ UNCHANGED spent
    <2>1. ASSUME NEW s \in selectors, Selector(s) PROVE Safe'
      BY <1>2, <2>1, SelectStep, FinishManifestStep DEF Selector
    <2>2. ASSUME NEW r \in readers, Reader(r) PROVE Safe'
      BY <1>2, <2>2, FinishReadStep, PublishStep, DecodeStep DEF Reader
    <2>3. ASSUME NEW m \in mergers, FinishMerge(m, TRUE) PROVE Safe'
      <3>1. PICK done \in BOOLEAN : FinishMerge(m, done)
        BY <2>3
      <3> QED
        BY <1>2, <3>1, FinishMergeStep
    <2> QED
      BY <1>2, <2>1, <2>2, <2>3 DEF Work
  <1>3. CASE Faults /\ Spend
    <2>1. ASSUME NEW s \in selectors, FinishManifest(s, None) PROVE Safe'
      BY <1>3, <2>1, FinishManifestStep
    <2>2. ASSUME NEW r \in readers, ReaderFails(r) \/ \E t \in r.todo : TileFails(r, t) PROVE Safe'
      BY <1>3, <2>2, FailStep
    <2>3. ASSUME NEW m \in mergers, FinishMerge(m, FALSE) PROVE Safe'
      <3>1. PICK done \in BOOLEAN : FinishMerge(m, done)
        BY <2>3
      <3> QED
        BY <1>3, <3>1, FinishMergeStep
    <2> QED
      BY <1>3, <2>1, <2>2, <2>3 DEF Faults
  <1>4. CASE RetryDue \/ \E t \in Tiles : CommitTile(t)
    BY <1>4, RetryStep, CommitStep
  <1>5. CASE UNCHANGED vars
    <2>1. TypeOK' /\ RepaintShape'
      BY <1>5 DEF vars, painting, residency, place, reading, drawing, manifest, store,
                  Safe, TypeOK, RepaintShape
    <2>2. Choosing' /\ Fetching' /\ Showing' /\ Holding' /\ Composing'
      BY <1>5, ChoosingKept, FetchingKept, ShowingKept, HoldingKept, ComposingKept
         DEF vars, Safe, Composing, painting, residency, place, reading, drawing, manifest
    <2> QED
      BY <2>1, <2>2 DEF Safe
  <1> QED
    BY <1>1, <1>2, <1>3, <1>4, <1>5 DEF Next

\* Every step does one of three things to what is drawn.
LEMMA StepDrives ==
    Safe /\ [Next]_vars => Rests \/ Turns \/ \E m \in mergers : Publishes(m)
  BY FrameDrives, WorkDrives DEF Next

\* The strengthened invariant is inductive.
LEMMA SafeAlways ==
    Spec => [](Safe /\ CarriedOver)
  <1>1. Init => Safe /\ CarriedOver
    BY InitHolds DEF Init, CarriedOver, Nothing
  <1>2. Safe /\ CarriedOver /\ [Next]_vars => (Safe /\ CarriedOver)'
    BY StepHolds, StepDrives, CarriedOverStep
  <1> QED
    BY <1>1, <1>2, PTL DEF Spec

\* A set that holds no two elements has one element or none.
LEMMA AtMostOne ==
    ASSUME NEW S, \A x, y \in S : x = y
    PROVE  Cardinality(S) = IF S = {} THEN 0 ELSE 1
  <1>1. CASE S = {}
    BY <1>1, FS_EmptySet
  <1>2. ASSUME NEW x \in S PROVE Cardinality(S) = 1
    <2>1. S = {x} /\ Cardinality({x}) = 1
      BY FS_Singleton
    <2> QED
      BY <2>1
  <1> QED
    BY <1>1, <1>2

\* It is stronger than what the run checks.
LEMMA SafeImplies ==
    Safe /\ CarriedOver => IInv
  <1> SUFFICES ASSUME Safe, CarriedOver PROVE IInv
    OBVIOUS
  <1>1. OneOfEach
    <2>1. /\ Cardinality(selectors) = IF selectors = {} THEN 0 ELSE 1
          /\ Cardinality(readers) = IF readers = {} THEN 0 ELSE 1
          /\ Cardinality(mergers) = IF mergers = {} THEN 0 ELSE 1
      BY AtMostOne DEF Safe, Choosing, Fetching, Composing
    <2> QED
      BY <2>1 DEF OneOfEach, Safe, Choosing, Fetching, Composing
  <1>2. SceneIsolation
    BY DEF SceneIsolation, Safe, Holding, Showing, IsOfRoot, Fetching, ReaderShape, IsCurrent
  <1>3. GatesAreHeld /\ ReaderShape /\ MergeShape /\ SelectionShape
    BY DEF GatesAreHeld, Safe, Choosing, Fetching, Composing
  <1> QED
    BY <1>1, <1>2, <1>3 DEF IInv, Safe, Holding

\* One worker of each kind at a time, no gate left shut behind it, and every tile charged
\* to the budget, whatever scenes and resets the workers outlive (contour_asset.rs).
THEOREM GlobeStaysConsistent ==
    Spec => []IInv
  BY SafeAlways, SafeImplies, PTL

\* Tiles and claims are of the scene, and the picture and its fallback of its data root
\* (load_srtm_for_globe and its siblings, globe_contour_merge.rs).
THEOREM RootsDoNotMix ==
    Spec => []SceneIsolation
  <1>1. IInv => SceneIsolation
    BY DEF IInv
  <1> QED
    BY <1>1, GlobeStaysConsistent, PTL

\* "Visible terrain and the published picture survive while a replacement is composed"
\* (GlobeRegionCache): what a composition knows of the terrain it keeps on screen.
THEOREM TerrainStays ==
    Spec => VisibleTerrainStays
  <1>1. Safe /\ CarriedOver /\ [Next]_vars =>
            [RootStays => \A g \in Drawn(Shown) : (\A m \in mergers : Knows(m, g)) => Shown'[g] # {}]_vars
    BY StepDrives, TerrainSurvives
  <1> QED
    BY <1>1, SafeAlways, PTL DEF Spec, VisibleTerrainStays
=============================================================================
