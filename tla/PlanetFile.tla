------------------------------ MODULE PlanetFile ------------------------------
(***************************************************************************)
(* The OSM file a cache build reads (a sequence of blobs with nodes, ways  *)
(* and relations), the build that is running, and what can happen to both: *)
(* the file may be replaced by a newer one, the program may end.           *)
(*                                                                         *)
(* A byte offset into the file is the number of blobs in front of it.      *)
(* Where a scan saves its place (every five million nodes, 100,000         *)
(* features, 256 MiB) is left open.                                        *)
(***************************************************************************)
EXTENDS Integers, FiniteSets, Sequences

CONSTANTS
    Ways, Relations, Cells, Levels,
    RefsOf,         \* the nodes of a way
    CellsOf,        \* the files a way belongs to: a layer and a one-degree cell each
    MembersOf,      \* the ways of a relation
    LevelOf,        \* the administrative level of a relation
    Bounds,         \* the nodes inside the bounds of a focused build
    Cases           \* BOUND: the scenes a behaviour may be about

ASSUME PlanetAssumption ==
    /\ RefsOf \in [Ways -> SUBSET Nat] /\ CellsOf \in [Ways -> SUBSET Cells]
    /\ MembersOf \in [Relations -> SUBSET Ways] /\ LevelOf \in [Relations -> Levels]
    /\ Bounds \subseteq Nat
    /\ Levels \subseteq Nat /\ \E last \in Levels : \A l \in Levels : l <= last

Builders == {"flat", "compact", "import", "bbox"}
ASSUME CasesAssumption ==
    \A s \in Cases :
        /\ s.blobs \in Seq([nodes : Seq(Nat), ways : SUBSET Ways, relations : SUBSET Relations])
        /\ s.requests \subseteq [mode : Builders, layers : SUBSET Ways, admin : BOOLEAN]
        /\ s.budget \in Nat /\ s.newer \in BOOLEAN

VARIABLES
    planet,     \* which file is at the path: it carries a number, larger when newer
    job,        \* what the running build was asked for
    run,        \* where it is, and what it holds in memory
    scene,      \* the blobs, the builds that may be asked for; BOUND budget: crashes,
                \* failures and replacements together
    trouble     \* how much of that budget is used

NoJob == [mode |-> "none", layers |-> {}, admin |-> FALSE]

\* from: the file the reader has open.  last: the scan has seen the end.
NoRun == [pc |-> "off", from |-> 0, pos |-> 0, last |-> FALSE,
          nodes |-> <<>>,                       \* read, not yet in the store
          features |-> {}, rest |-> {}, pending |-> {},
          what |-> "relations", found |-> {}, level |-> 0]

Blobs == scene.blobs
End == Len(Blobs)
Between(a, b) == {i \in DOMAIN Blobs : a < i /\ i <= b}
WaysIn(a, b) == UNION {Blobs[i].ways : i \in Between(a, b)}
RelationsIn(a, b) == UNION {Blobs[i].relations : i \in Between(a, b)}

at(pc) == run.pc = pc
goto(pc) == run' = [run EXCEPT !.pc = pc]
Stop == run' = NoRun /\ job' = NoJob
Works == UNCHANGED <<scene, trouble, planet>>
Disturb == trouble < scene.budget /\ trouble' = trouble + 1 /\ UNCHANGED scene
Fails == Disturb /\ Stop /\ UNCHANGED planet

\* Compact builds compare the file with the one their index is bound to.
SameSource(bound) == job.mode \in {"compact", "import"} => planet = bound

PlanetInit ==
    /\ scene \in Cases /\ trouble = 0
    /\ planet = 1 /\ job = NoJob /\ run = NoRun

ReplacePlanet ==
    /\ scene.newer /\ planet = 1 /\ Disturb
    /\ planet' = planet + 1

PlanetTypeOK ==
    /\ scene \in Cases /\ trouble \in 0..scene.budget /\ planet \in {1, 2}
    /\ run.pc = "off" <=> job = NoJob
    /\ job # NoJob => job \in scene.requests
    /\ run.from \in 0..planet /\ run.pos \in 0..End

=============================================================================
