------------------------------ MODULE WorkSlots ------------------------------
(***************************************************************************)
(* What Slots and Permit of work_slots.rs promise: a counter moved by      *)
(* atomic read-modify-writes, and permits that are moved between owners    *)
(* and never copied.  TileBuild implements one instance for the processing *)
(* slots, one for the downloads and one for the staged rasters.            *)
(***************************************************************************)
EXTENDS Naturals, FiniteSets

CONSTANTS Limit, Owners

VARIABLES
    active,   \* Slots::active
    held      \* the owners of a live Permit

vars == <<active, held>>

Init == active = 0 /\ held = {}

\* fetch_update succeeds only below the limit.
TryAcquire(x) ==
    /\ x \notin held
    /\ active < Limit
    /\ active' = active + 1
    /\ held' = held \cup {x}

\* Drop for Permit.
DropPermit(x) ==
    /\ x \in held
    /\ active' = active - 1
    /\ held' = held \ {x}

\* A permit is moved, for instance into the closure of a spawned thread.
MovePermit(x, y) ==
    /\ x \in held /\ y \notin held
    /\ held' = (held \ {x}) \cup {y}
    /\ UNCHANGED active

Next ==
    \/ \E x \in Owners : TryAcquire(x) \/ DropPermit(x)
    \/ \E x, y \in Owners : MovePermit(x, y)

Spec == Init /\ [][Next]_vars

\* The counter is exactly the number of live permits and stays within Limit.
Counted ==
    /\ IsFiniteSet(held)
    /\ active = Cardinality(held)
    /\ active <= Limit

=============================================================================
