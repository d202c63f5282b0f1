----------------------------- MODULE GdalProcess -----------------------------
(***************************************************************************)
(* GDAL child processes: gdal_process.rs runs one command for a thread and *)
(* watches it, and terminate_active_gdal_jobs signals at exit whatever the *)
(* registry active_children holds.                                         *)
(*                                                                         *)
(* A thread runs one command at a time, so its name stands for the process *)
(* id.  It asks for a command by cmd = "start" and finds the result there. *)
(***************************************************************************)
EXTENDS Naturals, FiniteSets

CONSTANTS
    Threads,       \* threads that run GDAL commands
    FaultBudget    \* BOUND: commands, renames, copies and spawns that go wrong

ASSUME BudgetAssumption == FaultBudget \in Nat

VARIABLES
    shutdown,   \* shutdown_requested()
    exit,       \* where terminate_active_gdal_jobs is
    taken,      \* the process ids it copied
    missed,     \* threads that were between check and registration when it did
    active,     \* active_children()
    child,      \* the process of each thread
    cmd,        \* where each thread is in run
    faults      \* how much of FaultBudget is spent

processVars == <<shutdown, exit, taken, missed, active, child, cmd, faults>>

\* A hung process ends only when it is killed.
ChildStates == {"none", "running", "hung", "ok", "bad"}
CmdStates == {"idle", "start", "checked", "spawned", "watch", "reaped ok", "reaped failed",
              "ok", "failed", "panicked"}
ExitStates == {"no", "collect", "term", "kill", "done", "gone"}

ProcessInit ==
    /\ shutdown = FALSE /\ exit = "no" /\ taken = {} /\ missed = {} /\ active = {}
    /\ child = [t \in Threads |-> "none"]
    /\ cmd = [t \in Threads |-> "idle"]
    /\ faults = 0

Alive(t) == child[t] \in {"running", "hung"}
Fault == faults < FaultBudget /\ faults' = faults + 1

-----------------------------------------------------------------------------
(* A thread inside run.                                                    *)

CheckShutdown(t) ==   \* on entry
    /\ cmd[t] = "start"
    /\ cmd' = [cmd EXCEPT ![t] = IF shutdown THEN "failed" ELSE "checked"]
    /\ UNCHANGED <<shutdown, exit, taken, missed, active, child, faults>>

Spawn(t) ==
    /\ cmd[t] = "checked"
    /\ \/ /\ child' = [child EXCEPT ![t] = "running"]
          /\ cmd' = [cmd EXCEPT ![t] = "spawned"]
          /\ UNCHANGED faults
       \/ /\ Fault   \* no such tool, no process left
          /\ cmd' = [cmd EXCEPT ![t] = "failed"]
          /\ UNCHANGED child
    /\ UNCHANGED <<shutdown, exit, taken, missed, active>>

Register_AfterReader(t) ==   \* mutant: the id is inserted after the reader is spawned
    /\ cmd[t] = "spawned"
    /\ \/ /\ cmd' = [cmd EXCEPT ![t] = "watch"]
          /\ active' = active \cup {t}
          /\ UNCHANGED faults
       \/ /\ Fault
          /\ cmd' = [cmd EXCEPT ![t] = "panicked"]
          /\ UNCHANGED active
    /\ UNCHANGED <<shutdown, exit, taken, missed, child>>

\* The id is registered before the thread that drains stderr is spawned, which
\* panics when the system has no thread left.
Register(t) ==
    /\ cmd[t] = "spawned"
    /\ active' = active \cup {t}
    /\ \/ cmd' = [cmd EXCEPT ![t] = "watch"] /\ UNCHANGED faults
       \/ cmd' = [cmd EXCEPT ![t] = "panicked"] /\ Fault
    /\ UNCHANGED <<shutdown, exit, taken, missed, child>>

\* The polling loop ends: the process has ended, exit is requested, or a hung
\* process has used up its time-out.  A process still alive is killed and reaped.
\* A zero status with a fatal diagnostic counts as a failure, so it is "bad".
Watch(t) ==
    /\ cmd[t] = "watch"
    /\ child[t] # "running" \/ shutdown
    /\ cmd' = [cmd EXCEPT ![t] = IF child[t] = "ok" THEN "reaped ok" ELSE "reaped failed"]
    /\ child' = [child EXCEPT ![t] = "none"]
    /\ UNCHANGED <<shutdown, exit, taken, missed, active, faults>>

Unregister(t) ==
    /\ cmd[t] \in {"reaped ok", "reaped failed"}
    /\ active' = active \ {t}
    /\ cmd' = [cmd EXCEPT ![t] = IF @ = "reaped ok" THEN "ok" ELSE "failed"]
    /\ UNCHANGED <<shutdown, exit, taken, missed, child, faults>>

RunStep(t) == CheckShutdown(t) \/ Spawn(t) \/ Register(t) \/ Watch(t) \/ Unregister(t)

\* The process itself.  ChildRejects: it cannot read what it was given.
ChildEnds(t) ==
    /\ child[t] = "running"
    /\ child' = [child EXCEPT ![t] = "ok"]
    /\ UNCHANGED <<shutdown, exit, taken, missed, active, cmd, faults>>
ChildRejects(t) ==
    /\ child[t] = "running"
    /\ child' = [child EXCEPT ![t] = "bad"]
    /\ UNCHANGED <<shutdown, exit, taken, missed, active, cmd, faults>>
ChildBreaks(t) ==
    /\ child[t] = "running"
    /\ \E s \in {"bad", "hung"} : child' = [child EXCEPT ![t] = s]
    /\ Fault
    /\ UNCHANGED <<shutdown, exit, taken, missed, active, cmd>>

-----------------------------------------------------------------------------
(* Exit.                                                                   *)

RequestExit ==
    /\ exit = "no"
    /\ shutdown' = TRUE /\ exit' = "collect"
    /\ UNCHANGED <<taken, missed, active, child, cmd, faults>>

CollectChildren ==
    /\ exit = "collect"
    /\ taken' = active /\ active' = {} /\ exit' = "term"
    /\ missed' = {t \in Threads : cmd[t] \in {"checked", "spawned"}}
    /\ UNCHANGED <<shutdown, child, cmd, faults>>

Killed(victims) ==
    child' = [t \in Threads |-> IF t \in victims /\ Alive(t) THEN "bad" ELSE child[t]]
SignalTerm ==   \* a process may take longer to end than the 150 ms it is given
    /\ exit = "term"
    /\ \E victims \in SUBSET taken : Killed(victims)
    /\ exit' = "kill"
    /\ UNCHANGED <<shutdown, taken, missed, active, cmd, faults>>
SignalKill ==
    /\ exit = "kill"
    /\ Killed(taken) /\ taken' = {}
    /\ exit' = "done"
    /\ UNCHANGED <<shutdown, missed, active, cmd, faults>>

TerminateActiveGdalJobs == CollectChildren \/ SignalTerm \/ SignalKill

\* The program ends, and its threads with it, wherever they are; processes go on.
ProgramEnds ==
    /\ exit = "done" /\ exit' = "gone"
    /\ UNCHANGED <<shutdown, taken, missed, active, child, cmd, faults>>

-----------------------------------------------------------------------------
(* What clients use.                                                       *)

Call(t) == cmd' = [cmd EXCEPT ![t] = "start"]
Return(t) == cmd' = [cmd EXCEPT ![t] = "idle"]
UnchangedProcesses == UNCHANGED <<shutdown, exit, taken, missed, active, child>>

ProcessTypeOK ==
    /\ shutdown \in BOOLEAN /\ exit \in ExitStates
    /\ taken \subseteq Threads /\ missed \subseteq Threads /\ active \subseteq Threads
    /\ child \in [Threads -> ChildStates] /\ cmd \in [Threads -> CmdStates]
    /\ faults \in 0..FaultBudget

\* gdal_process.md: no detached child.  A process that is alive has somebody who will
\* stop it: a thread of the running program that watches it or is about to, the
\* registry as long as exit has still to read it, or the exit that is about to signal
\* it; also when the thread has panicked.  The one exception is a process whose thread
\* stood between its check of the flag and its registration at the moment exit copied
\* the registry: that one outlives the program when its thread panics, or the program
\* ends, before it is watched.
WillBeStopped(t) ==
    \/ cmd[t] \in {"spawned", "watch"} /\ exit # "gone"
    \/ t \in active /\ exit \in {"no", "collect"}
    \/ t \in taken /\ exit \in {"term", "kill"}
ChildIsAccountable ==
    \A t \in Threads : Alive(t) => WillBeStopped(t) \/ t \in missed

\* The document has no exception.  The program does not satisfy this.
ChildIsNeverDetached == \A t \in Threads : Alive(t) => WillBeStopped(t)

\* How flag, registry, commands and processes hang together: ids are copied only
\* while exit signals them, and a process belongs to a command that runs it or to one
\* that panicked over it.
ProcessShape ==
    /\ shutdown <=> exit # "no"
    /\ taken # {} => exit \in {"term", "kill"}
    /\ \A t \in Threads :
          /\ cmd[t] \in {"spawned", "watch"} => child[t] # "none"
          /\ cmd[t] \notin {"spawned", "watch", "panicked"} => child[t] = "none"

\* As long as nothing goes wrong, the commands of these threads succeed.
CommandsSucceed(threads) ==
    faults = 0 /\ ~shutdown => \A t \in threads :
        /\ child[t] \notin {"hung", "bad"}
        /\ cmd[t] \notin {"reaped failed", "failed", "panicked"}

=============================================================================
