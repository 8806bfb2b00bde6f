------------------------------ MODULE Dispatcher ------------------------------
(***************************************************************************)
(* What a scheduler of one CPU promises: one thread has the CPU; a process *)
(* that has exited never gets it again once it has lost it; nobody else    *)
(* starts, stops or moves a process.  Scheduler implements it as long as   *)
(* no timer interrupt lands inside yield() (see MCScheduler).              *)
(***************************************************************************)
EXTENDS Integers

CONSTANT MaxPid   \* bound on the processes ever created

VARIABLES
    alive,     \* processes that may run
    dead,      \* processes that have exited
    running    \* the thread that has the CPU

Pids == 1 .. MaxPid

Init ==
    /\ alive = {1}
    /\ dead = {}
    /\ running = 1

\* A running process creates another one, which has a fresh pid.
Create(p) ==
    /\ running \in alive
    /\ p \notin alive \cup dead
    /\ alive' = alive \cup {p}
    /\ UNCHANGED <<dead, running>>

\* The running process exits.  It keeps the CPU until someone else gets it.
Finish ==
    /\ running \in alive
    /\ alive' = alive \ {running}
    /\ dead' = dead \cup {running}
    /\ UNCHANGED running

\* The CPU goes to another process, which must be alive.
Dispatch(p) ==
    /\ p \in alive \ {running}
    /\ running' = p
    /\ UNCHANGED <<alive, dead>>

Next == Finish \/ \E p \in Pids : Create(p) \/ Dispatch(p)

Spec == Init /\ [][Next]_<<alive, dead, running>>

=============================================================================
