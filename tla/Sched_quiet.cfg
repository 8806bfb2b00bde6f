\* Three processes; no timer interrupt between the choice of yield() and its
\* context switch.
SPECIFICATION FairSpec
CONSTANTS
    MaxPid = 3
    Quantum = 2
    MaxNest = 2
    Preempt <- OutsideYield
INVARIANTS
    CurrentIsRunning
    ContextsIntact
    OwnAddressSpace
    ZombieIsSafeToReap
PROPERTIES
    ImplementsDispatcher
    RotationServesAll
    WaitEnds
    ExitFreesCpu
