\* Three processes; no timer interrupt between the choice of yield() and its
\* context switch.
SPECIFICATION FairSpec
CONSTANTS
    MaxPid = 3
    Quantum = 1
    MaxNest = 1
    Preempt <- OutsideYield
PROPERTIES
    EveryProcessRuns
