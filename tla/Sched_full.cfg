\* Three processes; the timer lands anywhere in the kernel.
SPECIFICATION Spec
CONSTANTS
    MaxPid = 3
    Quantum = 2
    MaxNest = 2
    Preempt <- Everywhere
INVARIANTS
    TypeOK
    
    UserInterruptible
\* The CPU may load a stale context: nothing follows it.
CHECK_DEADLOCK FALSE
