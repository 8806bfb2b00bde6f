\* Three processes; the timer lands just before the context switch of yield().
SPECIFICATION Spec
CONSTANTS
    MaxPid = 3
    Quantum = 1
    MaxNest = 1
    Preempt <- BeforeSwitch
INVARIANTS
    ContextsIntact
\* The CPU may load a stale context: nothing follows it.
CHECK_DEADLOCK FALSE
