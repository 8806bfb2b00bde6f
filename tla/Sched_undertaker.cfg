\* The last process exits.
SPECIFICATION Spec
CONSTANTS
    MaxPid = 1
    Quantum = 1
    MaxNest = 1
    Preempt <- OutsideYield
INVARIANTS
    UndertakerAssumption
