\* Two callers that preempt each other in the allocator.
SPECIFICATION Spec
CONSTANTS
    a = a
    b = b
    c = c
    Size = 5
    Usable <- SomeUsable
    Threads <- TwoCallers
    Preempt = TRUE
INVARIANTS
    NoDoubleFree
\* Panic::panic stops the machine.
CHECK_DEADLOCK FALSE
