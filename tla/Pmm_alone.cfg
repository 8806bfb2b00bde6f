\* Three callers, one at a time.
SPECIFICATION FairSpec
CONSTANTS
    a = a
    b = b
    c = c
    Size = 5
    Usable <- SomeUsable
    Threads <- ThreeCallers
    Preempt = FALSE
INVARIANTS
    OneHolder
    NoFrameLost
    OutOfMemoryIsReal
PROPERTIES
    ImplementsFrameAllocator
    CallsReturn
\* Panic::panic stops the machine.
CHECK_DEADLOCK FALSE
