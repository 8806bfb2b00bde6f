\* Up to three pages of sixteen bytes, up to three areas in use.
SPECIFICATION Spec
CONSTANTS
    Page = 16
    Header = 4
    Align = 2
    Sizes <- SomeSizes
    MaxPages = 3
    MaxLive = 3
INVARIANTS
    Tiled
    Coalesced
    CallsSucceed
PROPERTIES
    ImplementsArena
\* A panic stops the machine.
CHECK_DEADLOCK FALSE
