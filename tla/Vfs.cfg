\* Three processes, a device, an archived file; system calls are not preempted.
SPECIFICATION Spec
CONSTANTS
    p1 = p1
    p2 = p2
    p3 = p3
    console = console
    program = program
    Procs <- ThreeProcs
    First = p1
    Devices <- Device
    Archived <- Archive
    Nobody = Nobody
    Preempt = FALSE
    MaxFiles = 3
    MaxFds = 2
    MaxRefs = 4
SYMMETRY Sym
INVARIANTS
    NoDanglingDescriptor
    NodeOutlivesFiles
PROPERTIES
    DeletedOnce
    PrivateDescriptorsKept
\* The system stops when the last process has exited.
CHECK_DEADLOCK FALSE
