---------------------------------- MODULE Vfs ----------------------------------
(***************************************************************************)
(* Files, nodes and file descriptors of the Kiwi kernel: fs/vfs/file.cpp   *)
(* and fs/vfs/node.cpp over devfs and ustar, with what fork, exec, exit    *)
(* and the burial of a process do to descriptors (proc/process.cpp,        *)
(* proc/scheduler.cpp).                                                    *)
(*                                                                         *)
(* A File is its place in the order of creation, and no place is used      *)
(* twice, so that a pointer to a deleted File is recognised.  A device has *)
(* one File that every open of it shares; each open of an archived file    *)
(* makes a new one.  System calls are preemptible: openFile and closeFile  *)
(* are each two steps, and with Preempt other processes run in between.    *)
(***************************************************************************)
EXTENDS Naturals, Sequences, FiniteSets

CONSTANTS
    Procs,      \* processes
    First,      \* the process that spawn() makes
    Devices,    \* nodes of devfs
    Archived,   \* nodes of ustar that are no directories
    Nobody,     \* no process
    Preempt,    \* the timer may interrupt openFile and closeFile
    MaxFiles,   \* bound on the Files ever created
    MaxFds,     \* bound on the length of a descriptor table
    MaxRefs     \* bound on the reference count of a node

ASSUME VfsAssumption ==
    /\ IsFiniteSet(Procs)
    /\ First \in Procs
    /\ Nobody \notin Procs
    /\ Devices \cap Archived = {}
    /\ Preempt \in BOOLEAN
    /\ MaxFiles \in Nat
    /\ MaxFds \in Nat
    /\ MaxRefs \in Nat

Nodes == Devices \cup Archived

null == 0    \* the null pointer to a File

VARIABLES
    status,    \* of each process
    current,   \* ctx.current_process
    fds,       \* Process::file_descriptors, a vector of Files or null
    file,      \* the Files ever created, with their reference counts
    node,      \* reference count and (in devfs) file_data of each node
    call,      \* where each process is in openFile or closeFile
    burial     \* the zombie whose files are being closed, the next slot

vars == <<status, current, fds, file, node, call, burial>>

Idle == [at |-> "idle", file |-> null]
NoBurial == [zombie |-> Nobody, slot |-> 1]

\* spawn() loads the program while no process is current, and closes it: the
\* first process has no descriptor.  A node is referred to by its directory.
Init ==
    /\ status = [p \in Procs |-> IF p = First THEN "alive" ELSE "unborn"]
    /\ current = First
    /\ fds = [p \in Procs |-> <<>>]
    /\ file = <<>>
    /\ node = [n \in Nodes |-> [refs |-> 1, file_data |-> null]]
    /\ call = [p \in Procs |-> Idle]
    /\ burial = NoBurial

-----------------------------------------------------------------------------
(* Descriptor tables. *)

\* The first slot of table s that holds f.
FindFd(s, f) ==
    CHOOSE i \in DOMAIN s : s[i] = f /\ \A j \in 1 .. (i - 1) : s[j] # f

Holds(s, f) == \E i \in DOMAIN s : s[i] = f

\* Mutant of AddFileDescriptor: the first slot is taken, free or not.
AddInFirstSlot(s, f) == IF s = <<>> THEN <<f>> ELSE [s EXCEPT ![1] = f]

\* The table s with f in its first free slot, which may be a new one.
AddFileDescriptor(s, f) ==
    IF Holds(s, null) THEN [s EXCEPT ![FindFd(s, null)] = f] ELSE Append(s, f)

\* The table s without the first descriptor of f.
RemoveFileDescriptor(s, f) ==
    IF Holds(s, f) THEN [s EXCEPT ![FindFd(s, f)] = null] ELSE s

\* Mutants of Shared: a File counts once, whatever its number of slots; never.
SharedOnce(s, f) == IF Holds(s, f) THEN 1 ELSE 0
SharedNever(s, f) == 0

\* The number of references that a copy of table s adds to f.
Shared(s, f) == Cardinality({i \in DOMAIN s : s[i] = f})

-----------------------------------------------------------------------------
(* Nodes. *)

\* file->close() and releaseNode(file->vnode): a device forgets its File,
\* even when it is another one by now.
Closed(n) == [node EXCEPT ![n] = [refs |-> @.refs - 1, file_data |-> null]]

\* Process::die calls close() on every descriptor: the devices forget Files
\* that other processes may go on using.
Forgotten(p) ==
    [n \in Nodes |->
        IF \E i \in DOMAIN fds[p] :
              fds[p][i] # null /\ file[fds[p][i]].vnode = n
        THEN [node[n] EXCEPT !.file_data = null]
        ELSE node[n]]

-----------------------------------------------------------------------------
(* System calls. *)

\* Process p executes, outside an interrupt handler.
Executes(p) ==
    /\ burial = NoBurial
    /\ current = p
    /\ status[p] = "alive"

\* There is room, within the bounds of the model, to open node n.
Room(p, n) ==
    /\ Holds(fds[p], null) \/ Len(fds[p]) < MaxFds
    /\ node[n].refs < MaxRefs

\* It enters the kernel.
Enters(p) == Executes(p) /\ call[p] = Idle

\* The timer may interrupt whatever runs.
Interruptible ==
    /\ burial = NoBurial
    /\ Preempt \/ call[current] = Idle

\* lookupNode takes a reference to the node; Node::open gives the File of the
\* device if it has one, or
OpensShared(p, n) ==
    /\ Enters(p)
    /\ node[n].file_data # null
    /\ Room(p, n)
    /\ node' = [node EXCEPT ![n].refs = @ + 1]
    /\ call' = [call EXCEPT ![p] = [at |-> "open", file |-> node[n].file_data]]
    /\ UNCHANGED <<status, current, fds, file, burial>>

\* Mutant of OpensNew: the reference of the lookup is given back.
OpensUnreferenced(p, n) ==
    /\ Enters(p)
    /\ node[n].file_data = null
    /\ Room(p, n)
    /\ Len(file) < MaxFiles
    /\ LET f == Len(file) + 1 IN
        /\ file' = Append(file, [vnode |-> n, refs |-> 0, deleted |-> FALSE])
        /\ node' = [node EXCEPT ![n].file_data = IF n \in Devices THEN f ELSE null]
        /\ call' = [call EXCEPT ![p] = [at |-> "open", file |-> f]]
    /\ UNCHANGED <<status, current, fds, burial>>

\* makes a new one, which a device remembers.
OpensNew(p, n) ==
    /\ Enters(p)
    /\ node[n].file_data = null
    /\ Room(p, n)
    /\ Len(file) < MaxFiles
    /\ LET f == Len(file) + 1 IN
        /\ file' = Append(file, [vnode |-> n, refs |-> 0, deleted |-> FALSE])
        /\ node' = [node EXCEPT ![n] =
                       [refs |-> @.refs + 1,
                        file_data |-> IF n \in Devices THEN f ELSE null]]
        /\ call' = [call EXCEPT ![p] = [at |-> "open", file |-> f]]
    /\ UNCHANGED <<status, current, fds, burial>>

\* The File is counted and becomes a descriptor.
OpenEnds(p) ==
    /\ Executes(p)
    /\ call[p].at = "open"
    /\ file' = [file EXCEPT ![call[p].file].refs = @ + 1]
    /\ fds' = [fds EXCEPT ![p] = AddFileDescriptor(@, call[p].file)]
    /\ call' = [call EXCEPT ![p] = Idle]
    /\ UNCHANGED <<status, current, node, burial>>

\* sysClose and closeFile: the File loses a descriptor of the current process,
\* not necessarily the one that was passed, and a reference.
CloseStarts(p, i) ==
    /\ Enters(p)
    /\ i \in DOMAIN fds[p]
    /\ fds[p][i] # null
    /\ fds' = [fds EXCEPT ![p] = RemoveFileDescriptor(@, fds[p][i])]
    /\ file' = [file EXCEPT ![fds[p][i]].refs = @ - 1]
    /\ call' = [call EXCEPT ![p] = [at |-> "close", file |-> fds[p][i]]]
    /\ UNCHANGED <<status, current, node, burial>>

\* The last reference closes and deletes it.
CloseEnds(p) ==
    /\ Executes(p)
    /\ call[p].at = "close"
    /\ LET f == call[p].file IN
        IF file[f].refs = 0
        THEN /\ file' = [file EXCEPT ![f].deleted = TRUE]
             /\ node' = Closed(file[f].vnode)
        ELSE UNCHANGED <<file, node>>
    /\ call' = [call EXCEPT ![p] = Idle]
    /\ UNCHANGED <<status, current, fds, burial>>

\* fork, with interrupts off: the child has the descriptors of its parent.
Fork(p, c) ==
    /\ Enters(p)
    /\ status[c] = "unborn"
    /\ status' = [status EXCEPT ![c] = "alive"]
    /\ fds' = [fds EXCEPT ![c] = fds[p]]
    /\ file' = [f \in DOMAIN file |->
                  [file[f] EXCEPT !.refs = @ + Shared(fds[p], f)]]
    /\ UNCHANGED <<current, node, call, burial>>

\* exec of an archived program, with interrupts off: loadElf opens it and
\* closes it again, in the table of the process.
Exec(p) ==
    /\ Enters(p)
    /\ Archived # {}
    /\ ~Holds(fds[p], null)
    /\ Len(fds[p]) < MaxFds
    /\ fds' = [fds EXCEPT ![p] = Append(@, null)]
    /\ UNCHANGED <<status, current, file, node, call, burial>>

\* sysExit calls die().
Exit(p) ==
    /\ Enters(p)
    /\ status' = [status EXCEPT ![p] = "dead"]
    /\ node' = Forgotten(p)
    /\ UNCHANGED <<current, fds, file, call, burial>>

-----------------------------------------------------------------------------
(* The scheduler. *)

\* tick or yield gives the CPU to another process.
Switch(q) ==
    /\ Interruptible
    /\ q # current
    /\ status[q] = "alive"
    /\ current' = q
    /\ UNCHANGED <<status, fds, file, node, call, burial>>

\* reapPendingZombie runs in a timer handler, with interrupts off, on behalf
\* of the process that the timer has interrupted.
BurialStarts(z) ==
    /\ Interruptible
    /\ status[z] = "dead"
    /\ status[current] = "alive"
    /\ burial' = [zombie |-> z, slot |-> 1]
    /\ UNCHANGED <<status, current, fds, file, node, call>>

\* closeFile, for one descriptor of the zombie: a descriptor of the same File
\* goes from the table of the process that is current.
BurialCloses ==
    /\ burial.zombie # Nobody
    /\ burial.slot \in DOMAIN fds[burial.zombie]
    /\ LET f == fds[burial.zombie][burial.slot] IN
        /\ f # null
        /\ fds' = [fds EXCEPT ![current] = RemoveFileDescriptor(@, f)]
        /\ file' = [file EXCEPT ![f] = [vnode |-> @.vnode,
                                        refs |-> @.refs - 1,
                                        deleted |-> @.refs = 1]]
        /\ node' = IF file[f].refs = 1 THEN Closed(file[f].vnode) ELSE node
    /\ burial' = [burial EXCEPT !.slot = @ + 1]
    /\ UNCHANGED <<status, current, call>>

\* There is nothing to close in an empty slot.
BurialSkips ==
    /\ burial.zombie # Nobody
    /\ burial.slot \in DOMAIN fds[burial.zombie]
    /\ fds[burial.zombie][burial.slot] = null
    /\ burial' = [burial EXCEPT !.slot = @ + 1]
    /\ UNCHANGED <<status, current, fds, file, node, call>>

\* The zombie is deleted with its table.
BurialEnds ==
    /\ burial.zombie # Nobody
    /\ burial.slot \notin DOMAIN fds[burial.zombie]
    /\ status' = [status EXCEPT ![burial.zombie] = "buried"]
    /\ fds' = [fds EXCEPT ![burial.zombie] = <<>>]
    /\ burial' = NoBurial
    /\ UNCHANGED <<current, file, node, call>>

-----------------------------------------------------------------------------
Next ==
    \/ \E p \in Procs, n \in Nodes : OpensShared(p, n) \/ OpensNew(p, n)
    \/ \E p \in Procs, i \in 1 .. MaxFds : CloseStarts(p, i)
    \/ \E p \in Procs : OpenEnds(p) \/ CloseEnds(p) \/ Exec(p) \/ Exit(p)
    \/ \E p, c \in Procs : Fork(p, c)
    \/ \E q \in Procs : Switch(q)
    \/ \E z \in Procs : BurialStarts(z)
    \/ BurialCloses
    \/ BurialSkips
    \/ BurialEnds

Spec == Init /\ [][Next]_vars

-----------------------------------------------------------------------------
(* Properties. *)

\* The descriptors of File f, as process and slot, without those of a zombie
\* that burial has been through, and the open Files of node n.
DescriptorsOf(f) ==
    {d \in Procs \X (1 .. MaxFds) :
        /\ d[2] \in DOMAIN fds[d[1]]
        /\ fds[d[1]][d[2]] = f
        /\ d[1] = burial.zombie => d[2] >= burial.slot}
OpenFilesOf(n) == {f \in DOMAIN file : file[f].vnode = n /\ ~file[f].deleted}

\* The state has its type: tables hold Files that were created, counts are not
\* negative, only processes inside openFile or closeFile have a File in hand,
\* and a burial is that of a dead process which is not the current one.
TypeOK ==
    /\ status \in [Procs -> {"unborn", "alive", "dead", "buried"}]
    /\ current \in Procs
    /\ file \in Seq([vnode : Nodes, refs : Nat, deleted : BOOLEAN])
    /\ Len(file) <= MaxFiles
    /\ fds \in [Procs -> Seq({null} \cup DOMAIN file)]
    /\ \A p \in Procs : Len(fds[p]) <= MaxFds
    /\ node \in [Nodes -> [refs : Nat, file_data : {null} \cup DOMAIN file]]
    /\ call \in [Procs -> {Idle} \cup [at : {"open", "close"}, file : DOMAIN file]]
    /\ \/ burial = NoBurial
       \/ /\ burial \in [zombie : Procs, slot : Nat \ {0}]
          /\ status[burial.zombie] = "dead"
          /\ burial.zombie # current
          /\ burial.slot <= Len(fds[burial.zombie]) + 1

\* A descriptor never designates a deleted File, although Files are shared by
\* fork and by every open of a device, closed by close, exit and burial, and
\* burial closes them in the table of somebody else.
NoDanglingDescriptor ==
    \A f \in DOMAIN file : file[f].deleted => DescriptorsOf(f) = {}

\* The reference count of a File is at least the number of its descriptors, and
\* exactly that as long as no process has been buried: what a burial takes from
\* the current process is never counted back.
CountsCoverDescriptors ==
    \A f \in DOMAIN file :
        /\ file[f].refs >= Cardinality(DescriptorsOf(f))
        /\ (burial = NoBurial /\ \A p \in Procs : status[p] # "buried")
              => file[f].refs = Cardinality(DescriptorsOf(f))

\* The File that a device remembers exists and is that device's, although
\* exits make the device forget Files which are in use, so that it has several.
RememberedFileExists ==
    \A n \in Devices : node[n].file_data # null =>
        node[n].file_data \in OpenFilesOf(n)

\* A node outlives its open Files: each of them accounts for a reference of its
\* own, besides that of the directory.  For archived files the count is exact;
\* a device loses one reference for ever at every open that shares its File.
NodeOutlivesFiles ==
    /\ \A n \in Nodes : node[n].refs >= 1 + Cardinality(OpenFilesOf(n))
    /\ \A n \in Archived : node[n].refs = 1 + Cardinality(OpenFilesOf(n))

\* Nothing is written to a File after its deletion: it is not counted, closed
\* or deleted again.
DeletedOnce ==
    [][\A f \in DOMAIN file : file[f].deleted => file'[f] = file[f]]_vars

\* A descriptor of a live process goes only when the process closes the File
\* itself, or while it is current during the burial of a process that has the
\* same File: files that are not shared are safe from the death of others.
PrivateDescriptorsKept ==
    [][\A p \in Procs : \A i \in DOMAIN fds[p] :
        LET f == fds[p][i] IN
        (/\ status[p] = "alive"
         /\ f # null
         /\ ~(i \in DOMAIN fds'[p] /\ fds'[p][i] = f))
        => \/ call[p] = Idle /\ call'[p] = [at |-> "close", file |-> f]
           \/ p = current /\ burial # NoBurial /\ Holds(fds[burial.zombie], f)]_vars

=============================================================================
