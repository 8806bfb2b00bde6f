------------------------------ MODULE Vfs_proofs -------------------------------
(***************************************************************************)
(* Theorems about Vfs, for every number of processes, devices and archived *)
(* files and every bound, for system calls that do not preempt each other. *)
(***************************************************************************)
EXTENDS Vfs, FiniteSetTheorems, SequenceTheorems, WellFoundedInduction, TLAPS

-----------------------------------------------------------------------------
(* Lemmas about descriptor tables. *)

\* A set of natural numbers that is not empty has a least element.
LEMMA LeastElement ==
    ASSUME NEW T, T \subseteq Nat, T # {}
    PROVE  \E m \in T : \A n \in T : m <= n
<1> DEFINE R == {d \in Nat \X Nat : d[1] < d[2]}
<1>1. IsWellFoundedOn(R, Nat)
  BY NatLessThanWellFounded DEF OpToRel
<1> HIDE DEF R
<1>2. PICK m \in T : \A n \in T : ~(<<n, m>> \in R)
  BY <1>1, WFMin
<1>3. \A n \in T : ~(n < m)
  BY <1>2 DEF R
<1> QED
  BY <1>3

\* FindFd returns a slot of the File it is asked for.
LEMMA FindFdFinds ==
    ASSUME NEW S, NEW s \in Seq(S), NEW f, Holds(s, f)
    PROVE  FindFd(s, f) \in 1 .. Len(s) /\ s[FindFd(s, f)] = f
<1> DEFINE T == {i \in DOMAIN s : s[i] = f}
<1>1. T \subseteq Nat /\ T # {}
  BY DEF Holds
<1>2. PICK m \in T : \A n \in T : m <= n
  BY <1>1, LeastElement
<1>3. /\ m \in DOMAIN s
      /\ s[m] = f
      /\ \A j \in 1 .. (m - 1) : s[j] # f
  <2>1. m \in 1 .. Len(s) /\ s[m] = f /\ Len(s) \in Nat
    OBVIOUS
  <2>2. ASSUME NEW j \in 1 .. (m - 1), s[j] = f PROVE FALSE
    <3>1. j \in T /\ j < m
      BY <2>1, <2>2
    <3> QED
      BY <1>2, <2>1, <3>1
  <2> QED
    BY <2>1, <2>2
<1>4. /\ FindFd(s, f) \in DOMAIN s
      /\ s[FindFd(s, f)] = f
  BY <1>3 DEF FindFd
<1> QED
  BY <1>4

\* Table t is table s with f in a slot that was empty or new.
Fills(s, t, f) ==
    \E k \in 1 .. Len(t) :
        /\ t[k] = f
        /\ k \in 1 .. Len(s) => s[k] = null
        /\ \A i \in 1 .. Len(t) : i # k => i \in 1 .. Len(s) /\ t[i] = s[i]

\* Table t is table s without one descriptor of f.
Empties(s, t, f) ==
    \E k \in 1 .. Len(s) :
        /\ s[k] = f
        /\ t[k] = null
        /\ \A i \in 1 .. Len(s) : i # k => t[i] = s[i]

\* addFileDescriptor fills one slot that was empty or new, and no other.
LEMMA AddFills ==
    ASSUME NEW S, null \in S, NEW s \in Seq(S), NEW f \in S,
           Holds(s, null) \/ Len(s) < MaxFds, Len(s) <= MaxFds, MaxFds \in Nat
    PROVE  LET t == AddFileDescriptor(s, f) IN
           /\ t \in Seq(S)
           /\ Len(t) \in Len(s) .. MaxFds
           /\ Fills(s, t, f)
<1> USE DEF Fills
<1>1. CASE Holds(s, null)
  <2> DEFINE k == FindFd(s, null)
             t == [s EXCEPT ![k] = f]
  <2>1. k \in 1 .. Len(s) /\ s[k] = null
    BY <1>1, FindFdFinds
  <2>2. AddFileDescriptor(s, f) = t
    BY <1>1 DEF AddFileDescriptor
  <2> HIDE DEF k
  <2>3. /\ t \in Seq(S)
        /\ Len(t) = Len(s)
        /\ \A j \in 1 .. Len(s) : t[j] = IF j = k THEN f ELSE s[j]
    BY <2>1, ExceptSeq
  <2> HIDE DEF t
  <2>4. Len(s) \in Nat
    OBVIOUS
  <2>5. /\ t[k] = f
        /\ k \in 1 .. Len(s) => s[k] = null
        /\ \A i \in 1 .. Len(t) : i # k => i \in 1 .. Len(s) /\ t[i] = s[i]
    BY <2>1, <2>3
  <2> QED
    BY <2>1, <2>2, <2>3, <2>4, <2>5
<1>2. CASE ~Holds(s, null)
  <2> DEFINE t == Append(s, f)
  <2>1. AddFileDescriptor(s, f) = t
    BY <1>2 DEF AddFileDescriptor
  <2>2. /\ Len(s) \in Nat
        /\ t \in Seq(S)
        /\ Len(t) = Len(s) + 1
        /\ t[Len(s) + 1] = f
        /\ \A i \in 1 .. Len(s) : t[i] = s[i]
    OBVIOUS
  <2> HIDE DEF t
  <2>3. /\ t[Len(t)] = f
        /\ Len(t) \notin 1 .. Len(s)
        /\ \A i \in 1 .. Len(t) : i # Len(t) => i \in 1 .. Len(s) /\ t[i] = s[i]
    BY <2>2
  <2> QED
    BY <1>2, <2>1, <2>2, <2>3
<1> QED
  BY <1>1, <1>2

\* removeFileDescriptor empties one slot of the File, if there is one.
LEMMA RemoveEmpties ==
    ASSUME NEW S, null \in S, NEW s \in Seq(S), NEW f
    PROVE  LET t == RemoveFileDescriptor(s, f) IN
           /\ t \in Seq(S)
           /\ Len(t) = Len(s)
           /\ \A i \in 1 .. Len(s) : t[i] \in {s[i], null}
           /\ \A i \in 1 .. Len(s) : t[i] # s[i] => s[i] = f
           /\ Holds(s, f) => Empties(s, t, f)
<1> USE DEF Empties
<1>1. CASE Holds(s, f)
  <2> DEFINE k == FindFd(s, f)
             t == [s EXCEPT ![k] = null]
  <2>1. k \in 1 .. Len(s) /\ s[k] = f
    BY <1>1, FindFdFinds
  <2>2. RemoveFileDescriptor(s, f) = t
    BY <1>1 DEF RemoveFileDescriptor
  <2> HIDE DEF k
  <2>3. /\ t \in Seq(S)
        /\ Len(t) = Len(s)
        /\ \A j \in 1 .. Len(s) : t[j] = IF j = k THEN null ELSE s[j]
    BY <2>1, ExceptSeq
  <2> HIDE DEF t
  <2> QED
    BY <2>1, <2>2, <2>3
<1>2. CASE ~Holds(s, f)
  BY <1>2 DEF RemoveFileDescriptor
<1> QED
  BY <1>1, <1>2

-----------------------------------------------------------------------------
(* The inductive invariant. *)

\* Only processes that exist have descriptors.
TablesExist ==
    \A p \in Procs : status[p] \in {"unborn", "buried"} => fds[p] = <<>>

\* Without preemption, only the current process is inside openFile or
\* closeFile, and it is not while a burial goes on.
OneInside ==
    /\ \A p \in Procs : p # current => call[p] = Idle
    /\ burial # NoBurial => call[current] = Idle

\* The File that a process has in hand has not been deleted, and a process
\* inside openFile has room for a descriptor.
InHandExists ==
    \A p \in Procs :
        /\ call[p] # Idle => ~file[call[p].file].deleted
        /\ call[p].at = "open" => Holds(fds[p], null) \/ Len(fds[p]) < MaxFds

\* Archived files are not remembered.
ArchivedForgotten == \A n \in Archived : node[n].file_data = null

FileInv ==
    /\ TypeOK
    /\ TablesExist
    /\ OneInside
    /\ InHandExists
    /\ NoDanglingDescriptor
    /\ CountsCoverDescriptors
    /\ RememberedFileExists
    /\ ArchivedForgotten
    /\ NodeOutlivesFiles

\* Sets of slots and of Files are finite.
LEMMA SlotsFinite ==
    \A D : D \subseteq Procs \X (1 .. MaxFds)
             => IsFiniteSet(D) /\ Cardinality(D) \in Nat
<1>1. IsFiniteSet(Procs) /\ MaxFds \in Nat
  BY VfsAssumption DEF VfsAssumption
<1>2. IsFiniteSet(1 .. MaxFds)
  BY <1>1, FS_Interval
<1>3. IsFiniteSet(Procs \X (1 .. MaxFds))
  BY <1>1, <1>2, FS_Product
<1> TAKE D
<1> HAVE D \subseteq Procs \X (1 .. MaxFds)
<1>4. IsFiniteSet(D)
  BY <1>3, FS_Subset
<1> QED
  BY <1>4, FS_CardinalityType

\* Sets of Files are finite, since Files are numbered.
LEMMA FilesFinite ==
    \A k \in Nat : \A D : D \subseteq 1 .. k
             => IsFiniteSet(D) /\ Cardinality(D) \in Nat
<1> TAKE k \in Nat
<1> TAKE D
<1> HAVE D \subseteq 1 .. k
<1>1. IsFiniteSet(1 .. k)
  BY FS_Interval
<1>2. IsFiniteSet(D)
  BY <1>1, FS_Subset
<1> QED
  BY <1>2, FS_CardinalityType

\* What the type invariant says of tables and Files.
LEMMA TypeFacts ==
    ASSUME TypeOK
    PROVE  /\ Len(file) \in Nat
           /\ DOMAIN file = 1 .. Len(file)
           /\ \A f \in 1 .. Len(file) :
                 /\ file[f] \in [vnode : Nodes, refs : Nat, deleted : BOOLEAN]
                 /\ file[f].vnode \in Nodes
                 /\ file[f].refs \in Nat
                 /\ file[f].deleted \in BOOLEAN
           /\ \A p \in Procs :
                 /\ fds[p] \in Seq({null} \cup 1 .. Len(file))
                 /\ Len(fds[p]) \in Nat
                 /\ DOMAIN fds[p] = 1 .. Len(fds[p])
                 /\ Len(fds[p]) <= MaxFds
                 /\ \A i \in 1 .. Len(fds[p]) :
                       fds[p][i] \in {null} \cup 1 .. Len(file)
           /\ burial # NoBurial => burial.zombie \in Procs
<1> DEFINE R == [vnode : Nodes, refs : Nat, deleted : BOOLEAN]
<1>1. file \in Seq(R)
  BY DEF TypeOK
<1> HIDE DEF R
<1>2. /\ Len(file) \in Nat
      /\ DOMAIN file = 1 .. Len(file)
      /\ \A f \in 1 .. Len(file) : file[f] \in R
  BY <1>1
<1>3. \A p \in Procs :
         /\ fds[p] \in Seq({null} \cup 1 .. Len(file))
         /\ Len(fds[p]) <= MaxFds
  BY <1>2 DEF TypeOK
<1>4. \A p \in Procs :
         /\ Len(fds[p]) \in Nat
         /\ DOMAIN fds[p] = 1 .. Len(fds[p])
         /\ \A i \in 1 .. Len(fds[p]) :
               fds[p][i] \in {null} \cup 1 .. Len(file)
  BY <1>3
<1>5. \A f \in 1 .. Len(file) :
         /\ file[f] \in [vnode : Nodes, refs : Nat, deleted : BOOLEAN]
         /\ file[f].vnode \in Nodes
         /\ file[f].refs \in Nat
         /\ file[f].deleted \in BOOLEAN
  BY <1>2 DEF R
<1>6. burial # NoBurial => burial.zombie \in Procs
  BY DEF TypeOK
<1> QED
  BY <1>2, <1>3, <1>4, <1>5, <1>6

-----------------------------------------------------------------------------
(* The initial state, and the steps that leave tables and Files alone. *)

\* At boot the first process has no descriptors and no File exists.
LEMMA InitInv ==
    ASSUME Init
    PROVE  FileInv
<1> USE DEF Init, NoBurial
<1>1. MaxFiles \in Nat /\ MaxFds \in Nat /\ First \in Procs /\ Nobody \notin Procs
  BY VfsAssumption DEF VfsAssumption
<1>2. /\ DOMAIN file = {}
      /\ file \in Seq([vnode : Nodes, refs : Nat, deleted : BOOLEAN])
      /\ Len(file) = 0
      /\ \A S : <<>> \in Seq(S)
      /\ Len(<<>>) = 0
  BY EmptySeq
<1>3. TypeOK
  <2>1. node \in [Nodes -> [refs : Nat, file_data : {null} \cup DOMAIN file]]
    BY DEF null
  <2>2. fds \in [Procs -> Seq({null} \cup DOMAIN file)]
    BY <1>2
  <2>3. status \in [Procs -> {"unborn", "alive", "dead", "buried"}]
    OBVIOUS
  <2> QED
    BY <1>1, <1>2, <2>1, <2>2, <2>3 DEF TypeOK
<1>4. TablesExist /\ OneInside /\ InHandExists
  BY DEF TablesExist, OneInside, InHandExists, Idle
<1>5. /\ NoDanglingDescriptor
      /\ CountsCoverDescriptors
  BY <1>2 DEF NoDanglingDescriptor, CountsCoverDescriptors
<1>6. RememberedFileExists /\ ArchivedForgotten
  BY DEF RememberedFileExists, ArchivedForgotten, Nodes
<1>7. NodeOutlivesFiles
  <2>1. \A n \in Nodes : OpenFilesOf(n) = {}
    BY <1>2 DEF OpenFilesOf
  <2>2. \A n \in Nodes : node[n].refs = 1
    OBVIOUS
  <2>3. \A n \in Nodes : Cardinality(OpenFilesOf(n)) = 0
    BY <2>1, FS_EmptySet
  <2> QED
    BY <2>2, <2>3 DEF NodeOutlivesFiles, Nodes
<1> QED
  BY <1>3, <1>4, <1>5, <1>6, <1>7 DEF FileInv

\* Steps of the scheduler, and the end and the beginning of burials.
LEMMA SwitchKeepsInv ==
    ASSUME FileInv, ~Preempt, NEW q \in Procs, Switch(q)
    PROVE  FileInv'
<1> USE DEF FileInv, Switch, Interruptible
<1>1. TypeOK'
  BY DEF TypeOK
<1>2. TablesExist' /\ InHandExists'
  BY DEF TablesExist, InHandExists
<1>3. OneInside'
  BY DEF OneInside, TypeOK
<1>4. \A f : DescriptorsOf(f)' = DescriptorsOf(f)
  BY DEF DescriptorsOf
<1>5. \A n : OpenFilesOf(n)' = OpenFilesOf(n)
  BY DEF OpenFilesOf
<1>6. NoDanglingDescriptor' /\ CountsCoverDescriptors'
  BY <1>4 DEF NoDanglingDescriptor, CountsCoverDescriptors
<1>7. RememberedFileExists' /\ ArchivedForgotten' /\ NodeOutlivesFiles'
  BY <1>5 DEF RememberedFileExists, ArchivedForgotten, NodeOutlivesFiles
<1> QED
  BY <1>1, <1>2, <1>3, <1>6, <1>7

\* The undertaker begins to delete a process; its descriptors are all still to come.
LEMMA BurialStartsKeepsInv ==
    ASSUME FileInv, ~Preempt, NEW z \in Procs, BurialStarts(z)
    PROVE  FileInv'
<1> USE DEF FileInv, BurialStarts, Interruptible
<1>0. burial = NoBurial /\ burial' = [zombie |-> z, slot |-> 1]
  OBVIOUS
<1>1. TypeOK'
  <2>1. Len(fds[z]) \in Nat
    BY TypeFacts
  <2>2. z # current
    BY DEF TypeOK
  <2> QED
    BY <1>0, <2>1, <2>2 DEF TypeOK
<1>2. TablesExist' /\ InHandExists'
  BY DEF TablesExist, InHandExists
<1>3. OneInside'
  BY DEF OneInside
<1>4. \A f : DescriptorsOf(f)' = DescriptorsOf(f)
  <2>1. Nobody \notin Procs
    BY VfsAssumption DEF VfsAssumption
  <2> TAKE f
  <2>2. \A d \in Procs \X (1 .. MaxFds) :
           /\ d[1] = burial.zombie => d[2] >= burial.slot
           /\ d[1] = burial'.zombie => d[2] >= burial'.slot
    BY <1>0, <2>1 DEF NoBurial
  <2> QED
    BY <2>2 DEF DescriptorsOf
<1>5. \A n : OpenFilesOf(n)' = OpenFilesOf(n)
  BY DEF OpenFilesOf
<1>6. NoDanglingDescriptor' /\ CountsCoverDescriptors'
  BY <1>4, <1>0 DEF NoDanglingDescriptor, CountsCoverDescriptors
<1>7. RememberedFileExists' /\ ArchivedForgotten' /\ NodeOutlivesFiles'
  BY <1>5 DEF RememberedFileExists, ArchivedForgotten, NodeOutlivesFiles
<1> QED
  BY <1>1, <1>2, <1>3, <1>6, <1>7

\* A slot of the dead process that is empty.
LEMMA BurialSkipsKeepsInv ==
    ASSUME FileInv, BurialSkips
    PROVE  FileInv'
<1> USE DEF FileInv, BurialSkips
<1> SUFFICES ASSUME NEW z, NEW k, z = burial.zombie, k = burial.slot
             PROVE  FileInv'
  OBVIOUS
<1>0. /\ burial \in [zombie : Procs, slot : Nat \ {0}]
      /\ burial # NoBurial
      /\ burial' = [zombie |-> z, slot |-> k + 1]
      /\ burial' # NoBurial
      /\ z \in Procs
      /\ k \in Nat
  <2>1. Nobody \notin Procs
    BY VfsAssumption DEF VfsAssumption
  <2>2. burial # NoBurial
    BY DEF NoBurial
  <2>3. burial \in [zombie : Procs, slot : Nat \ {0}]
    BY <2>2 DEF TypeOK
  <2> QED
    BY <2>1, <2>2, <2>3 DEF NoBurial
<1>1. TypeOK'
  <2>1. k <= Len(fds[z]) /\ Len(fds[z]) \in Nat
    BY <1>0, TypeFacts
  <2>2. burial' \in [zombie : Procs, slot : Nat \ {0}]
    BY <1>0
  <2>3. /\ status[burial'.zombie] = "dead"
        /\ burial'.zombie # current
    BY <1>0 DEF TypeOK
  <2>4. burial'.slot <= Len(fds[burial'.zombie]) + 1
    BY <1>0, <2>1
  <2> QED
    BY <2>2, <2>3, <2>4 DEF TypeOK
<1>2. TablesExist' /\ InHandExists'
  BY DEF TablesExist, InHandExists
<1>3. OneInside'
  BY <1>0 DEF OneInside
<1>4. \A f \in DOMAIN file : DescriptorsOf(f)' = DescriptorsOf(f)
  <2> TAKE f \in DOMAIN file
  <2>1. f # null
    BY TypeFacts DEF null
  <2>2. \A d \in Procs \X (1 .. MaxFds) :
           (d[2] \in DOMAIN fds[d[1]] /\ fds[d[1]][d[2]] = f) =>
           ((d[1] = burial.zombie => d[2] >= burial.slot)
             <=> (d[1] = burial'.zombie => d[2] >= burial'.slot))
    <3> SUFFICES ASSUME NEW p \in Procs, NEW i \in 1 .. MaxFds,
                        fds[p][i] = f, p = z
                 PROVE  i >= k <=> i >= k + 1
      BY <1>0
    <3>1. i # k
      BY <2>1
    <3>2. MaxFds \in Nat
      BY VfsAssumption DEF VfsAssumption
    <3> QED
      BY <1>0, <3>1, <3>2
  <2> QED
    BY <2>2 DEF DescriptorsOf
<1>5. \A n : OpenFilesOf(n)' = OpenFilesOf(n)
  BY DEF OpenFilesOf
<1>6. NoDanglingDescriptor' /\ CountsCoverDescriptors'
  BY <1>4, <1>0 DEF NoDanglingDescriptor, CountsCoverDescriptors
<1>7. RememberedFileExists' /\ ArchivedForgotten' /\ NodeOutlivesFiles'
  BY <1>5 DEF RememberedFileExists, ArchivedForgotten, NodeOutlivesFiles
<1> QED
  BY <1>1, <1>2, <1>3, <1>6, <1>7

\* All slots have been passed, the process is gone.
LEMMA BurialEndsKeepsInv ==
    ASSUME FileInv, BurialEnds
    PROVE  FileInv'
<1> USE DEF FileInv, BurialEnds
<1> DEFINE z == burial.zombie
           k == burial.slot
<1>0. /\ burial # NoBurial
      /\ z \in Procs
      /\ k \in Nat \ {0}
      /\ k <= Len(fds[z]) + 1
      /\ Len(fds[z]) \in Nat
      /\ k = Len(fds[z]) + 1
  <2>1. burial # NoBurial
    BY DEF NoBurial
  <2>2. burial \in [zombie : Procs, slot : Nat \ {0}]
    BY <2>1 DEF TypeOK
  <2>3. k <= Len(fds[z]) + 1
    BY <2>1 DEF TypeOK
  <2>4. Len(fds[z]) \in Nat /\ DOMAIN fds[z] = 1 .. Len(fds[z])
    BY <2>2, TypeFacts
  <2> QED
    BY <2>1, <2>2, <2>3, <2>4
<1>1. TypeOK'
  <2>1. /\ <<>> \in Seq({null} \cup DOMAIN file)
        /\ Len(<<>>) = 0
        /\ MaxFds \in Nat
    BY EmptySeq, VfsAssumption DEF VfsAssumption
  <2>2. fds' \in [Procs -> Seq({null} \cup DOMAIN file)]
    BY <2>1 DEF TypeOK
  <2>3. \A p \in Procs : Len(fds'[p]) <= MaxFds
    BY <2>1, <1>0 DEF TypeOK
  <2>4. status' \in [Procs -> {"unborn", "alive", "dead", "buried"}]
    BY DEF TypeOK
  <2> QED
    BY <2>2, <2>3, <2>4 DEF TypeOK
<1>2. TablesExist'
  BY <1>0 DEF TablesExist, TypeOK
<1>3. InHandExists' /\ OneInside'
  <2>1. \A q \in Procs : call[q] = Idle
    BY <1>0 DEF OneInside
  <2> QED
    BY <2>1 DEF InHandExists, OneInside, Idle
<1>4. \A f \in DOMAIN file : DescriptorsOf(f)' = DescriptorsOf(f)
  <2> TAKE f \in DOMAIN file
  <2>1. Nobody \notin Procs /\ DOMAIN <<>> = {}
    BY VfsAssumption DEF VfsAssumption
  <2>2. \A i \in DOMAIN fds[z] : ~(i >= k)
    BY <1>0, TypeFacts
  <2>3. \A p \in Procs : p # z => fds'[p] = fds[p]
    BY DEF TypeOK
  <2>4. fds'[z] = <<>>
    BY <1>0 DEF TypeOK
  <2>5. burial'.zombie = Nobody
    BY DEF NoBurial
  <2>6. ASSUME NEW d \in Procs \X (1 .. MaxFds)
        PROVE  (/\ d[2] \in DOMAIN fds[d[1]]
                /\ fds[d[1]][d[2]] = f
                /\ d[1] = burial.zombie => d[2] >= burial.slot)
               <=> (/\ d[2] \in DOMAIN fds'[d[1]]
                    /\ fds'[d[1]][d[2]] = f
                    /\ d[1] = burial'.zombie => d[2] >= burial'.slot)
    <3>1. CASE d[1] = z
      BY <3>1, <2>1, <2>2, <2>4
    <3>2. CASE d[1] # z
      BY <3>2, <2>1, <2>3, <2>5
    <3> QED
      BY <3>1, <3>2
  <2> QED
    BY <2>6 DEF DescriptorsOf
<1>5. \A n : OpenFilesOf(n)' = OpenFilesOf(n)
  BY DEF OpenFilesOf
<1>6. NoDanglingDescriptor'
  BY <1>4 DEF NoDanglingDescriptor
<1>7. CountsCoverDescriptors'
  <2>1. status'[z] = "buried"
    BY <1>0 DEF TypeOK
  <2> QED
    BY <1>0, <1>4, <2>1 DEF CountsCoverDescriptors
<1>8. RememberedFileExists' /\ ArchivedForgotten' /\ NodeOutlivesFiles'
  BY <1>5 DEF RememberedFileExists, ArchivedForgotten, NodeOutlivesFiles
<1> QED
  BY <1>1, <1>2, <1>3, <1>6, <1>7, <1>8

\* die() has the devices forget the Files of the process, and keeps its table.
LEMMA ExitKeepsInv ==
    ASSUME FileInv, NEW p \in Procs, Exit(p)
    PROVE  FileInv'
<1> USE DEF FileInv, Exit, Enters, Executes
<1>0. /\ status'[p] = "dead"
      /\ \A q \in Procs : q # p => status'[q] = status[q]
      /\ \A n \in Nodes : /\ node'[n].refs = node[n].refs
                          /\ node'[n].file_data \in {node[n].file_data, null}
  BY DEF TypeOK, Forgotten
<1>1. TypeOK'
  <2>1. node' \in [Nodes -> [refs : Nat, file_data : {null} \cup DOMAIN file]]
    <3> DEFINE R == [refs : Nat, file_data : {null} \cup DOMAIN file]
    <3>1. \A n \in Nodes : node[n] \in R /\ [node[n] EXCEPT !.file_data = null] \in R
      BY DEF TypeOK
    <3> HIDE DEF R
    <3>2. node' \in [Nodes -> R]
      BY <3>1 DEF Forgotten
    <3> QED
      BY <3>2 DEF R
  <2>2. status' \in [Procs -> {"unborn", "alive", "dead", "buried"}]
    BY DEF TypeOK
  <2> QED
    BY <2>1, <2>2 DEF TypeOK
<1>2. TablesExist'
  BY <1>0 DEF TablesExist
<1>3. InHandExists' /\ OneInside'
  BY DEF InHandExists, OneInside
<1>4. \A f : DescriptorsOf(f)' = DescriptorsOf(f)
  BY DEF DescriptorsOf
<1>5. \A n : OpenFilesOf(n)' = OpenFilesOf(n)
  BY DEF OpenFilesOf
<1>6. NoDanglingDescriptor'
  BY <1>4 DEF NoDanglingDescriptor
<1>7. CountsCoverDescriptors'
  <2>1. (\A q \in Procs : status'[q] # "buried")
           => \A q \in Procs : status[q] # "buried"
    BY <1>0
  <2> QED
    BY <1>4, <2>1 DEF CountsCoverDescriptors
<1>8. RememberedFileExists' /\ ArchivedForgotten'
  BY <1>0, <1>5 DEF RememberedFileExists, ArchivedForgotten, Nodes
<1>9. NodeOutlivesFiles'
  BY <1>0, <1>5 DEF NodeOutlivesFiles, Nodes
<1> QED
  BY <1>1, <1>2, <1>3, <1>6, <1>7, <1>8, <1>9

\* exec leaves a slot without File in the table of the process.
LEMMA ExecKeepsInv ==
    ASSUME FileInv, NEW p \in Procs, Exec(p)
    PROVE  FileInv'
<1> USE DEF FileInv, Exec, Enters, Executes
<1>0. /\ Len(fds'[p]) = Len(fds[p]) + 1
      /\ Len(fds[p]) \in Nat
      /\ fds'[p] \in Seq({null} \cup DOMAIN file)
      /\ DOMAIN fds[p] = 1 .. Len(fds[p])
      /\ DOMAIN fds'[p] = 1 .. (Len(fds[p]) + 1)
      /\ \A i \in DOMAIN fds[p] : fds'[p][i] = fds[p][i]
      /\ fds'[p][Len(fds[p]) + 1] = null
      /\ \A q \in Procs : q # p => fds'[q] = fds[q]
  <2> DEFINE S == {null} \cup DOMAIN file
  <2>1. fds[p] \in Seq(S) /\ null \in S
    BY DEF TypeOK
  <2>2. fds'[p] = Append(fds[p], null) /\ \A q \in Procs : q # p => fds'[q] = fds[q]
    BY DEF TypeOK
  <2> HIDE DEF S
  <2>3. /\ Append(fds[p], null) \in Seq(S)
        /\ Len(fds[p]) \in Nat
        /\ Len(Append(fds[p], null)) = Len(fds[p]) + 1
        /\ DOMAIN fds[p] = 1 .. Len(fds[p])
        /\ DOMAIN Append(fds[p], null) = 1 .. (Len(fds[p]) + 1)
        /\ \A i \in DOMAIN fds[p] : Append(fds[p], null)[i] = fds[p][i]
        /\ Append(fds[p], null)[Len(fds[p]) + 1] = null
    BY <2>1
  <2> QED
    BY <2>2, <2>3 DEF S
<1>1. TypeOK'
  <2>1. fds' \in [Procs -> Seq({null} \cup DOMAIN file)]
    BY <1>0 DEF TypeOK
  <2>2. \A q \in Procs : Len(fds'[q]) <= MaxFds
    BY <1>0, VfsAssumption DEF TypeOK, VfsAssumption
  <2> QED
    BY <2>1, <2>2 DEF TypeOK
<1>2. TablesExist'
  BY <1>0 DEF TablesExist
<1>3. InHandExists' /\ OneInside'
  <2>1. \A q \in Procs : call[q] = Idle
    BY DEF OneInside
  <2> QED
    BY <2>1 DEF InHandExists, OneInside, Idle
<1>4. \A f \in DOMAIN file : DescriptorsOf(f)' = DescriptorsOf(f)
  <2> TAKE f \in DOMAIN file
  <2>1. f # null
    BY TypeFacts DEF null
  <2>2. ASSUME NEW q \in Procs, NEW i \in 1 .. MaxFds
        PROVE  (i \in DOMAIN fds[q] /\ fds[q][i] = f)
               <=> (i \in DOMAIN fds'[q] /\ fds'[q][i] = f)
    <3>1. MaxFds \in Nat
      BY VfsAssumption DEF VfsAssumption
    <3> QED
      BY <1>0, <2>1, <3>1
  <2> QED
    BY <2>2 DEF DescriptorsOf
<1>5. \A n : OpenFilesOf(n)' = OpenFilesOf(n)
  BY DEF OpenFilesOf
<1>6. NoDanglingDescriptor' /\ CountsCoverDescriptors'
  BY <1>4 DEF NoDanglingDescriptor, CountsCoverDescriptors
<1>7. RememberedFileExists' /\ ArchivedForgotten' /\ NodeOutlivesFiles'
  BY <1>5 DEF RememberedFileExists, ArchivedForgotten, NodeOutlivesFiles
<1> QED
  BY <1>1, <1>2, <1>3, <1>6, <1>7

-----------------------------------------------------------------------------
(* openFile *)

\* An open of a device that remembers a File counts one more user of it.
LEMMA OpensSharedKeepsInv ==
    ASSUME FileInv, NEW p \in Procs, NEW n \in Nodes, OpensShared(p, n)
    PROVE  FileInv'
<1> USE DEF FileInv, OpensShared, Enters, Executes
<1>0. /\ n \in Devices
      /\ node[n].file_data \in OpenFilesOf(n)
      /\ node[n].file_data \in DOMAIN file
      /\ ~file[node[n].file_data].deleted
  <2>1. n \in Devices
    BY DEF ArchivedForgotten, Nodes
  <2> QED
    BY <2>1 DEF RememberedFileExists, OpenFilesOf
<1>1. /\ \A m \in Nodes : node'[m].file_data = node[m].file_data
      /\ \A m \in Nodes : m # n => node'[m] = node[m]
      /\ node'[n].refs = node[n].refs + 1
      /\ \A m \in Nodes : node[m].refs \in Nat
  BY DEF TypeOK
<1>2. TypeOK'
  <2>1. node' \in [Nodes -> [refs : Nat, file_data : {null} \cup DOMAIN file]]
    BY DEF TypeOK
  <2>2. call' \in [Procs -> {Idle} \cup [at : {"open", "close"},
                                            file : DOMAIN file]]
    BY <1>0 DEF TypeOK
  <2> QED
    BY <2>1, <2>2 DEF TypeOK
<1>3. TablesExist' /\ OneInside'
  BY DEF TablesExist, OneInside, TypeOK
<1>4. InHandExists'
  BY <1>0 DEF InHandExists, TypeOK, Room
<1>5. \A f : DescriptorsOf(f)' = DescriptorsOf(f)
  BY DEF DescriptorsOf
<1>6. \A m : OpenFilesOf(m)' = OpenFilesOf(m)
  BY DEF OpenFilesOf
<1>7. NoDanglingDescriptor' /\ CountsCoverDescriptors'
  BY <1>5 DEF NoDanglingDescriptor, CountsCoverDescriptors
<1>8. RememberedFileExists' /\ ArchivedForgotten'
  BY <1>1, <1>6 DEF RememberedFileExists, ArchivedForgotten, Nodes
<1>9. NodeOutlivesFiles'
  <2>1. n \notin Archived
    BY <1>0, VfsAssumption DEF VfsAssumption
  <2>2. \A m \in Nodes : Cardinality(OpenFilesOf(m)) \in Nat
    BY TypeFacts, FilesFinite DEF OpenFilesOf
  <2>3. \A m \in Nodes : Cardinality(OpenFilesOf(m))' = Cardinality(OpenFilesOf(m))
    BY <1>6
  <2> QED
    BY <1>1, <2>1, <2>2, <2>3 DEF NodeOutlivesFiles, Nodes
<1> QED
  BY <1>2, <1>3, <1>4, <1>7, <1>8, <1>9

\* An open that makes a File, with a reference to its node.
LEMMA OpensNewKeepsInv ==
    ASSUME FileInv, NEW p \in Procs, NEW n \in Nodes, OpensNew(p, n)
    PROVE  FileInv'
<1> USE DEF FileInv, OpensNew, Enters, Executes
<1> SUFFICES ASSUME NEW f, f = Len(file) + 1 PROVE FileInv'
  OBVIOUS
<1> DEFINE new == [vnode |-> n, refs |-> 0, deleted |-> FALSE]
           R == [vnode : Nodes, refs : Nat, deleted : BOOLEAN]
<1>0. /\ Len(file) \in Nat
      /\ DOMAIN file = 1 .. Len(file)
      /\ file' \in Seq(R)
      /\ Len(file') = f
      /\ DOMAIN file' = 1 .. f
      /\ file'[f] = new
      /\ \A g \in DOMAIN file : file'[g] = file[g]
      /\ f \notin DOMAIN file
      /\ \A g \in DOMAIN file' : g = f \/ g \in DOMAIN file
  <2>1. new \in R /\ file \in Seq(R) /\ file' = Append(file, new)
    BY DEF TypeOK
  <2> HIDE DEF new, R
  <2>2. /\ Len(file) \in Nat
        /\ DOMAIN file = 1 .. Len(file)
        /\ file' \in Seq(R)
        /\ Len(file') = f
        /\ DOMAIN file' = 1 .. f
        /\ file'[f] = new
        /\ \A g \in DOMAIN file : file'[g] = file[g]
    BY <2>1
  <2> QED
    BY <2>2
<1>1. /\ \A m \in Nodes : m # n => node'[m] = node[m]
      /\ node'[n].refs = node[n].refs + 1
      /\ node'[n].file_data = IF n \in Devices THEN f ELSE null
      /\ \A m \in Nodes : node[m].refs \in Nat
  BY DEF TypeOK
<1>2. TypeOK'
  <2>1. node' \in [Nodes -> [refs : Nat, file_data : {null} \cup DOMAIN file']]
    BY <1>0 DEF TypeOK
  <2>2. call' \in [Procs -> {Idle} \cup [at : {"open", "close"},
                                            file : DOMAIN file']]
    BY <1>0 DEF TypeOK
  <2>3. fds' \in [Procs -> Seq({null} \cup DOMAIN file')]
    <3>1. {null} \cup DOMAIN file \subseteq {null} \cup DOMAIN file'
      BY <1>0
    <3>2. \A q \in Procs : fds[q] \in Seq({null} \cup DOMAIN file')
      BY <3>1, SeqMonotonic DEF TypeOK
    <3> QED
      BY <3>2 DEF TypeOK
  <2>4. Len(file') <= MaxFiles
    BY <1>0, VfsAssumption DEF VfsAssumption
  <2> QED
    BY <1>0, <2>1, <2>2, <2>3, <2>4 DEF TypeOK
<1>3. TablesExist' /\ OneInside'
  BY DEF TablesExist, OneInside, TypeOK
<1>4. InHandExists'
  BY <1>0 DEF InHandExists, TypeOK, Room
<1>5. \A g : DescriptorsOf(g)' = DescriptorsOf(g)
  BY DEF DescriptorsOf
<1>6. DescriptorsOf(f) = {}
  <2>1. \A q \in Procs : \A i \in DOMAIN fds[q] : fds[q][i] # f
    BY <1>0, TypeFacts DEF null
  <2> QED
    BY <2>1 DEF DescriptorsOf
<1>7. NoDanglingDescriptor'
  BY <1>0, <1>5 DEF NoDanglingDescriptor
<1>8. CountsCoverDescriptors'
  <2>1. Cardinality(DescriptorsOf(f)) = 0
    BY <1>6, FS_EmptySet
  <2>2. file'[f].refs = 0
    BY <1>0
  <2>3. \A g \in DOMAIN file' :
           Cardinality(DescriptorsOf(g))' = Cardinality(DescriptorsOf(g))
    BY <1>5
  <2> QED
    BY <1>0, <2>1, <2>2, <2>3 DEF CountsCoverDescriptors
<1>9. /\ OpenFilesOf(n)' = OpenFilesOf(n) \cup {f}
      /\ \A m \in Nodes : m # n => OpenFilesOf(m)' = OpenFilesOf(m)
  BY <1>0 DEF OpenFilesOf
<1>10. RememberedFileExists' /\ ArchivedForgotten'
  BY <1>1, <1>9, VfsAssumption
     DEF RememberedFileExists, ArchivedForgotten, Nodes, VfsAssumption
<1>11. NodeOutlivesFiles'
  <2>1. IsFiniteSet(OpenFilesOf(n)) /\ f \notin OpenFilesOf(n)
    BY <1>0, TypeFacts, FilesFinite DEF OpenFilesOf
  <2>2. Cardinality(OpenFilesOf(n))' = Cardinality(OpenFilesOf(n)) + 1
    BY <1>9, <2>1, FS_AddElement
  <2>3. \A m \in Nodes : Cardinality(OpenFilesOf(m)) \in Nat
    BY TypeFacts, FilesFinite DEF OpenFilesOf
  <2>4. \A m \in Nodes : m # n =>
           Cardinality(OpenFilesOf(m))' = Cardinality(OpenFilesOf(m))
    BY <1>9
  <2> QED
    BY <1>1, <2>2, <2>3, <2>4 DEF NodeOutlivesFiles, Nodes
<1> QED
  BY <1>2, <1>3, <1>4, <1>7, <1>8, <1>10, <1>11

-----------------------------------------------------------------------------
(* Lemmas about updates. *)

\* The Files when that in place f becomes r.
LEMMA FileUpdated ==
    ASSUME TypeOK, NEW f \in DOMAIN file,
           NEW r \in [vnode : Nodes, refs : Nat, deleted : BOOLEAN]
    PROVE  LET F == [file EXCEPT ![f] = r] IN
           /\ F \in Seq([vnode : Nodes, refs : Nat, deleted : BOOLEAN])
           /\ Len(F) = Len(file)
           /\ DOMAIN F = DOMAIN file
           /\ F[f] = r
           /\ \A g \in DOMAIN file : g # f => F[g] = file[g]
<1> DEFINE R == [vnode : Nodes, refs : Nat, deleted : BOOLEAN]
<1>1. file \in Seq(R) /\ f \in 1 .. Len(file) /\ DOMAIN file = 1 .. Len(file)
  BY TypeFacts DEF TypeOK
<1> HIDE DEF R
<1>2. r \in R
  BY DEF R
<1>3. /\ [file EXCEPT ![f] = r] \in Seq(R)
      /\ Len([file EXCEPT ![f] = r]) = Len(file)
      /\ \A j \in 1 .. Len(file) :
            [file EXCEPT ![f] = r][j] = IF j = f THEN r ELSE file[j]
  BY <1>1, <1>2, ExceptSeq
<1> QED
  BY <1>1, <1>3 DEF R

\* Nodes keep their invariants while no File is created, closed or deleted.
LEMMA NodesKept ==
    ASSUME FileInv,
           DOMAIN file' = DOMAIN file,
           \A g \in DOMAIN file : /\ file'[g].vnode = file[g].vnode
                                  /\ file'[g].deleted = file[g].deleted,
           node' = node
    PROVE  RememberedFileExists' /\ ArchivedForgotten' /\ NodeOutlivesFiles'
<1>1. \A m : OpenFilesOf(m)' = OpenFilesOf(m)
  BY DEF OpenFilesOf
<1> QED
  BY <1>1 DEF FileInv, RememberedFileExists, ArchivedForgotten, NodeOutlivesFiles

\* They keep them when a File is closed and deleted with its last reference.
LEMMA NodeClosed ==
    ASSUME FileInv, NEW f \in DOMAIN file, ~file[f].deleted,
           DOMAIN file' = DOMAIN file,
           \A g \in DOMAIN file :
              /\ file'[g].vnode = file[g].vnode
              /\ file'[g].deleted = IF g = f THEN TRUE ELSE file[g].deleted,
           node' = Closed(file[f].vnode)
    PROVE  /\ node' \in [Nodes -> [refs : Nat, file_data : {null} \cup DOMAIN file]]
           /\ RememberedFileExists' /\ ArchivedForgotten' /\ NodeOutlivesFiles'
<1> USE DEF FileInv
<1> SUFFICES ASSUME NEW n, n = file[f].vnode
             PROVE  /\ node' \in [Nodes -> [refs : Nat,
                                            file_data : {null} \cup DOMAIN file]]
                    /\ RememberedFileExists' /\ ArchivedForgotten'
                    /\ NodeOutlivesFiles'
  OBVIOUS
<1>1. n \in Nodes /\ f \in 1 .. Len(file)
  BY TypeFacts
<1>2. /\ OpenFilesOf(n)' = OpenFilesOf(n) \ {f}
      /\ f \in OpenFilesOf(n)
      /\ \A m : m # n => OpenFilesOf(m)' = OpenFilesOf(m)
  BY DEF OpenFilesOf
<1>3. /\ \A m \in Nodes : IsFiniteSet(OpenFilesOf(m))
      /\ \A m \in Nodes : Cardinality(OpenFilesOf(m)) \in Nat
  BY TypeFacts, FilesFinite DEF OpenFilesOf
<1>4. Cardinality(OpenFilesOf(n))' = Cardinality(OpenFilesOf(n)) - 1
  BY <1>1, <1>2, <1>3, FS_RemoveElement
<1>5. Cardinality(OpenFilesOf(n)) # 0
  BY <1>1, <1>2, <1>3, FS_EmptySet
<1>6. /\ \A m \in Nodes : m # n => node'[m] = node[m]
      /\ node'[n].refs = node[n].refs - 1
      /\ node'[n].file_data = null
      /\ \A m \in Nodes : node[m].refs \in Nat
  BY <1>1 DEF TypeOK, Closed
<1>7. node[n].refs - 1 \in Nat
  BY <1>1, <1>3, <1>6 DEF NodeOutlivesFiles
<1>8. node' \in [Nodes -> [refs : Nat, file_data : {null} \cup DOMAIN file]]
  BY <1>1, <1>7 DEF TypeOK, Closed
<1>9. RememberedFileExists' /\ ArchivedForgotten'
  BY <1>2, <1>6 DEF RememberedFileExists, ArchivedForgotten, Nodes
<1>10. NodeOutlivesFiles'
  <2>1. \A m \in Nodes : m # n =>
           Cardinality(OpenFilesOf(m))' = Cardinality(OpenFilesOf(m))
    BY <1>2
  <2>2. /\ node'[n].refs >= 1 + Cardinality(OpenFilesOf(n))'
        /\ n \in Archived => node'[n].refs = 1 + Cardinality(OpenFilesOf(n))'
    BY <1>1, <1>3, <1>4, <1>6 DEF NodeOutlivesFiles
  <2>3. \A m \in Nodes : m # n =>
           /\ node'[m].refs >= 1 + Cardinality(OpenFilesOf(m))'
           /\ m \in Archived => node'[m].refs = 1 + Cardinality(OpenFilesOf(m))'
    BY <1>6, <2>1 DEF NodeOutlivesFiles
  <2> QED
    BY <2>2, <2>3 DEF NodeOutlivesFiles, Nodes
<1> QED
  BY <1>8, <1>9, <1>10

\* The descriptors of a File are finitely many.
LEMMA DescriptorSizes ==
    \A g : /\ IsFiniteSet(DescriptorsOf(g))
           /\ Cardinality(DescriptorsOf(g)) \in Nat
           /\ Cardinality(DescriptorsOf(g)) = 0 <=> DescriptorsOf(g) = {}
<1> TAKE g
<1>1. DescriptorsOf(g) \subseteq Procs \X (1 .. MaxFds)
  BY DEF DescriptorsOf
<1> QED
  BY <1>1, SlotsFinite, FS_EmptySet

-----------------------------------------------------------------------------
(* The steps that change tables. *)

\* The File in hand gets its slot.
LEMMA OpenEndsKeepsInv ==
    ASSUME FileInv, NEW p \in Procs, OpenEnds(p)
    PROVE  FileInv'
<1> USE DEF FileInv, OpenEnds, Executes
<1> SUFFICES ASSUME NEW f, f = call[p].file PROVE FileInv'
  OBVIOUS
<1>0. /\ f \in DOMAIN file
      /\ f \in 1 .. Len(file)
      /\ ~file[f].deleted
      /\ Holds(fds[p], null) \/ Len(fds[p]) < MaxFds
      /\ burial = NoBurial /\ burial' = NoBurial
      /\ burial.zombie \notin Procs
  BY TypeFacts, VfsAssumption
     DEF TypeOK, InHandExists, Idle, NoBurial, VfsAssumption
<1>1. /\ file' \in Seq([vnode : Nodes, refs : Nat, deleted : BOOLEAN])
      /\ Len(file') = Len(file)
      /\ DOMAIN file' = DOMAIN file
      /\ file'[f] = [file[f] EXCEPT !.refs = file[f].refs + 1]
      /\ \A g \in DOMAIN file : g # f => file'[g] = file[g]
  <2> DEFINE r == [file[f] EXCEPT !.refs = file[f].refs + 1]
  <2>1. r \in [vnode : Nodes, refs : Nat, deleted : BOOLEAN]
    BY <1>0, TypeFacts
  <2>2. file' = [file EXCEPT ![f] = r]
    OBVIOUS
  <2> HIDE DEF r, OpenEnds
  <2>3. /\ file' \in Seq([vnode : Nodes, refs : Nat, deleted : BOOLEAN])
        /\ Len(file') = Len(file)
        /\ DOMAIN file' = DOMAIN file
        /\ file'[f] = r
        /\ \A g \in DOMAIN file : g # f => file'[g] = file[g]
    BY <1>0, <2>1, <2>2, FileUpdated
  <2> QED
    BY <2>3 DEF r
<1>2. /\ file'[f].refs = file[f].refs + 1
      /\ \A g \in DOMAIN file : /\ file'[g].vnode = file[g].vnode
                                /\ file'[g].deleted = file[g].deleted
  BY <1>0, <1>1, TypeFacts
<1>3. /\ \A q \in Procs : q # p => fds'[q] = fds[q]
      /\ fds'[p] \in Seq({null} \cup DOMAIN file)
      /\ Len(fds'[p]) \in Len(fds[p]) .. MaxFds
      /\ Fills(fds[p], fds'[p], f)
  <2> DEFINE S == {null} \cup DOMAIN file
  <2>1. fds[p] \in Seq(S) /\ f \in S /\ null \in S /\ Len(fds[p]) <= MaxFds
    BY <1>0 DEF TypeOK
  <2>2. MaxFds \in Nat
    BY VfsAssumption DEF VfsAssumption
  <2>3. /\ fds'[p] = AddFileDescriptor(fds[p], f)
        /\ \A q \in Procs : q # p => fds'[q] = fds[q]
    BY DEF TypeOK
  <2> HIDE DEF S, FileInv, OpenEnds, Executes
  <2> DEFINE t == AddFileDescriptor(fds[p], f)
  <2>4. /\ t \in Seq(S)
        /\ Len(t) \in Len(fds[p]) .. MaxFds
        /\ Fills(fds[p], t, f)
    BY <1>0, <2>1, <2>2, AddFills
  <2> QED
    BY <2>3, <2>4 DEF S
<1>4. TypeOK'
  <2>1. fds' \in [Procs -> Seq({null} \cup DOMAIN file')]
    BY <1>1, <1>3 DEF TypeOK
  <2>2. \A q \in Procs : Len(fds'[q]) <= MaxFds
    BY <1>3, TypeFacts, VfsAssumption DEF TypeOK, VfsAssumption
  <2>3. call' \in [Procs -> {Idle} \cup [at : {"open", "close"},
                                            file : DOMAIN file']]
    BY <1>1 DEF TypeOK
  <2> QED
    BY <1>0, <1>1, <2>1, <2>2, <2>3 DEF TypeOK
<1>5. TablesExist' /\ OneInside'
  BY <1>0, <1>3 DEF TablesExist, OneInside
<1>6. InHandExists'
  <2>1. \A q \in Procs : call'[q] = Idle
    BY DEF OneInside, TypeOK
  <2> QED
    BY <2>1 DEF InHandExists, Idle
<1>7. PICK k \in 1 .. Len(fds'[p]) :
         /\ fds'[p][k] = f
         /\ k \in 1 .. Len(fds[p]) => fds[p][k] = null
         /\ \A i \in 1 .. Len(fds'[p]) :
               i # k => i \in 1 .. Len(fds[p]) /\ fds'[p][i] = fds[p][i]
  BY <1>3 DEF Fills
<1>8. \A q \in Procs : \A i \in 1 .. MaxFds : \A g \in DOMAIN file :
         (i \in DOMAIN fds'[q] /\ fds'[q][i] = g)
         <=> \/ i \in DOMAIN fds[q] /\ fds[q][i] = g
             \/ q = p /\ i = k /\ g = f
  <2> TAKE q \in Procs
  <2> TAKE i \in 1 .. MaxFds
  <2> TAKE g \in DOMAIN file
  <2>1. g # null
    BY TypeFacts DEF null
  <2>2. CASE q # p
    BY <2>2, <1>3
  <2>3. CASE q = p
    <3>1. /\ Len(fds[p]) \in Nat
          /\ DOMAIN fds[p] = 1 .. Len(fds[p])
          /\ DOMAIN fds'[p] = 1 .. Len(fds'[p])
      BY <1>3, TypeFacts
    <3>2. MaxFds \in Nat /\ Len(fds'[p]) \in Nat /\ Len(fds'[p]) >= Len(fds[p])
      BY <3>1, <1>3, VfsAssumption DEF VfsAssumption
    <3> QED
      BY <2>1, <2>3, <3>1, <3>2, <1>7
  <2> QED
    BY <2>2, <2>3
<1>9. /\ <<p, k>> \notin DescriptorsOf(f)
      /\ DescriptorsOf(f)' = DescriptorsOf(f) \cup {<<p, k>>}
      /\ \A g \in DOMAIN file : g # f => DescriptorsOf(g)' = DescriptorsOf(g)
  <2>1. k \in 1 .. MaxFds
    BY <1>3, TypeFacts, VfsAssumption DEF VfsAssumption
  <2>2. f # null
    BY <1>0, TypeFacts DEF null
  <2>3. <<p, k>> \notin DescriptorsOf(f)
    BY <1>7, <2>2, TypeFacts DEF DescriptorsOf
  <2> QED
    BY <1>0, <1>8, <2>1, <2>3 DEF DescriptorsOf
<1>10. NoDanglingDescriptor'
  BY <1>0, <1>1, <1>2, <1>9 DEF NoDanglingDescriptor
<1>11. CountsCoverDescriptors'
  <2>1. Cardinality(DescriptorsOf(f))' = Cardinality(DescriptorsOf(f)) + 1
    BY <1>9, DescriptorSizes, FS_AddElement
  <2>2. \A g \in DOMAIN file : g # f =>
           Cardinality(DescriptorsOf(g))' = Cardinality(DescriptorsOf(g))
    BY <1>9
  <2>3. file[f].refs \in Nat /\ Cardinality(DescriptorsOf(f)) \in Nat
    BY <1>0, TypeFacts, DescriptorSizes
  <2> QED
    BY <1>0, <1>1, <1>2, <2>1, <2>2, <2>3 DEF CountsCoverDescriptors
<1>12. RememberedFileExists' /\ ArchivedForgotten' /\ NodeOutlivesFiles'
  BY <1>1, <1>2, NodesKept
<1> QED
  BY <1>4, <1>5, <1>6, <1>10, <1>11, <1>12

\* closeFile() takes the slot out and counts down.
LEMMA CloseStartsKeepsInv ==
    ASSUME FileInv, NEW p \in Procs, NEW i \in 1 .. MaxFds, CloseStarts(p, i)
    PROVE  FileInv'
<1> USE DEF FileInv, CloseStarts, Enters, Executes
<1> SUFFICES ASSUME NEW f, f = fds[p][i] PROVE FileInv'
  OBVIOUS
<1>0. /\ f \in DOMAIN file
      /\ f \in 1 .. Len(file)
      /\ f # null
      /\ Holds(fds[p], f)
      /\ burial = NoBurial /\ burial' = NoBurial
      /\ burial.zombie \notin Procs
  BY TypeFacts, VfsAssumption DEF NoBurial, VfsAssumption, Holds
<1>1. /\ \A q \in Procs : q # p => fds'[q] = fds[q]
      /\ fds'[p] \in Seq({null} \cup DOMAIN file)
      /\ Len(fds'[p]) = Len(fds[p])
      /\ Empties(fds[p], fds'[p], f)
  <2> DEFINE S == {null} \cup DOMAIN file
             t == RemoveFileDescriptor(fds[p], f)
  <2>1. fds[p] \in Seq(S) /\ null \in S
    BY DEF TypeOK
  <2>2. fds'[p] = t /\ \A q \in Procs : q # p => fds'[q] = fds[q]
    BY DEF TypeOK
  <2> HIDE DEF S, FileInv, CloseStarts, Enters, Executes
  <2>3. t \in Seq(S) /\ Len(t) = Len(fds[p]) /\ Empties(fds[p], t, f)
    BY <1>0, <2>1, RemoveEmpties
  <2> QED
    BY <2>2, <2>3 DEF S
<1>2. PICK k \in 1 .. Len(fds[p]) :
         /\ fds[p][k] = f
         /\ fds'[p][k] = null
         /\ \A j \in 1 .. Len(fds[p]) : j # k => fds'[p][j] = fds[p][j]
  BY <1>1 DEF Empties
<1>3. \A q \in Procs : \A j \in 1 .. MaxFds : \A g \in DOMAIN file :
         (j \in DOMAIN fds'[q] /\ fds'[q][j] = g)
         <=> j \in DOMAIN fds[q] /\ fds[q][j] = g /\ ~(q = p /\ j = k)
  <2> TAKE q \in Procs
  <2> TAKE j \in 1 .. MaxFds
  <2> TAKE g \in DOMAIN file
  <2>1. g # null
    BY TypeFacts DEF null
  <2>2. CASE q # p
    BY <2>2, <1>1
  <2>3. CASE q = p
    <3>1. DOMAIN fds[p] = 1 .. Len(fds[p]) /\ DOMAIN fds'[p] = 1 .. Len(fds'[p])
      BY <1>1, TypeFacts
    <3> QED
      BY <2>1, <2>3, <3>1, <1>1, <1>2
  <2> QED
    BY <2>2, <2>3
<1>4. /\ <<p, k>> \in DescriptorsOf(f)
      /\ DescriptorsOf(f)' = DescriptorsOf(f) \ {<<p, k>>}
      /\ \A g \in DOMAIN file : g # f => DescriptorsOf(g)' = DescriptorsOf(g)
  <2>1. k \in 1 .. MaxFds /\ k \in DOMAIN fds[p]
    BY <1>2, TypeFacts, VfsAssumption DEF VfsAssumption
  <2>2. <<p, k>> \in DescriptorsOf(f)
    BY <1>0, <1>2, <2>1 DEF DescriptorsOf
  <2>3. DescriptorsOf(f)' = DescriptorsOf(f) \ {<<p, k>>}
    BY <1>0, <1>3, <2>1 DEF DescriptorsOf
  <2>4. \A g \in DOMAIN file : g # f => DescriptorsOf(g)' = DescriptorsOf(g)
    BY <1>0, <1>2, <1>3 DEF DescriptorsOf
  <2> QED
    BY <2>2, <2>3, <2>4
<1>5. /\ Cardinality(DescriptorsOf(f))' = Cardinality(DescriptorsOf(f)) - 1
      /\ Cardinality(DescriptorsOf(f)) \in Nat
      /\ file[f].refs >= Cardinality(DescriptorsOf(f))
      /\ file[f].refs \in Nat
      /\ file[f].refs - 1 \in Nat
      /\ ~file[f].deleted
  <2>1. Cardinality(DescriptorsOf(f))' = Cardinality(DescriptorsOf(f)) - 1
    BY <1>4, DescriptorSizes, FS_RemoveElement
  <2>2. Cardinality(DescriptorsOf(f)) \in Nat \ {0}
    BY <1>4, DescriptorSizes
  <2>3. file[f].refs >= Cardinality(DescriptorsOf(f)) /\ file[f].refs \in Nat
    BY <1>0, TypeFacts DEF CountsCoverDescriptors
  <2>4. ~file[f].deleted
    BY <1>0, <1>4 DEF NoDanglingDescriptor
  <2> QED
    BY <2>1, <2>2, <2>3, <2>4
<1>6. /\ file' \in Seq([vnode : Nodes, refs : Nat, deleted : BOOLEAN])
      /\ Len(file') = Len(file)
      /\ DOMAIN file' = DOMAIN file
      /\ file'[f] = [file[f] EXCEPT !.refs = file[f].refs - 1]
      /\ \A g \in DOMAIN file : g # f => file'[g] = file[g]
  <2> DEFINE r == [file[f] EXCEPT !.refs = file[f].refs - 1]
  <2>1. r \in [vnode : Nodes, refs : Nat, deleted : BOOLEAN]
    BY <1>0, <1>5, TypeFacts
  <2>2. file' = [file EXCEPT ![f] = r] /\ TypeOK
    OBVIOUS
  <2> HIDE DEF r, FileInv, CloseStarts, Enters, Executes
  <2>3. /\ file' \in Seq([vnode : Nodes, refs : Nat, deleted : BOOLEAN])
        /\ Len(file') = Len(file)
        /\ DOMAIN file' = DOMAIN file
        /\ file'[f] = r
        /\ \A g \in DOMAIN file : g # f => file'[g] = file[g]
    <3> DEFINE F == [file EXCEPT ![f] = r]
    <3>1. f \in DOMAIN file
      BY <1>0
    <3>2. /\ F \in Seq([vnode : Nodes, refs : Nat, deleted : BOOLEAN])
          /\ Len(F) = Len(file)
          /\ DOMAIN F = DOMAIN file
          /\ F[f] = r
          /\ \A g \in DOMAIN file : g # f => F[g] = file[g]
      BY <2>1, <2>2, <3>1, FileUpdated
    <3> HIDE DEF F
    <3>3. file' = F
      BY <2>2 DEF F
    <3> QED
      BY <3>2, <3>3
  <2> QED
    BY <2>3 DEF r
<1>7. /\ file'[f].refs = file[f].refs - 1
      /\ \A g \in DOMAIN file : /\ file'[g].vnode = file[g].vnode
                                /\ file'[g].deleted = file[g].deleted
  BY <1>0, <1>6, TypeFacts
<1>8. TypeOK'
  <2>1. fds' \in [Procs -> Seq({null} \cup DOMAIN file')]
    BY <1>1, <1>6 DEF TypeOK
  <2>2. \A q \in Procs : Len(fds'[q]) <= MaxFds
    BY <1>1 DEF TypeOK
  <2>3. call' \in [Procs -> {Idle} \cup [at : {"open", "close"},
                                            file : DOMAIN file']]
    BY <1>0, <1>6 DEF TypeOK
  <2> QED
    BY <1>0, <1>6, <2>1, <2>2, <2>3 DEF TypeOK
<1>9. TablesExist' /\ OneInside'
  BY <1>0, <1>1 DEF TablesExist, OneInside, TypeOK
<1>10. InHandExists'
  <2>1. \A q \in Procs : q # p => call'[q] = Idle
    BY DEF OneInside, TypeOK
  <2>2. call'[p] = [at |-> "close", file |-> f]
    BY DEF TypeOK
  <2>3. ~file'[f].deleted
    BY <1>0, <1>5, <1>7
  <2> QED
    BY <2>1, <2>2, <2>3 DEF InHandExists, Idle
<1>11. NoDanglingDescriptor'
  BY <1>0, <1>4, <1>5, <1>6, <1>7 DEF NoDanglingDescriptor
<1>12. CountsCoverDescriptors'
  <2>1. \A g \in DOMAIN file : g # f =>
           Cardinality(DescriptorsOf(g))' = Cardinality(DescriptorsOf(g))
    BY <1>4
  <2>2. file'[f].refs >= Cardinality(DescriptorsOf(f))'
    BY <1>5, <1>7
  <2>3. (\A q \in Procs : status[q] # "buried")
           => file'[f].refs = Cardinality(DescriptorsOf(f))'
    BY <1>0, <1>5, <1>7 DEF CountsCoverDescriptors
  <2> QED
    BY <1>0, <1>6, <2>1, <2>2, <2>3 DEF CountsCoverDescriptors
<1>13. RememberedFileExists' /\ ArchivedForgotten' /\ NodeOutlivesFiles'
  BY <1>6, <1>7, NodesKept
<1> QED
  BY <1>8, <1>9, <1>10, <1>11, <1>12, <1>13

\* At a count of zero the File is closed, and with it a reference to its node.
LEMMA CloseEndsKeepsInv ==
    ASSUME FileInv, NEW p \in Procs, CloseEnds(p)
    PROVE  FileInv'
<1> USE DEF FileInv, CloseEnds, Executes
<1> SUFFICES ASSUME NEW f, f = call[p].file PROVE FileInv'
  OBVIOUS
<1>0. /\ f \in DOMAIN file
      /\ f \in 1 .. Len(file)
      /\ ~file[f].deleted
      /\ burial = NoBurial /\ burial' = NoBurial
  BY TypeFacts DEF TypeOK, InHandExists, Idle
<1>1. \A q \in Procs : call'[q] = Idle
  <2>1. \A q \in Procs : q # p => call[q] = Idle
    BY DEF OneInside
  <2> QED
    BY <2>1 DEF TypeOK
<1>2. call' \in [Procs -> {Idle} \cup [at : {"open", "close"}, file : DOMAIN file]]
  BY DEF TypeOK
<1>3. TablesExist' /\ OneInside' /\ InHandExists'
  BY <1>0, <1>1 DEF TablesExist, OneInside, InHandExists, Idle
<1>4. \A g : DescriptorsOf(g)' = DescriptorsOf(g)
  BY DEF DescriptorsOf
<1>5. CASE file[f].refs # 0
  <2>1. file' = file /\ node' = node
    BY <1>5
  <2>2. TypeOK'
    BY <1>2, <2>1 DEF TypeOK
  <2>3. NoDanglingDescriptor' /\ CountsCoverDescriptors'
    BY <1>4, <2>1 DEF NoDanglingDescriptor, CountsCoverDescriptors
  <2>4. RememberedFileExists' /\ ArchivedForgotten' /\ NodeOutlivesFiles'
    BY <2>1, NodesKept
  <2> QED
    BY <1>3, <2>2, <2>3, <2>4
<1>6. CASE file[f].refs = 0
  <2>1. /\ file' \in Seq([vnode : Nodes, refs : Nat, deleted : BOOLEAN])
        /\ Len(file') = Len(file)
        /\ DOMAIN file' = DOMAIN file
        /\ file'[f] = [file[f] EXCEPT !.deleted = TRUE]
        /\ \A g \in DOMAIN file : g # f => file'[g] = file[g]
    <3> DEFINE r == [file[f] EXCEPT !.deleted = TRUE]
    <3>1. r \in [vnode : Nodes, refs : Nat, deleted : BOOLEAN]
      BY <1>0, TypeFacts
    <3>2. file' = [file EXCEPT ![f] = r] /\ TypeOK
      BY <1>6
    <3> HIDE DEF r, FileInv, CloseEnds, Executes
    <3>3. /\ file' \in Seq([vnode : Nodes, refs : Nat, deleted : BOOLEAN])
          /\ Len(file') = Len(file)
          /\ DOMAIN file' = DOMAIN file
          /\ file'[f] = r
          /\ \A g \in DOMAIN file : g # f => file'[g] = file[g]
      BY <1>0, <3>1, <3>2, FileUpdated
    <3> QED
      BY <3>3 DEF r
  <2>2. \A g \in DOMAIN file :
           /\ file'[g].vnode = file[g].vnode
           /\ file'[g].refs = file[g].refs
           /\ file'[g].deleted = IF g = f THEN TRUE ELSE file[g].deleted
    <3> HIDE DEF FileInv, CloseEnds, Executes
    <3>1. /\ file'[f].vnode = file[f].vnode
          /\ file'[f].refs = file[f].refs
          /\ file'[f].deleted = TRUE
      <4>1. file[f] \in [vnode : Nodes, refs : Nat, deleted : BOOLEAN]
        BY <1>0, TypeFacts DEF FileInv
      <4> QED
        BY <2>1, <4>1
    <3> QED
      BY <2>1, <3>1
  <2>3. node' = Closed(file[f].vnode)
    BY <1>6
  <2>4. /\ node' \in [Nodes -> [refs : Nat, file_data : {null} \cup DOMAIN file]]
        /\ RememberedFileExists' /\ ArchivedForgotten' /\ NodeOutlivesFiles'
    BY <1>0, <2>1, <2>2, <2>3, NodeClosed
  <2>5. DescriptorsOf(f) = {}
    <3>1. 0 >= Cardinality(DescriptorsOf(f))
      BY <1>0, <1>6 DEF CountsCoverDescriptors
    <3> QED
      BY <3>1, DescriptorSizes
  <2>6. NoDanglingDescriptor'
    BY <1>4, <2>1, <2>2, <2>5 DEF NoDanglingDescriptor
  <2>7. CountsCoverDescriptors'
    BY <1>0, <1>4, <2>1, <2>2 DEF CountsCoverDescriptors
  <2>8. TypeOK'
    BY <1>0, <1>2, <2>1, <2>4 DEF TypeOK
  <2> QED
    BY <1>3, <2>4, <2>6, <2>7, <2>8
<1> QED
  BY <1>5, <1>6

\* A slot of the dead process is closed, perhaps with one of the current process.
LEMMA BurialClosesKeepsInv ==
    ASSUME FileInv, BurialCloses
    PROVE  FileInv'
<1> USE DEF FileInv, BurialCloses
<1> SUFFICES ASSUME NEW z, NEW k, NEW c, NEW f,
                    z = burial.zombie, k = burial.slot, c = current,
                    f = fds[z][k]
             PROVE  FileInv'
  OBVIOUS
<1>0. /\ burial \in [zombie : Procs, slot : Nat \ {0}]
      /\ burial # NoBurial
      /\ burial' = [zombie |-> z, slot |-> k + 1]
      /\ burial' # NoBurial
      /\ z \in Procs /\ c \in Procs /\ z # c
      /\ status[z] = "dead"
      /\ k \in Nat /\ k \in 1 .. Len(fds[z]) /\ k \in 1 .. MaxFds
  <2>1. Nobody \notin Procs
    BY VfsAssumption DEF VfsAssumption
  <2>2. burial # NoBurial
    BY DEF NoBurial
  <2>3. /\ burial \in [zombie : Procs, slot : Nat \ {0}]
        /\ z # c /\ c \in Procs /\ status[z] = "dead"
    BY <2>2 DEF TypeOK
  <2>4. k \in 1 .. Len(fds[z]) /\ Len(fds[z]) \in Nat /\ Len(fds[z]) <= MaxFds
    BY <2>3, TypeFacts
  <2>5. k \in 1 .. MaxFds
    BY <2>4, VfsAssumption DEF VfsAssumption
  <2>6. burial' = [zombie |-> z, slot |-> k + 1]
    BY <2>3
  <2> QED
    BY <2>1, <2>2, <2>3, <2>4, <2>5, <2>6 DEF NoBurial
<1>1. /\ f \in DOMAIN file
      /\ f \in 1 .. Len(file)
      /\ f # null
      /\ <<z, k>> \in DescriptorsOf(f)
  <2>1. f \in 1 .. Len(file) /\ f # null /\ k \in DOMAIN fds[z]
    BY <1>0, TypeFacts
  <2>2. <<z, k>> \in DescriptorsOf(f)
    BY <1>0, <2>1 DEF DescriptorsOf
  <2> QED
    BY <2>1, <2>2, TypeFacts
<1>2. /\ Cardinality(DescriptorsOf(f)) \in Nat \ {0}
      /\ file[f].refs >= Cardinality(DescriptorsOf(f))
      /\ file[f].refs \in Nat
      /\ file[f].refs - 1 \in Nat
      /\ ~file[f].deleted
  <2>1. Cardinality(DescriptorsOf(f)) \in Nat \ {0}
    BY <1>1, DescriptorSizes
  <2>2. file[f].refs >= Cardinality(DescriptorsOf(f)) /\ file[f].refs \in Nat
    BY <1>1, TypeFacts DEF CountsCoverDescriptors
  <2>3. ~file[f].deleted
    BY <1>1 DEF NoDanglingDescriptor
  <2> QED
    BY <2>1, <2>2, <2>3
<1>3. /\ \A q \in Procs : q # c => fds'[q] = fds[q]
      /\ fds'[c] \in Seq({null} \cup DOMAIN file)
      /\ Len(fds'[c]) = Len(fds[c])
      /\ \A i \in 1 .. Len(fds[c]) : fds'[c][i] \in {fds[c][i], null}
  <2> DEFINE S == {null} \cup DOMAIN file
             t == RemoveFileDescriptor(fds[c], f)
  <2>1. fds[c] \in Seq(S) /\ null \in S
    BY <1>0 DEF TypeOK
  <2>2. fds'[c] = t /\ \A q \in Procs : q # c => fds'[q] = fds[q]
    BY <1>0 DEF TypeOK
  <2> HIDE DEF S, FileInv, BurialCloses
  <2>3. /\ t \in Seq(S) /\ Len(t) = Len(fds[c])
        /\ \A i \in 1 .. Len(fds[c]) : t[i] \in {fds[c][i], null}
    BY <2>1, RemoveEmpties
  <2> QED
    BY <2>2, <2>3 DEF S
<1>4. \A q \in Procs : \A i \in 1 .. MaxFds : \A g \in DOMAIN file :
         (i \in DOMAIN fds'[q] /\ fds'[q][i] = g)
         => i \in DOMAIN fds[q] /\ fds[q][i] = g
  <2> TAKE q \in Procs
  <2> TAKE i \in 1 .. MaxFds
  <2> TAKE g \in DOMAIN file
  <2>1. g # null
    BY TypeFacts DEF null
  <2>2. CASE q # c
    BY <2>2, <1>3
  <2>3. CASE q = c
    <3>1. DOMAIN fds[c] = 1 .. Len(fds[c]) /\ DOMAIN fds'[c] = 1 .. Len(fds'[c])
      BY <1>0, <1>3, TypeFacts
    <3> QED
      BY <2>1, <2>3, <3>1, <1>3
  <2> QED
    BY <2>2, <2>3
<1>5. /\ DescriptorsOf(f)' \subseteq DescriptorsOf(f) \ {<<z, k>>}
      /\ \A g \in DOMAIN file : DescriptorsOf(g)' \subseteq DescriptorsOf(g)
  <2>1. ASSUME NEW g \in DOMAIN file, NEW d \in DescriptorsOf(g)'
        PROVE  d \in DescriptorsOf(g) /\ d # <<z, k>>
    <3>1. /\ d \in Procs \X (1 .. MaxFds)
          /\ d[2] \in DOMAIN fds'[d[1]] /\ fds'[d[1]][d[2]] = g
          /\ d[1] = z => d[2] >= k + 1
      BY <1>0, <2>1 DEF DescriptorsOf
    <3>2. PICK q \in Procs, i \in 1 .. MaxFds : d = <<q, i>>
      BY <3>1
    <3>3. i \in DOMAIN fds[q] /\ fds[q][i] = g
      BY <1>4, <3>1, <3>2
    <3>4. i \in Nat /\ (q = z => i >= k + 1)
      BY <3>1, <3>2, VfsAssumption DEF VfsAssumption
    <3>5. q = burial.zombie => i >= burial.slot
      BY <1>0, <3>4
    <3>6. d # <<z, k>>
      BY <1>0, <3>2, <3>4
    <3> QED
      BY <3>1, <3>2, <3>3, <3>5, <3>6 DEF DescriptorsOf
  <2> QED
    BY <1>1, <2>1
<1>6. \A g \in DOMAIN file :
         Cardinality(DescriptorsOf(g))' <= Cardinality(DescriptorsOf(g))
  <2> TAKE g \in DOMAIN file
  <2>1. DescriptorsOf(g)' \in SUBSET DescriptorsOf(g) /\ IsFiniteSet(DescriptorsOf(g))
    BY <1>5, DescriptorSizes
  <2> QED
    BY <2>1, FS_Subset
<1>7. /\ Cardinality(DescriptorsOf(f))' <= Cardinality(DescriptorsOf(f)) - 1
      /\ Cardinality(DescriptorsOf(f))' \in Nat
      /\ file[f].refs = 1 => DescriptorsOf(f)' = {}
  <2> DEFINE D == DescriptorsOf(f) \ {<<z, k>>}
  <2>1. IsFiniteSet(D) /\ Cardinality(D) = Cardinality(DescriptorsOf(f)) - 1
    BY <1>1, DescriptorSizes, FS_RemoveElement
  <2>2. DescriptorsOf(f)' \in SUBSET D
    BY <1>5
  <2> HIDE DEF D
  <2>3. /\ IsFiniteSet(DescriptorsOf(f)')
        /\ Cardinality(DescriptorsOf(f)') <= Cardinality(D)
    BY <2>1, <2>2, FS_Subset
  <2>4. Cardinality(DescriptorsOf(f)') \in Nat
    BY <2>3, FS_CardinalityType
  <2>5. ASSUME file[f].refs = 1 PROVE DescriptorsOf(f)' = {}
    <3>1. Cardinality(DescriptorsOf(f)') = 0
      BY <2>1, <2>3, <2>4, <2>5, <1>2
    <3> QED
      BY <2>3, <3>1, FS_EmptySet
  <2> QED
    BY <2>1, <2>3, <2>4, <2>5
<1>8. /\ file' \in Seq([vnode : Nodes, refs : Nat, deleted : BOOLEAN])
      /\ Len(file') = Len(file)
      /\ DOMAIN file' = DOMAIN file
      /\ file'[f].refs = file[f].refs - 1
      /\ file'[f].vnode = file[f].vnode
      /\ file'[f].deleted = (file[f].refs = 1)
      /\ \A g \in DOMAIN file : g # f => file'[g] = file[g]
  <2> DEFINE r == [vnode |-> file[f].vnode, refs |-> file[f].refs - 1,
                   deleted |-> file[f].refs = 1]
             F == [file EXCEPT ![f] = r]
  <2>1. r \in [vnode : Nodes, refs : Nat, deleted : BOOLEAN]
    BY <1>1, <1>2, TypeFacts
  <2>2. /\ r.refs = file[f].refs - 1
        /\ r.vnode = file[f].vnode
        /\ r.deleted = (file[f].refs = 1)
    BY <1>1, TypeFacts
  <2>3. file' = F /\ TypeOK /\ f \in DOMAIN file
    BY <1>1
  <2> HIDE DEF r, FileInv, BurialCloses
  <2>4. /\ F \in Seq([vnode : Nodes, refs : Nat, deleted : BOOLEAN])
        /\ Len(F) = Len(file)
        /\ DOMAIN F = DOMAIN file
        /\ F[f] = r
        /\ \A g \in DOMAIN file : g # f => F[g] = file[g]
    BY <2>1, <2>3, FileUpdated
  <2> HIDE DEF F
  <2> QED
    BY <2>2, <2>3, <2>4
<1>9. /\ node' \in [Nodes -> [refs : Nat, file_data : {null} \cup DOMAIN file]]
      /\ RememberedFileExists' /\ ArchivedForgotten' /\ NodeOutlivesFiles'
  <2>1. CASE file[f].refs = 1
    <3>1. \A g \in DOMAIN file :
             /\ file'[g].vnode = file[g].vnode
             /\ file'[g].deleted = IF g = f THEN TRUE ELSE file[g].deleted
      BY <1>8, <2>1
    <3>2. node' = Closed(file[f].vnode)
      BY <2>1
    <3> QED
      BY <1>1, <1>2, <1>8, <3>1, <3>2, NodeClosed
  <2>2. CASE file[f].refs # 1
    <3>1. \A g \in DOMAIN file : /\ file'[g].vnode = file[g].vnode
                                 /\ file'[g].deleted = file[g].deleted
      BY <1>1, <1>2, <1>8, <2>2, TypeFacts
    <3>2. node' = node
      BY <2>2
    <3> QED
      BY <1>8, <3>1, <3>2, NodesKept DEF TypeOK
  <2> QED
    BY <2>1, <2>2
<1>10. TypeOK'
  <2>1. fds' \in [Procs -> Seq({null} \cup DOMAIN file')]
    BY <1>0, <1>3, <1>8 DEF TypeOK
  <2>2. \A q \in Procs : Len(fds'[q]) <= MaxFds
    BY <1>0, <1>3 DEF TypeOK
  <2>3. /\ burial' \in [zombie : Procs, slot : Nat \ {0}]
        /\ status[burial'.zombie] = "dead"
        /\ burial'.zombie # current
    BY <1>0
  <2>4. burial'.slot <= Len(fds'[burial'.zombie]) + 1
    BY <1>0, <1>3, TypeFacts
  <2> QED
    BY <1>8, <1>9, <2>1, <2>2, <2>3, <2>4 DEF TypeOK
<1>11. TablesExist'
  <2>1. status' = status
    OBVIOUS
  <2>2. \A q \in Procs : fds[q] = <<>> => fds'[q] = <<>>
    BY <1>0, <1>3, EmptySeq
  <2> QED
    BY <2>1, <2>2 DEF TablesExist
<1>12. OneInside' /\ InHandExists'
  <2>1. \A q \in Procs : call[q] = Idle
    BY <1>0 DEF OneInside
  <2> QED
    BY <1>0, <2>1 DEF OneInside, InHandExists, Idle
<1>13. NoDanglingDescriptor'
  <2>1. \A g \in DOMAIN file : g # f /\ file[g].deleted => DescriptorsOf(g)' = {}
    BY <1>5 DEF NoDanglingDescriptor
  <2>2. file'[f].deleted => DescriptorsOf(f)' = {}
    BY <1>7, <1>8
  <2> QED
    BY <1>8, <2>1, <2>2 DEF NoDanglingDescriptor
<1>14. CountsCoverDescriptors'
  <2> HIDE DEF FileInv, BurialCloses
  <2>1. file'[f].refs >= Cardinality(DescriptorsOf(f))'
    <3>1. file'[f].refs = file[f].refs - 1
      BY <1>8
    <3>2. Cardinality(DescriptorsOf(f))' <= Cardinality(DescriptorsOf(f)) - 1
      BY <1>7
    <3> QED
      BY <1>2, <1>7, <3>1, <3>2
  <2>2. \A g \in DOMAIN file : g # f =>
           file'[g].refs >= Cardinality(DescriptorsOf(g))'
    <3> TAKE g \in DOMAIN file
    <3> HAVE g # f
    <3>1. file[g].refs >= Cardinality(DescriptorsOf(g)) /\ file[g].refs \in Nat
      BY TypeFacts DEF CountsCoverDescriptors, FileInv
    <3>2. Cardinality(DescriptorsOf(g))' <= Cardinality(DescriptorsOf(g))
      BY <1>6
    <3>3. /\ Cardinality(DescriptorsOf(g)) \in Nat
          /\ Cardinality(DescriptorsOf(g))' \in Nat
      <4>1. DescriptorsOf(g)' \in SUBSET DescriptorsOf(g)
        BY <1>5
      <4>2. IsFiniteSet(DescriptorsOf(g)')
        BY <4>1, DescriptorSizes, FS_Subset
      <4> QED
        BY <4>2, DescriptorSizes, FS_CardinalityType
    <3> QED
      <4>1. file'[g].refs = file[g].refs
        BY <1>8
      <4> QED
        BY <4>1, <3>1, <3>2, <3>3
  <2> QED
    BY <1>0, <1>8, <2>1, <2>2 DEF CountsCoverDescriptors
<1> QED
  BY <1>9, <1>10, <1>11, <1>12, <1>13, <1>14

\* As many descriptors of a File come with a copy of a table as fork counts.
LEMMA SharedCounts ==
    ASSUME NEW S, NEW s \in Seq(S), Len(s) <= MaxFds, NEW g, NEW c
    PROVE  LET N == {d \in {c} \X (1 .. MaxFds) : d[2] \in DOMAIN s /\ s[d[2]] = g}
           IN  /\ IsFiniteSet(N)
               /\ Cardinality(N) = Shared(s, g)
               /\ Shared(s, g) \in Nat
<1> DEFINE N == {d \in {c} \X (1 .. MaxFds) : d[2] \in DOMAIN s /\ s[d[2]] = g}
           I == {i \in DOMAIN s : s[i] = g}
           F == [i \in I |-> <<c, i>>]
<1>1. Len(s) \in Nat /\ DOMAIN s = 1 .. Len(s) /\ MaxFds \in Nat
  BY VfsAssumption DEF VfsAssumption
<1>2. IsFiniteSet(I) /\ Cardinality(I) \in Nat
  BY <1>1, FilesFinite
<1>3. \A i \in I : i \in 1 .. MaxFds
  BY <1>1
<1>4. F \in [I -> N]
  BY <1>3
<1>5. F \in Injection(I, N)
  BY <1>4 DEF Injection, IsInjective
<1>6. F \in Surjection(I, N)
  <2>1. ASSUME NEW d \in N PROVE \E i \in I : F[i] = d
    <3>1. d = <<c, d[2]>> /\ d[2] \in I
      BY <2>1
    <3> QED
      BY <3>1
  <2> QED
    BY <1>4, <2>1 DEF Surjection
<1>7. ExistsBijection(I, N)
  BY <1>5, <1>6 DEF ExistsBijection, Bijection
<1> HIDE DEF N, I
<1>8. IsFiniteSet(N) /\ Cardinality(N) = Cardinality(I)
  BY <1>2, <1>7, FS_Bijection
<1>9. Shared(s, g) = Cardinality(I)
  BY DEF Shared, I
<1> QED
  BY <1>2, <1>8, <1>9 DEF N

\* A child gets the descriptors of its parent, and each File one more user per slot.
LEMMA ForkKeepsInv ==
    ASSUME FileInv, NEW p \in Procs, NEW c \in Procs, Fork(p, c)
    PROVE  FileInv'
<1> USE DEF FileInv, Fork, Enters, Executes
<1>0. /\ c # p
      /\ fds[c] = <<>>
      /\ burial = NoBurial /\ burial' = NoBurial
      /\ burial.zombie \notin Procs
      /\ \A q \in Procs : call[q] = Idle
      /\ \A q \in Procs : q # c => fds'[q] = fds[q] /\ status'[q] = status[q]
      /\ fds'[c] = fds[p]
      /\ status'[c] = "alive"
  <2>1. c # p /\ fds[c] = <<>>
    BY DEF TablesExist
  <2>2. burial.zombie \notin Procs
    BY VfsAssumption DEF NoBurial, VfsAssumption
  <2>3. \A q \in Procs : call[q] = Idle
    BY DEF OneInside
  <2>4. /\ \A q \in Procs : q # c => fds'[q] = fds[q] /\ status'[q] = status[q]
        /\ fds'[c] = fds[p]
        /\ status'[c] = "alive"
    BY DEF TypeOK
  <2> QED
    BY <2>1, <2>2, <2>3, <2>4
<1> DEFINE N(g) == {d \in {c} \X (1 .. MaxFds) :
                       d[2] \in DOMAIN fds[p] /\ fds[p][d[2]] = g}
<1>1. \A g : /\ IsFiniteSet(N(g))
             /\ Cardinality(N(g)) = Shared(fds[p], g)
             /\ Shared(fds[p], g) \in Nat
  <2>1. fds[p] \in Seq({null} \cup 1 .. Len(file)) /\ Len(fds[p]) <= MaxFds
    BY TypeFacts
  <2> HIDE DEF FileInv, Fork, Enters, Executes
  <2> QED
    BY <2>1, SharedCounts
<1>2. /\ DOMAIN file' = DOMAIN file
      /\ \A g \in DOMAIN file :
            /\ file'[g] \in [vnode : Nodes, refs : Nat, deleted : BOOLEAN]
            /\ file'[g].vnode = file[g].vnode
            /\ file'[g].deleted = file[g].deleted
            /\ file'[g].refs = file[g].refs + Shared(fds[p], g)
  <2>1. \A g \in DOMAIN file :
           /\ file[g] \in [vnode : Nodes, refs : Nat, deleted : BOOLEAN]
           /\ file[g].refs \in Nat
           /\ file'[g] = [file[g] EXCEPT !.refs = file[g].refs + Shared(fds[p], g)]
    BY TypeFacts
  <2>2. DOMAIN file' = DOMAIN file
    OBVIOUS
  <2> HIDE DEF FileInv, Fork, Enters, Executes, N
  <2>3. ASSUME NEW g \in DOMAIN file
        PROVE  /\ file'[g] \in [vnode : Nodes, refs : Nat, deleted : BOOLEAN]
               /\ file'[g].vnode = file[g].vnode
               /\ file'[g].deleted = file[g].deleted
               /\ file'[g].refs = file[g].refs + Shared(fds[p], g)
    <3>1. file[g].refs + Shared(fds[p], g) \in Nat
      <4>1. file[g].refs \in Nat /\ Shared(fds[p], g) \in Nat
        BY <1>1, <2>1
      <4> QED
        BY <4>1
    <3> QED
      BY <2>1, <3>1
  <2> QED
    BY <2>2, <2>3
<1>3. file' \in Seq([vnode : Nodes, refs : Nat, deleted : BOOLEAN])
      /\ Len(file') = Len(file)
  <2> DEFINE R == [vnode : Nodes, refs : Nat, deleted : BOOLEAN]
  <2>1. Len(file) \in Nat /\ DOMAIN file = 1 .. Len(file)
    BY TypeFacts
  <2>2. file' = [g \in 1 .. Len(file) |-> file'[g]]
    BY <2>1
  <2>3. \A g \in 1 .. Len(file) : file'[g] \in R
    BY <1>2, <2>1
  <2> HIDE DEF R, FileInv, Fork, Enters, Executes
  <2>4. file' \in [1 .. Len(file) -> R]
    BY <2>2, <2>3
  <2>5. file' \in Seq(R)
    BY <2>1, <2>4, SeqDef
  <2>6. Len(file') = Len(file)
    BY <2>1, <2>4, <2>5
  <2> QED
    BY <2>5, <2>6 DEF R
<1>4. TypeOK'
  <2>1. fds' \in [Procs -> Seq({null} \cup DOMAIN file')]
    BY <1>0, <1>2 DEF TypeOK
  <2>2. \A q \in Procs : Len(fds'[q]) <= MaxFds
    BY <1>0 DEF TypeOK
  <2>3. status' \in [Procs -> {"unborn", "alive", "dead", "buried"}]
    BY DEF TypeOK
  <2> QED
    BY <1>0, <1>2, <1>3, <2>1, <2>2, <2>3 DEF TypeOK
<1>5. TablesExist' /\ OneInside' /\ InHandExists'
  BY <1>0 DEF TablesExist, OneInside, InHandExists, Idle
<1>6. \A g \in DOMAIN file :
         /\ DescriptorsOf(g)' = DescriptorsOf(g) \cup N(g)
         /\ DescriptorsOf(g) \cap N(g) = {}
  <2> TAKE g \in DOMAIN file
  <2>1. DescriptorsOf(g) \cap N(g) = {}
    BY <1>0 DEF DescriptorsOf
  <2>2. ASSUME NEW q \in Procs, NEW i \in 1 .. MaxFds
        PROVE  (i \in DOMAIN fds'[q] /\ fds'[q][i] = g)
               <=> \/ i \in DOMAIN fds[q] /\ fds[q][i] = g
                   \/ <<q, i>> \in N(g)
    <3>1. CASE q = c
      BY <3>1, <1>0
    <3>2. CASE q # c
      BY <3>2, <1>0
    <3> QED
      BY <3>1, <3>2
  <2>3. N(g) \subseteq Procs \X (1 .. MaxFds)
    OBVIOUS
  <2> HIDE DEF N
  <2>4. DescriptorsOf(g)' = DescriptorsOf(g) \cup N(g)
    BY <1>0, <2>2, <2>3 DEF DescriptorsOf
  <2> QED
    BY <2>1, <2>4
<1> HIDE DEF N
<1>7. \A g \in DOMAIN file :
         Cardinality(DescriptorsOf(g))'
            = Cardinality(DescriptorsOf(g)) + Shared(fds[p], g)
  <2> TAKE g \in DOMAIN file
  <2>1. Cardinality(DescriptorsOf(g) \cup N(g))
          = Cardinality(DescriptorsOf(g)) + Cardinality(N(g))
            - Cardinality(DescriptorsOf(g) \cap N(g))
    BY <1>1, DescriptorSizes, FS_Union
  <2>2. Cardinality(DescriptorsOf(g) \cap N(g)) = 0
    BY <1>6, FS_EmptySet
  <2>3. Cardinality(DescriptorsOf(g)) \in Nat /\ Cardinality(N(g)) \in Nat
    BY <1>1, DescriptorSizes
  <2>4. Cardinality(DescriptorsOf(g))' = Cardinality(DescriptorsOf(g) \cup N(g))
    BY <1>6
  <2> QED
    BY <1>1, <2>1, <2>2, <2>3, <2>4
<1>8. NoDanglingDescriptor'
  <2> SUFFICES ASSUME NEW g \in DOMAIN file, file[g].deleted
               PROVE  DescriptorsOf(g)' = {}
    BY <1>2 DEF NoDanglingDescriptor
  <2>1. DescriptorsOf(g) = {}
    BY DEF NoDanglingDescriptor
  <2>2. \A i \in DOMAIN fds[p] : i \in 1 .. MaxFds
    BY TypeFacts, VfsAssumption DEF VfsAssumption
  <2>3. \A i \in DOMAIN fds[p] : fds[p][i] # g
    <3> TAKE i \in DOMAIN fds[p]
    <3>1. <<p, i>> \in Procs \X (1 .. MaxFds)
      BY <2>2
    <3>2. <<p, i>> \notin DescriptorsOf(g)
      BY <2>1
    <3> QED
      BY <1>0, <3>1, <3>2 DEF DescriptorsOf
  <2>4. N(g) = {}
    BY <2>3 DEF N
  <2> QED
    BY <1>6, <2>1, <2>4
<1>9. CountsCoverDescriptors'
  <2> SUFFICES ASSUME NEW g \in DOMAIN file
               PROVE  /\ file'[g].refs >= Cardinality(DescriptorsOf(g))'
                      /\ (\A q \in Procs : status'[q] # "buried")
                            => file'[g].refs = Cardinality(DescriptorsOf(g))'
    BY <1>0, <1>2 DEF CountsCoverDescriptors
  <2>1. /\ file[g].refs >= Cardinality(DescriptorsOf(g))
        /\ (\A q \in Procs : status[q] # "buried")
              => file[g].refs = Cardinality(DescriptorsOf(g))
    BY <1>0 DEF CountsCoverDescriptors
  <2>2. file[g].refs \in Nat /\ Cardinality(DescriptorsOf(g)) \in Nat
    BY TypeFacts, DescriptorSizes
  <2>3. (\A q \in Procs : status'[q] # "buried")
           => \A q \in Procs : status[q] # "buried"
    <3>1. status[c] = "unborn"
      OBVIOUS
    <3> QED
      BY <1>0, <3>1
  <2>4. /\ file'[g].refs = file[g].refs + Shared(fds[p], g)
        /\ Cardinality(DescriptorsOf(g))'
              = Cardinality(DescriptorsOf(g)) + Shared(fds[p], g)
        /\ Shared(fds[p], g) \in Nat
    BY <1>1, <1>2, <1>7
  <2> HIDE DEF FileInv, Fork, Enters, Executes
  <2> QED
    BY <2>1, <2>2, <2>3, <2>4
<1>10. RememberedFileExists' /\ ArchivedForgotten' /\ NodeOutlivesFiles'
  BY <1>2, NodesKept
<1> QED
  BY <1>4, <1>5, <1>8, <1>9, <1>10

-----------------------------------------------------------------------------
(* Theorems. *)

\* Every step keeps the invariant.
LEMMA NextKeepsInv ==
    ASSUME FileInv, ~Preempt, [Next]_vars
    PROVE  FileInv'
<1>1. CASE UNCHANGED vars
  <2> USE <1>1 DEF vars
  <2>1. /\ \A f : DescriptorsOf(f)' = DescriptorsOf(f)
        /\ \A n : OpenFilesOf(n)' = OpenFilesOf(n)
    BY DEF DescriptorsOf, OpenFilesOf
  <2>2. TypeOK'
    BY DEF FileInv, TypeOK
  <2>3. TablesExist' /\ OneInside' /\ InHandExists'
    BY DEF FileInv, TablesExist, OneInside, InHandExists
  <2>4. NoDanglingDescriptor' /\ CountsCoverDescriptors'
    BY <2>1 DEF FileInv, NoDanglingDescriptor, CountsCoverDescriptors
  <2>5. RememberedFileExists' /\ ArchivedForgotten' /\ NodeOutlivesFiles'
    BY <2>1 DEF FileInv, RememberedFileExists, ArchivedForgotten, NodeOutlivesFiles
  <2> QED
    BY <2>2, <2>3, <2>4, <2>5 DEF FileInv
<1>2. ASSUME NEW p \in Procs, NEW n \in Nodes, OpensShared(p, n) \/ OpensNew(p, n)
      PROVE  FileInv'
  BY <1>2, OpensSharedKeepsInv, OpensNewKeepsInv
<1>3. ASSUME NEW p \in Procs, NEW i \in 1 .. MaxFds, CloseStarts(p, i)
      PROVE  FileInv'
  BY <1>3, CloseStartsKeepsInv
<1>4. ASSUME NEW p \in Procs, OpenEnds(p) \/ CloseEnds(p) \/ Exec(p) \/ Exit(p)
      PROVE  FileInv'
  BY <1>4, OpenEndsKeepsInv, CloseEndsKeepsInv, ExecKeepsInv, ExitKeepsInv
<1>5. ASSUME NEW p \in Procs, NEW c \in Procs, Fork(p, c)
      PROVE  FileInv'
  BY <1>5, ForkKeepsInv
<1>6. ASSUME NEW q \in Procs, Switch(q) \/ BurialStarts(q)
      PROVE  FileInv'
  BY <1>6, SwitchKeepsInv, BurialStartsKeepsInv
<1>7. ASSUME BurialCloses \/ BurialSkips \/ BurialEnds
      PROVE  FileInv'
  BY <1>7, BurialClosesKeepsInv, BurialSkipsKeepsInv, BurialEndsKeepsInv
<1> QED
  BY <1>1, <1>2, <1>3, <1>4, <1>5, <1>6, <1>7 DEF Next

\* Without preemption inside openFile and closeFile, the invariant holds always.
THEOREM FilesInvariant ==
    ASSUME ~Preempt
    PROVE  Spec => []FileInv
<1>1. Init => FileInv
  BY InitInv
<1>2. FileInv /\ [Next]_vars => FileInv'
  BY NextKeepsInv
<1> QED
  BY <1>1, <1>2, PTL DEF Spec

\* The tables, the Files, the nodes and the burials keep their types: in
\* particular no reference count of a File or of a node goes below zero.
THEOREM FilesTyped ==
    ASSUME ~Preempt
    PROVE  Spec => []TypeOK
<1>1. FileInv => TypeOK
  BY DEF FileInv
<1> QED
  BY <1>1, FilesInvariant, PTL

\* No descriptor of any process ever designates a File that openFile's and
\* closeFile's counting, fork, exit and burial have led to delete.
THEOREM DescriptorsDesignateFiles ==
    ASSUME ~Preempt
    PROVE  Spec => [](NoDanglingDescriptor /\ CountsCoverDescriptors)
<1>1. FileInv => NoDanglingDescriptor /\ CountsCoverDescriptors
  BY DEF FileInv
<1> QED
  BY <1>1, FilesInvariant, PTL

\* A node is not released while a File of it is open, and what devfs remembers
\* as the File of a device is an open File of that device.
THEOREM NodesOutliveFiles ==
    ASSUME ~Preempt
    PROVE  Spec => [](NodeOutlivesFiles /\ RememberedFileExists)
<1>1. FileInv => NodeOutlivesFiles /\ RememberedFileExists
  BY DEF FileInv
<1> QED
  BY <1>1, FilesInvariant, PTL

\* The steps that change a File change one that has not been deleted.
LEMMA DeletedFileKept ==
    ASSUME FileInv, Next, NEW f \in DOMAIN file, file[f].deleted
    PROVE  file'[f] = file[f]
<1> USE DEF FileInv
<1>0. file \in Seq([vnode : Nodes, refs : Nat, deleted : BOOLEAN])
  BY DEF TypeOK
<1>1. ASSUME NEW p \in Procs, NEW n \in Nodes, OpensNew(p, n)
      PROVE  file'[f] = file[f]
  BY <1>0, <1>1 DEF OpensNew
<1>2. ASSUME NEW p \in Procs, NEW i \in 1 .. MaxFds, CloseStarts(p, i)
      PROVE  file'[f] = file[f]
  <2>1. /\ i \in DOMAIN fds[p]
        /\ file' = [file EXCEPT ![fds[p][i]].refs = @ - 1]
        /\ burial = NoBurial
    BY <1>2 DEF CloseStarts, Enters, Executes
  <2>2. fds[p][i] # f
    <3>1. <<p, i>> \notin DescriptorsOf(f)
      BY DEF NoDanglingDescriptor
    <3>2. p # burial.zombie
      BY <2>1, VfsAssumption DEF NoBurial, VfsAssumption
    <3> QED
      BY <2>1, <3>1, <3>2 DEF DescriptorsOf
  <2> QED
    BY <2>1, <2>2
<1>3. ASSUME NEW p \in Procs, OpenEnds(p) \/ CloseEnds(p)
      PROVE  file'[f] = file[f]
  <2>1. call[p] # Idle
    BY <1>3 DEF OpenEnds, CloseEnds, Idle
  <2>2. call[p].file # f
    BY <2>1 DEF InHandExists
  <2>3. CASE OpenEnds(p)
    BY <2>2, <2>3 DEF OpenEnds
  <2>4. CASE CloseEnds(p)
    BY <2>2, <2>4 DEF CloseEnds
  <2> QED
    BY <1>3, <2>3, <2>4
<1>4. ASSUME NEW p \in Procs, NEW c \in Procs, Fork(p, c)
      PROVE  file'[f] = file[f]
  <2>1. file'[f] = [file[f] EXCEPT !.refs = @ + Shared(fds[p], f)]
    BY <1>4 DEF Fork
  <2>2. burial.zombie # p
    BY <1>4, VfsAssumption DEF Fork, Enters, Executes, NoBurial, VfsAssumption
  <2>3. \A i \in DOMAIN fds[p] : fds[p][i] # f
    <3> TAKE i \in DOMAIN fds[p]
    <3>1. i \in 1 .. MaxFds
      BY TypeFacts, VfsAssumption DEF VfsAssumption
    <3>2. <<p, i>> \notin DescriptorsOf(f)
      BY DEF NoDanglingDescriptor
    <3> QED
      BY <2>2, <3>1, <3>2 DEF DescriptorsOf
  <2>4. Shared(fds[p], f) = 0
    <3>1. {i \in DOMAIN fds[p] : fds[p][i] = f} = {}
      BY <2>3
    <3> QED
      BY <3>1, FS_EmptySet DEF Shared
  <2>5. /\ file[f] \in [vnode : Nodes, refs : Nat, deleted : BOOLEAN]
        /\ file[f].refs \in Nat
    BY TypeFacts
  <2>6. file[f].refs + 0 = file[f].refs
    BY <2>5
  <2> HIDE DEF FileInv
  <2>7. [file[f] EXCEPT !.refs = file[f].refs] = file[f]
    BY <2>5
  <2> QED
    BY <2>1, <2>4, <2>6, <2>7
<1>5. ASSUME BurialCloses
      PROVE  file'[f] = file[f]
  <2>1. /\ burial.zombie # Nobody
        /\ burial.slot \in DOMAIN fds[burial.zombie]
    BY <1>5 DEF BurialCloses
  <2>2. burial \in [zombie : Procs, slot : Nat \ {0}]
    BY <2>1 DEF TypeOK, NoBurial
  <2>3. burial.slot \in 1 .. MaxFds
    BY <2>1, <2>2, TypeFacts, VfsAssumption DEF VfsAssumption
  <2>4. fds[burial.zombie][burial.slot] # f
    <3>1. <<burial.zombie, burial.slot>> \notin DescriptorsOf(f)
      BY DEF NoDanglingDescriptor
    <3> QED
      BY <2>1, <2>2, <2>3, <3>1 DEF DescriptorsOf
  <2> QED
    BY <1>5, <2>4 DEF BurialCloses
<1>6. ASSUME \/ \E p \in Procs, n \in Nodes : OpensShared(p, n)
             \/ \E p \in Procs : Exec(p) \/ Exit(p) \/ Switch(p) \/ BurialStarts(p)
             \/ BurialSkips \/ BurialEnds
      PROVE  file'[f] = file[f]
  BY <1>6 DEF OpensShared, Exec, Exit, Switch, BurialStarts, BurialSkips, BurialEnds
<1> QED
  BY <1>1, <1>2, <1>3, <1>4, <1>5, <1>6 DEF Next

\* closeFile and burial delete a File once, and nothing counts, closes or
\* writes it afterwards.
THEOREM FilesDeletedOnce ==
    ASSUME ~Preempt
    PROVE  Spec => DeletedOnce
<1> DEFINE Kept == \A f \in DOMAIN file : file[f].deleted => file'[f] = file[f]
<1>1. FileInv /\ [Next]_vars => [Kept]_vars
  BY DeletedFileKept
<1>2. Spec => []FileInv
  BY FilesInvariant
<1> HIDE DEF Kept
<1>3. Spec => [][Kept]_vars
  BY <1>1, <1>2, PTL DEF Spec
<1> QED
  BY <1>3 DEF DeletedOnce, Kept

\* What PrivateDescriptorsKept allows to happen to slot i of process p.
Lawful(p, i) ==
    LET f == fds[p][i] IN
    (/\ status[p] = "alive"
     /\ f # null
     /\ ~(i \in DOMAIN fds'[p] /\ fds'[p][i] = f))
    => \/ call[p] = Idle /\ call'[p] = [at |-> "close", file |-> f]
       \/ p = current /\ burial # NoBurial /\ Holds(fds[burial.zombie], f)

\* Only a close of the File, or a burial, takes a descriptor from a live
\* process: open, fork, exec and exit leave it where it is.
LEMMA DescriptorKept ==
    ASSUME FileInv, Next, NEW p \in Procs, NEW i \in DOMAIN fds[p]
    PROVE  Lawful(p, i)
<1> DEFINE f == fds[p][i]
           Kept == i \in DOMAIN fds'[p] /\ fds'[p][i] = f
<1> SUFFICES ASSUME status[p] = "alive", f # null, ~Kept
             PROVE  \/ call[p] = Idle /\ call'[p] = [at |-> "close", file |-> f]
                    \/ p = current /\ burial # NoBurial /\ Holds(fds[burial.zombie], f)
  BY DEF Lawful
<1>0. /\ TypeOK
      /\ MaxFds \in Nat
  BY VfsAssumption DEF FileInv, VfsAssumption
<1>1. /\ fds \in [Procs -> Seq({null} \cup DOMAIN file)]
      /\ call \in [Procs -> {Idle} \cup [at : {"open", "close"}, file : DOMAIN file]]
      /\ \A q \in Procs : Len(fds[q]) <= MaxFds
      /\ i \in 1 .. Len(fds[p]) /\ Len(fds[p]) \in Nat
      /\ fds[p] \in Seq({null} \cup DOMAIN file)
  BY <1>0 DEF TypeOK
<1>2. fds'[p] # fds[p]
  OBVIOUS
<1> HIDE DEF Kept
<1>3. ASSUME NEW q \in Procs, OpenEnds(q)
      PROVE  Kept
  <2> DEFINE g == call[q].file
  <2>1. q = p /\ fds'[p] = AddFileDescriptor(fds[p], g)
    BY <1>1, <1>2, <1>3 DEF OpenEnds
  <2>2. /\ call[p].at = "open"
        /\ Holds(fds[p], null) \/ Len(fds[p]) < MaxFds
        /\ g \in DOMAIN file
    BY <1>1, <1>3, <2>1 DEF OpenEnds, FileInv, InHandExists, Idle
  <2> DEFINE t == AddFileDescriptor(fds[p], g)
  <2> HIDE DEF g
  <2>3. /\ t \in Seq({null} \cup DOMAIN file)
        /\ Len(t) \in Len(fds[p]) .. MaxFds
        /\ Fills(fds[p], t, g)
    BY <1>0, <1>1, <2>2, AddFills
  <2> HIDE DEF t
  <2>4. i \in DOMAIN t /\ t[i] = f
    BY <1>1, <2>3 DEF Fills
  <2> QED
    BY <2>1, <2>4 DEF Kept, t
<1>4. ASSUME NEW q \in Procs, NEW j \in 1 .. MaxFds, CloseStarts(q, j)
      PROVE  call[p] = Idle /\ call'[p] = [at |-> "close", file |-> f]
  <2>1. /\ q = p
        /\ fds'[p] = RemoveFileDescriptor(fds[p], fds[p][j])
        /\ call[p] = Idle
        /\ call'[p] = [at |-> "close", file |-> fds[p][j]]
    BY <1>1, <1>2, <1>4 DEF CloseStarts, Enters
  <2> DEFINE t == RemoveFileDescriptor(fds[p], fds[p][j])
  <2>2. /\ t \in Seq({null} \cup DOMAIN file)
        /\ Len(t) = Len(fds[p])
        /\ \A k \in 1 .. Len(fds[p]) : t[k] # fds[p][k] => fds[p][k] = fds[p][j]
    BY <1>1, RemoveEmpties
  <2> HIDE DEF t
  <2>3. i \in DOMAIN t /\ t[i] # f
    BY <1>1, <2>1, <2>2 DEF Kept, t
  <2> QED
    BY <1>1, <2>1, <2>2, <2>3
<1>5. ASSUME NEW q \in Procs, Exec(q)
      PROVE  Kept
  BY <1>1, <1>2, <1>5 DEF Exec, Kept
<1>6. ASSUME NEW q \in Procs, NEW c \in Procs, Fork(q, c)
      PROVE  Kept
  BY <1>1, <1>2, <1>6 DEF Fork
<1>7. ASSUME BurialCloses
      PROVE  p = current /\ burial # NoBurial /\ Holds(fds[burial.zombie], f)
  <2> DEFINE g == fds[burial.zombie][burial.slot]
             t == RemoveFileDescriptor(fds[p], g)
  <2>1. /\ burial # NoBurial
        /\ burial.slot \in DOMAIN fds[burial.zombie]
        /\ fds' = [fds EXCEPT ![current] = RemoveFileDescriptor(@, g)]
    BY <1>7 DEF BurialCloses, NoBurial
  <2>2. p = current /\ fds'[p] = t
    BY <1>1, <1>2, <2>1
  <2>3. Holds(fds[burial.zombie], g)
    BY <2>1 DEF Holds
  <2> HIDE DEF g
  <2>4. /\ t \in Seq({null} \cup DOMAIN file)
        /\ Len(t) = Len(fds[p])
        /\ \A k \in 1 .. Len(fds[p]) : t[k] # fds[p][k] => fds[p][k] = g
    BY <1>1, RemoveEmpties
  <2> HIDE DEF t
  <2>5. f = g
    BY <1>1, <2>2, <2>4 DEF Kept
  <2> QED
    BY <2>1, <2>2, <2>3, <2>5
<1>8. ASSUME BurialEnds
      PROVE  Kept
  <2>1. /\ fds' = [fds EXCEPT ![burial.zombie] = <<>>]
        /\ status[burial.zombie] = "dead"
    BY <1>0, <1>8 DEF BurialEnds, TypeOK, NoBurial
  <2> QED
    BY <1>1, <1>2, <2>1
<1>9. ASSUME \/ \E q \in Procs, n \in Nodes : OpensShared(q, n) \/ OpensNew(q, n)
             \/ \E q \in Procs : \/ CloseEnds(q) \/ Exit(q) \/ Switch(q)
                                 \/ BurialStarts(q)
             \/ BurialSkips
      PROVE  Kept
  BY <1>2, <1>9 DEF OpensShared, OpensNew, CloseEnds, Exit, Switch, BurialStarts,
                    BurialSkips
<1> QED
  BY <1>3, <1>4, <1>5, <1>6, <1>7, <1>8, <1>9 DEF Next

\* A live process loses a descriptor only by its own close of that File, or to
\* the burial, in a timer handler that has interrupted it, of a process that
\* has the same File.
THEOREM PrivateDescriptorsStay ==
    ASSUME ~Preempt
    PROVE  Spec => PrivateDescriptorsKept
<1> DEFINE AllLawful == \A p \in Procs : \A i \in DOMAIN fds[p] : Lawful(p, i)
<1>1. FileInv /\ [Next]_vars => [AllLawful]_vars
  BY DescriptorKept
<1>2. Spec => []FileInv
  BY FilesInvariant
<1> HIDE DEF AllLawful
<1>3. Spec => [][AllLawful]_vars
  BY <1>1, <1>2, PTL DEF Spec
<1> QED
  BY <1>3 DEF PrivateDescriptorsKept, AllLawful, Lawful

=============================================================================
