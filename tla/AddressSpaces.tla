---- MODULE AddressSpaces ----
(***************************************************************************)
(* The address spaces of processes and the frames behind them: page tables *)
(* (mem/pml4t.cpp, mem/page.cpp), the image, heap and stack of a process   *)
(* (proc/elf.cpp, procheap.cpp, lib/stack.hpp), their copy at fork, their  *)
(* replacement at exec, and what the undertaker gives back.                *)
(*                                                                         *)
(* A space is the function from paths to frames: the root <<>>, tables at  *)
(* paths of one to three indices, pages at four.  The kernel's half, which *)
(* spaces share, flags and contents of pages are left out.  Fork, exec and *)
(* lastpg run with interrupts off.  The machine stops when no frame is     *)
(* left: allocateFrame panics.                                             *)
(***************************************************************************)
EXTENDS Integers, Sequences, FiniteSets

CONSTANTS MaxPid,      \* bound on the processes created
          FrameCount,  \* frames
          Images,      \* sizes of programs, in pages
          HeapLimit,   \* pages of image and heap: USER_HEAP_LIMIT
          MaxCalls     \* bound on the system calls made

\* There is memory for the first process.
ASSUME SpacesAssumption ==
  /\ MaxPid \in Nat \ {0} /\ FrameCount \in Nat /\ HeapLimit \in Nat
  /\ \A size \in Images : size \in Nat /\ FrameCount >= 4 * size + 6

VARIABLES free, last_allocated,   \* the frame allocator
          space, kernel_stack, image, heap, status,   \* of each process
          current,                \* current_process
          cr3,                    \* the root the CPU uses
          fresh,                  \* the space exec is making
          stage,                  \* how far exec is
          calls                   \* system calls made
spacesVars == <<free, last_allocated, space, kernel_stack, image, heap, status, current, cr3,
                fresh, stage, calls>>

Pids == 1..MaxPid
Frames == 0..(FrameCount - 1)
None == -1
NoSpace == <<>>

\* Two entries per table are enough to fill and to empty one.
UserPage(n) == <<0, 0, n \div 2, n % 2>>
StackPages == <<<<1, 1, 1, 1>>>>
Pages(from, to) == [i \in 1..(to - from) |-> UserPage(from + i - 1)]

----------------------------------------------------------------------------
(* Operations work on m: the free frames, the last one taken and a space. *)

Least(S) == CHOOSE f \in S : \A g \in S : f <= g

\* allocateFrame: next fit from the frame taken last, which m.last then is.
Taken(m) ==
  LET ahead == {f \in m.free : f >= m.last}
      f == Least(IF ahead = {} THEN m.free ELSE ahead)
  IN [m EXCEPT !.free = @ \ {f}, !.last = f]

With(m, path, frame) ==
  [m EXCEPT !.space = [q \in DOMAIN m.space \union {path} |->
                         IF q = path THEN frame ELSE m.space[q]]]

NewSpace(m) == LET t == Taken(m) IN [t EXCEPT !.space = [q \in {<<>>} |-> t.last]]

getOrCreateTable(m, path) ==
  IF path \in DOMAIN m.space THEN m ELSE LET t == Taken(m) IN With(t, path, t.last)

\* mapPage leaves a page alone that is there already.
mapPage(m, vaddr, frame) ==
  LET Table(n, level) == getOrCreateTable(n, SubSeq(vaddr, 1, level))
      t == Table(Table(Table(m, 1), 2), 3)
  IN IF vaddr \in DOMAIN t.space THEN t ELSE With(t, vaddr, frame)

\* A frame for each page in turn: loadElf, Stack, Stack::reset, ProcessHeap::extend.
MapPages(m, pages) ==
  LET after[k \in 0..Len(pages)] ==
        IF k = 0 THEN m ELSE LET t == Taken(after[k - 1]) IN mapPage(t, pages[k], t.last)
  IN after[Len(pages)]

Children(s, path) == {q \in DOMAIN s : Len(q) = Len(path) + 1 /\ SubSeq(q, 1, Len(path)) = path}

\* A table that has no entries is given back.
ClearTable(m, path) ==
  IF path \notin DOMAIN m.space \/ Children(m.space, path) # {} THEN m
  ELSE [m EXCEPT !.free = @ \union {m.space[path]},
                 !.space = [q \in DOMAIN m.space \ {path} |-> m.space[q]]]

\* unmapPage forgets the frame of the page and frees the tables it empties.
unmapPage(m, vaddr) ==
  IF SubSeq(vaddr, 1, 3) \notin DOMAIN m.space THEN m
  ELSE LET Clear(n, level) == ClearTable(n, SubSeq(vaddr, 1, level))
       IN Clear(Clear(Clear([m EXCEPT !.space = [q \in DOMAIN m.space \ {vaddr} |-> m.space[q]]],
                            3), 2), 1)

\* The pages in turn, from the last one on.
UnmapPages(m, pages) ==
  LET after[k \in 0..Len(pages)] ==
        IF k = 0 THEN m ELSE unmapPage(after[k - 1], pages[Len(pages) - k + 1])
  IN after[Len(pages)]

FramesOf(s) == {s[q] : q \in DOMAIN s}

\* Mutant of destroy: the pages are forgotten, the tables given back.
destroyTables(m) ==
  [m EXCEPT !.free = @ \union {m.space[q] : q \in {r \in DOMAIN m.space : Len(r) < 4}},
            !.space = NoSpace]

destroy(m) == [m EXCEPT !.free = @ \union FramesOf(m.space), !.space = NoSpace]

\* Entries in the order of ptDeepCopy: a table, then what it leads to.
Precedes(r, q) ==
  LET At(path, i) == IF i <= Len(path) THEN path[i] + 1 ELSE 0
  IN \E n \in 1..4 : At(r, n) < At(q, n) /\ \A i \in 1..(n - 1) : At(r, i) = At(q, i)
Before(s, q) == {r \in DOMAIN s : Precedes(r, q)}
EntriesOf(s) ==
  [i \in 1..Cardinality(DOMAIN s) |-> CHOOSE q \in DOMAIN s : Cardinality(Before(s, q)) = i - 1]

\* Mutant of ptDeepCopy: the pages are shared.
ptShallowCopy(m, s) ==
  LET entries == EntriesOf(s)
      copied[k \in 0..Len(entries)] ==
        IF k = 0 THEN [m EXCEPT !.space = NoSpace]
        ELSE IF Len(entries[k]) = 4 THEN With(copied[k - 1], entries[k], s[entries[k]])
        ELSE LET t == Taken(copied[k - 1]) IN With(t, entries[k], t.last)
  IN copied[Len(entries)]

\* PML4T::init(parent), ptDeepCopy: new tables and new pages.
ptDeepCopy(m, s) ==
  LET entries == EntriesOf(s)
      copied[k \in 0..Len(entries)] ==
        IF k = 0 THEN [m EXCEPT !.space = NoSpace]
        ELSE LET t == Taken(copied[k - 1]) IN With(t, entries[k], t.last)
  IN copied[Len(entries)]

----------------------------------------------------------------------------

Memory(s) == [free |-> free, last |-> last_allocated, space |-> s]
Took(m) == free' = m.free /\ last_allocated' = m.last
Alive == {p \in Pids : status[p] = "alive"}
Runs(p) == stage = "none" /\ current = p /\ status[p] = "alive"
Calls(p) == Runs(p) /\ calls < MaxCalls /\ calls' = calls + 1
Unborn == {p \in Pids : status[p] = "unborn"}

\* Bound: no call is made that could find no frame left, with four frames for a page.
Enough(n) == Cardinality(free) >= n

\* fork: the copy of the space, then the kernel stack of the child.
forks(p) ==
  /\ Calls(p) /\ Unborn # {} /\ Enough(Cardinality(DOMAIN space[p]) + 1)
  /\ LET child == Least(Unborn)
         m == ptDeepCopy(Memory(NoSpace), space[p])
         t == Taken(m)
     IN /\ Took(t)
        /\ space' = [space EXCEPT ![child] = m.space]
        /\ kernel_stack' = [kernel_stack EXCEPT ![child] = t.last]
        /\ image' = [image EXCEPT ![child] = image[p]]
        /\ heap' = [heap EXCEPT ![child] = heap[p]]
        /\ status' = [status EXCEPT ![child] = "alive"]
  /\ UNCHANGED <<current, cr3, fresh, stage>>

\* exec of a file that is not a program: the root made for it is forgotten.
execFails(p) ==
  /\ Calls(p) /\ Enough(1)
  /\ Took(NewSpace(Memory(NoSpace)))
  /\ UNCHANGED <<space, kernel_stack, image, heap, status, current, cr3, fresh, stage>>

\* exec: a root, and the pages loadElf fills.
execLoads(p, size) ==
  /\ Calls(p) /\ Enough(4 * size + 1)
  /\ LET m == MapPages(NewSpace(Memory(NoSpace)), Pages(0, size))
     IN Took(m) /\ fresh' = m.space
  /\ image' = [image EXCEPT ![p] = size] /\ stage' = "loaded"
  /\ UNCHANGED <<space, kernel_stack, heap, status, current, cr3>>

\* switchPml4t and resetHeap: the old space, which the CPU still uses, is given back.
switchPml4t(p) ==
  /\ stage = "loaded" /\ current = p
  /\ Took(destroy(Memory(space[p])))
  /\ space' = [space EXCEPT ![p] = fresh] /\ fresh' = NoSpace
  /\ heap' = [heap EXCEPT ![p] = 0] /\ stage' = "switched"
  /\ UNCHANGED <<kernel_stack, image, status, current, cr3, calls>>

\* resetStack and loadPml4t.
execEnters(p) ==
  /\ stage = "switched" /\ current = p /\ Enough(4)
  /\ LET m == MapPages(Memory(space[p]), StackPages)
     IN Took(m) /\ space' = [space EXCEPT ![p] = m.space] /\ cr3' = m.space[<<>>]
  /\ stage' = "none"
  /\ UNCHANGED <<kernel_stack, image, heap, status, current, fresh, calls>>

\* ProcessHeap::extend: the page behind the last one is the next to be mapped.
extend(p, count) ==
  /\ Calls(p) /\ image[p] + heap[p] + count <= HeapLimit /\ Enough(4 * count)
  /\ LET m == MapPages(Memory(space[p]),
                       Pages(image[p] + heap[p], image[p] + heap[p] + count))
     IN Took(m) /\ space' = [space EXCEPT ![p] = m.space]
  /\ heap' = [heap EXCEPT ![p] = @ + count]
  /\ UNCHANGED <<kernel_stack, image, status, current, cr3, fresh, stage>>

\* ProcessHeap::shorten, from the last page downwards.
shorten(p, count) ==
  /\ Calls(p) /\ heap[p] - count >= 0
  /\ LET m == UnmapPages(Memory(space[p]),
                         Pages(image[p] + heap[p] - count, image[p] + heap[p]))
     IN Took(m) /\ space' = [space EXCEPT ![p] = m.space]
  /\ heap' = [heap EXCEPT ![p] = @ - count]
  /\ UNCHANGED <<kernel_stack, image, status, current, cr3, fresh, stage>>

----------------------------------------------------------------------------

\* A context switch loads the page tables of the successor.
loadPml4t(p) ==
  /\ stage = "none" /\ status[p] = "alive" /\ current # p
  /\ current' = p /\ cr3' = space[p][<<>>]
  /\ UNCHANGED <<free, last_allocated, space, kernel_stack, image, heap, status, fresh, stage, calls>>

dies(p) ==
  /\ Runs(p) /\ status' = [status EXCEPT ![p] = "dead"]
  /\ UNCHANGED <<free, last_allocated, space, kernel_stack, image, heap, current, cr3, fresh, stage, calls>>

\* Mutant of undertaker: it does what its comment says in step 2.
undertakerDestroys(p) ==
  /\ status[p] = "dead" /\ stage = "none" /\ (current # p \/ Alive = {})
  /\ free' = free \union {kernel_stack[p]} \union FramesOf(space[p])
  /\ space' = [space EXCEPT ![p] = NoSpace]
  /\ kernel_stack' = [kernel_stack EXCEPT ![p] = None]
  /\ status' = [status EXCEPT ![p] = "buried"]
  /\ current' = IF current = p THEN 0 ELSE current
  /\ UNCHANGED <<last_allocated, image, heap, cr3, fresh, stage, calls>>

\* undertaker: the kernel stack is given back, the page tables are not.  Without
\* a successor it runs on what it buries.
undertaker(p) ==
  /\ status[p] = "dead" /\ stage = "none" /\ (current # p \/ Alive = {})
  /\ free' = free \union {kernel_stack[p]}
  /\ space' = [space EXCEPT ![p] = NoSpace]
  /\ kernel_stack' = [kernel_stack EXCEPT ![p] = None]
  /\ status' = [status EXCEPT ![p] = "buried"]
  /\ current' = IF current = p THEN 0 ELSE current
  /\ UNCHANGED <<last_allocated, image, heap, cr3, fresh, stage, calls>>

\* spawn of the first process: root, image, user stack, kernel stack.
SpacesInit ==
  \E size \in Images :
    LET m == MapPages(NewSpace([free |-> Frames, last |-> 0, space |-> NoSpace]),
                      Pages(0, size) \o StackPages)
        t == Taken(m)
    IN /\ free = t.free /\ last_allocated = t.last
       /\ space = [p \in Pids |-> IF p = 1 THEN m.space ELSE NoSpace]
       /\ kernel_stack = [p \in Pids |-> IF p = 1 THEN t.last ELSE None]
       /\ image = [p \in Pids |-> size] /\ heap = [p \in Pids |-> 0]
       /\ status = [p \in Pids |-> IF p = 1 THEN "alive" ELSE "unborn"]
       /\ current = 1 /\ cr3 = m.space[<<>>]
       /\ fresh = NoSpace /\ stage = "none" /\ calls = 0

SpacesNext ==
  \E p \in Pids :
    \/ forks(p) \/ execFails(p) \/ switchPml4t(p) \/ execEnters(p)
    \/ loadPml4t(p) \/ dies(p) \/ undertaker(p)
    \/ \E size \in Images : execLoads(p, size)
    \/ \E count \in 1..2 : extend(p, count) \/ shorten(p, count)

----------------------------------------------------------------------------

Standing == {p \in Pids : space[p] # NoSpace}

\* What each process holds, and what exec holds, as 0.
Holds(p) == IF p = 0 THEN FramesOf(fresh)
            ELSE IF p \in Standing THEN FramesOf(space[p]) \union {kernel_stack[p]} ELSE {}
Used == UNION {Holds(p) : p \in 0..MaxPid}
Lost == Frames \ (free \union Used)

\* The number of its uses for frames.
Uses(p) == IF p = 0 THEN Cardinality(DOMAIN fresh)
           ELSE Cardinality(DOMAIN space[p]) + (IF p \in Standing THEN 1 ELSE 0)

UserPages(p) ==
  {UserPage(n) : n \in 0..(image[p] + heap[p] - 1)} \union {StackPages[1]}

\* Every process has the pages of its image, heap and stack and no others, tables
\* that all lead to a page, and no frame that is free or another's or serves it twice,
\* over any sequence of fork, exec, lastpg and burials (pml4t.cpp, page.cpp, procheap.cpp).
SpacesWhole ==
  /\ \A p \in Standing :
       /\ stage = "none" \/ p # current => {q \in DOMAIN space[p] : Len(q) = 4} = UserPages(p)
       /\ \A q \in DOMAIN space[p] :
            /\ \A n \in 0..Len(q) : SubSeq(q, 1, n) \in DOMAIN space[p]
            /\ Len(q) \in {0, 4} \/ Children(space[p], q) # {}
  /\ free \intersect Used = {}
  /\ \A p \in 0..MaxPid :
       /\ Cardinality(Holds(p)) = Uses(p)
       /\ \A r \in 0..MaxPid : p # r => Holds(p) \intersect Holds(r) = {}

\* The tables the CPU uses are not given away (exec.cpp, scheduler.cpp): only exec
\* does so, between switchPml4t and loadPml4t.  The last burial runs on the tables of
\* the process it buries; they stand because the undertaker does not destroy them.
LoadedTablesStand == stage = "switched" \/ cr3 \notin free

\* What no process has and the allocator does not know is lost.  A page that shorten
\* unmaps is, the root of an exec that fails, and the space of a process that is buried
\* (scheduler.cpp, undertaker: "Step 2: destroy the process' page tables"); nothing else.
FramesLostOnlyWhen ==
  [][ /\ Lost \subseteq Lost'
      /\ \/ Lost' = Lost
         \/ \E p \in Pids : /\ status'[p] # status[p]
                            /\ Lost' \ Lost = FramesOf(space[p])
         \/ \E p \in Pids : Cardinality(Lost' \ Lost) = heap[p] - heap'[p] /\ stage' = "none"
         \/ Cardinality(Lost' \ Lost) = 1 /\ UNCHANGED <<space, kernel_stack, stage>>
    ]_spacesVars
====
