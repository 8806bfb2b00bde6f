---------------------------------- MODULE Pmm ----------------------------------
(***************************************************************************)
(* The physical memory manager of the Kiwi kernel: mem/pmm.cpp on top of   *)
(* StaticBitmapAllocator (include/mem/allocators/static_bitmap.hpp) and    *)
(* StaticBitmap (include/lib/bitmap.hpp).                                  *)
(*                                                                         *)
(* A frame is its number.  Bits of the bitmap are tested, set and cleared  *)
(* in one step; everything between two accesses to the allocator's fields  *)
(* is a step of its own, because system calls run with interrupts enabled: *)
(* with Preempt, another caller may run between any two of them.           *)
(***************************************************************************)
EXTENDS Integers

CONSTANTS
    Size,       \* frames the bitmap has a bit for (MAX_FRAMES)
    Usable,     \* frames of usable memory in the boot loader's memory map
    Threads,    \* callers of allocateFrame and freeFrame
    Preempt     \* callers may be preempted inside the allocator

ASSUME PmmAssumption ==
    /\ Size \in Nat \ {0}
    /\ Usable \subseteq Nat
    /\ Preempt \in BOOLEAN

Frames == 0 .. (Size - 1)

\* Where a caller may be in allocate() or free().
Points == {"idle", "test", "advance", "wrap", "loop", "set", "return",
           "check", "clear"}

VARIABLES
    bitmap,           \* allocator.bitmap: the frames whose bit is set
    last_allocated,   \* allocator.last_allocated
    start,            \* the local of allocate() in each caller, 0 outside it
    arg,              \* the frame that free() is to release, 0 outside it
    pc,               \* where each caller is in the allocator
    held,             \* the frames that each caller has got
    panic             \* the message of Panic::panic, after which all stops

vars == <<bitmap, last_allocated, start, arg, pc, held, panic>>

-----------------------------------------------------------------------------
\* Mutants of Set and Clear: the result is not written back.
SetNothing(f) == bitmap' = bitmap
ClearNothing(f) == bitmap' = bitmap

\* StaticBitmap: a bit that is out of range reads as clear, and setting or
\* clearing it does nothing.
Test(f)  == f \in bitmap
Set(f)   == bitmap' = IF f < Size THEN bitmap \cup {f} ELSE bitmap
Clear(f) == bitmap' = bitmap \ {f}

\* init(): all bits are set, then those of usable frames are cleared.
Init ==
    /\ bitmap = Frames \ Usable
    /\ last_allocated = 0
    /\ start = [t \in Threads |-> 0]
    /\ arg = [t \in Threads |-> 0]
    /\ pc = [t \in Threads |-> "idle"]
    /\ held = [t \in Threads |-> {}]
    /\ panic = "none"

\* Caller t stands at `point' and may go on.
At(t, point) ==
    /\ panic = "none"
    /\ pc[t] = point
    /\ Preempt \/ \A u \in Threads \ {t} : pc[u] = "idle"

Goto(t, point) == pc' = [pc EXCEPT ![t] = point]

-----------------------------------------------------------------------------
(* allocate(1): next fit from the frame of the last allocation. *)

\* allocateFrame() is called.
AllocateStarts(t) ==
    /\ At(t, "idle")
    /\ start' = [start EXCEPT ![t] = last_allocated]
    /\ Goto(t, "test")
    /\ UNCHANGED <<bitmap, last_allocated, arg, held, panic>>

\* The frame is free, or the scan goes on.
AllocateTests(t) ==
    /\ At(t, "test")
    /\ Goto(t, IF Test(last_allocated) THEN "advance" ELSE "set")
    /\ UNCHANGED <<bitmap, last_allocated, start, arg, held, panic>>

\* The scan moves to the next frame.
AllocateAdvances(t) ==
    /\ At(t, "advance")
    /\ last_allocated' = last_allocated + 1
    /\ Goto(t, "wrap")
    /\ UNCHANGED <<bitmap, start, arg, held, panic>>

\* Past the last frame it goes on at the first.
AllocateWraps(t) ==
    /\ At(t, "wrap")
    /\ last_allocated' = IF last_allocated >= Size THEN 0 ELSE last_allocated
    /\ Goto(t, "loop")
    /\ UNCHANGED <<bitmap, start, arg, held, panic>>

\* Mutants of AllocateLoops: the scan ends at frame 0, or never.
AllocateLoopsAtZero(t) ==
    /\ At(t, "loop")
    /\ IF last_allocated # 0
       THEN Goto(t, "test") /\ UNCHANGED panic
       ELSE panic' = "out of memory" /\ UNCHANGED pc
    /\ UNCHANGED <<bitmap, last_allocated, start, arg, held>>

AllocateLoopsForever(t) ==
    /\ At(t, "loop")
    /\ Goto(t, "test")
    /\ UNCHANGED <<bitmap, last_allocated, start, arg, held, panic>>

\* Back where the scan started, nothing has been found.
AllocateLoops(t) ==
    /\ At(t, "loop")
    /\ IF last_allocated # start[t]
       THEN Goto(t, "test") /\ UNCHANGED panic
       ELSE panic' = "out of memory" /\ UNCHANGED pc
    /\ UNCHANGED <<bitmap, last_allocated, start, arg, held>>

\* The frame found is marked.
AllocateSets(t) ==
    /\ At(t, "set")
    /\ Set(last_allocated)
    /\ Goto(t, "return")
    /\ UNCHANGED <<last_allocated, start, arg, held, panic>>

\* Mutant of AllocateReturns: the wrong local is returned.
AllocateReturnsStart(t) ==
    /\ At(t, "return")
    /\ held' = [held EXCEPT ![t] = @ \cup {start[t]}]
    /\ start' = [start EXCEPT ![t] = 0]
    /\ Goto(t, "idle")
    /\ UNCHANGED <<bitmap, last_allocated, arg, panic>>

\* The caller reads the frame's number from the field.
AllocateReturns(t) ==
    /\ At(t, "return")
    /\ held' = [held EXCEPT ![t] = @ \cup {last_allocated}]
    /\ start' = [start EXCEPT ![t] = 0]
    /\ Goto(t, "idle")
    /\ UNCHANGED <<bitmap, last_allocated, arg, panic>>

-----------------------------------------------------------------------------
(* free() *)

\* freeFrame() is called for a frame that somebody holds and gives up; the
\* kernel frees the stack of a dead process on another one.
FreeStarts(t) ==
    /\ At(t, "idle")
    /\ \E u \in Threads : \E f \in held[u] :
         /\ held' = [held EXCEPT ![u] = @ \ {f}]
         /\ arg' = [arg EXCEPT ![t] = f]
    /\ Goto(t, "check")
    /\ UNCHANGED <<bitmap, last_allocated, start, panic>>

FreeChecks(t) ==
    /\ At(t, "check")
    /\ IF Test(arg[t])
       THEN Goto(t, "clear") /\ UNCHANGED panic
       ELSE panic' = "double free" /\ UNCHANGED pc
    /\ UNCHANGED <<bitmap, last_allocated, start, arg, held>>

FreeClears(t) ==
    /\ At(t, "clear")
    /\ Clear(arg[t])
    /\ arg' = [arg EXCEPT ![t] = 0]
    /\ Goto(t, "idle")
    /\ UNCHANGED <<last_allocated, start, held, panic>>

Allocate(t) ==
    \/ AllocateStarts(t) \/ AllocateTests(t) \/ AllocateAdvances(t)
    \/ AllocateWraps(t) \/ AllocateLoops(t) \/ AllocateSets(t)
    \/ AllocateReturns(t)

Free(t) == FreeStarts(t) \/ FreeChecks(t) \/ FreeClears(t)

Next == \E t \in Threads : Allocate(t) \/ Free(t)

Spec == Init /\ [][Next]_vars

\* A caller inside the allocator goes on.
Inside(t) ==
    \/ AllocateTests(t) \/ AllocateAdvances(t) \/ AllocateWraps(t)
    \/ AllocateLoops(t) \/ AllocateSets(t) \/ AllocateReturns(t)
    \/ FreeChecks(t) \/ FreeClears(t)

FairSpec == Spec /\ \A t \in Threads : WF_vars(Inside(t))

-----------------------------------------------------------------------------
(* Properties. *)

\* The range of every variable.
TypeOK ==
    /\ bitmap \in SUBSET Frames
    /\ last_allocated \in 0 .. Size
    /\ start \in [Threads -> Frames]
    /\ arg \in [Threads -> Frames]
    /\ pc \in [Threads -> Points]
    /\ held \in [Threads -> SUBSET Frames]
    /\ panic \in {"none", "out of memory", "double free"}

\* No frame has two holders: neither a frame handed out twice nor one that is
\* handed out while another caller still holds it.
OneHolder == \A t, u \in Threads : t # u => held[t] \cap held[u] = {}

\* Only usable memory that the bitmap covers is handed out: never the kernel's
\* own frames, nor the address past the end of the bitmap.
OnlyUsable == \A t \in Threads : held[t] \subseteq Frames \cap Usable

\* Frames on their way between the bitmap and their holder.
InTransit ==
    {f \in Frames : \E t \in Threads :
                        \/ pc[t] = "return" /\ f = last_allocated
                        \/ pc[t] \in {"check", "clear"} /\ f = arg[t]}

\* No frame is lost: the bits set are those of memory that is not usable, of
\* the frames held and of the frame on its way.
NoFrameLost ==
    bitmap = (Frames \ Usable)
                 \cup ((UNION {held[t] : t \in Threads}) \cup InTransit)

\* static_bitmap.hpp, the assertion of free(): callers that free only what
\* they hold never meet the panic "double free".
NoDoubleFree == panic # "double free"

\* The kernel panics "out of memory" only if every usable frame it knows of is
\* taken: the cyclic scan misses none.
OutOfMemoryIsReal == panic = "out of memory" => bitmap = Frames

\* What FrameAllocator calls held, free and failed.
Memory == INSTANCE FrameAllocator WITH
    Usable <- Frames \cap Usable,
    free   <- Frames \ bitmap,
    held   <- [t \in Threads |-> held[t] \cup
                  (IF pc[t] = "return" THEN {last_allocated} ELSE {})],
    failed <- panic = "out of memory"

ImplementsFrameAllocator == Memory!Spec

\* A caller of allocateFrame or freeFrame gets out of the allocator, or the
\* machine is out of memory.
CallsReturn ==
    \A t \in Threads : (pc[t] # "idle") ~> (pc[t] = "idle" \/ panic # "none")

=============================================================================
