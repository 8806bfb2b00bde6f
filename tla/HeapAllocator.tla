---------------------------- MODULE HeapAllocator ----------------------------
(***************************************************************************)
(* The kernel heap: HeapAllocator (include/mem/allocators/heap.hpp), whose *)
(* blocks form a doubly linked list (include/lib/linked_list.hpp) and tile *)
(* the mapped pages.                                                       *)
(*                                                                         *)
(* Addresses count bytes from the base of the heap.  A block is known by   *)
(* the address of its header; `block' has the headers that are linked, and *)
(* a header that a merge absorbs is part of its neighbour's memory from    *)
(* then on.  One call runs at a time; each turn of a loop is a step.       *)
(***************************************************************************)
EXTENDS Integers, FiniteSets

CONSTANTS
    Page,       \* PAGE_SIZE
    Header,     \* sizeof(BlockHeader)
    Align,      \* alignment
    Sizes,      \* the sizes that callers ask for
    MaxPages,   \* bound: callers ask for no more than MaxPages pages can hold
    MaxLive     \* bound: callers hold no more than MaxLive areas

ASSUME HeapAssumption ==
    /\ Page \in Nat /\ Header \in Nat \ {0} /\ Align \in Nat \ {0}
    /\ Header % Align = 0 /\ Page % Align = 0 /\ Header + Align <= Page
    /\ Sizes \subseteq Nat
    /\ MaxPages \in Nat \ {0} /\ MaxLive \in Nat

Null == -1

VARIABLES
    block,      \* the BlockHeader at the address of each header
    pages,      \* pages
    cursor,     \* the block that the call in progress looks at
    pc,         \* where that call is
    n,          \* the parameter of allocate(), aligned
    need,       \* pages that allocate() has still to map
    extended,   \* allocate() has mapped pages
    area,       \* what callers hold: from pointers to their (aligned) sizes
    failure     \* "double free" (a panic), "null" (no memory), or "none"

call == <<cursor, pc, n, need, extended>>
vars == <<block, pages, call, area, failure>>

-----------------------------------------------------------------------------
AlignUp(val, to) == ((val + to - 1) \div to) * to

\* Where the memory of block a ends.
End(a) == a + Header + block[a].bytes

HeapEnd == Page * pages
LastPage == Page * (pages - 1)

\* init(): one page, one free block.
Init ==
    /\ block = [a \in {0} |-> [next |-> Null, prev |-> Null,
                               bytes |-> Page - Header, free |-> TRUE]]
    /\ pages = 1
    /\ cursor = 0
    /\ pc = "idle"
    /\ n = 0
    /\ need = 0
    /\ extended = FALSE
    /\ area = [p \in {} |-> 0]
    /\ failure = "none"

\* The call in progress stands at `point'.
At(point) == failure = "none" /\ pc = point

\* The headers with that of a added or replaced, and the back link of block b,
\* if there is one, set to c.
Put(a, hdr) == [x \in DOMAIN block \cup {a} |-> IF x = a THEN hdr ELSE block[x]]
Relink(headers, b, c) ==
    IF b = Null THEN headers ELSE [headers EXCEPT ![b].prev = c]

\* The call is over; its locals are gone.
Return ==
    /\ pc' = "idle"
    /\ cursor' = 0
    /\ n' = 0
    /\ need' = 0
    /\ extended' = FALSE

-----------------------------------------------------------------------------
(* allocate() *)

\* A caller asks for `size' bytes, within MaxPages and MaxLive.
AllocateStarts(size) ==
    /\ At("idle")
    /\ Cardinality(DOMAIN area) < MaxLive
    /\ n' = AlignUp(size, Align)
    /\ \/ HeapEnd + n' + Header <= Page * MaxPages
       \/ \E a \in DOMAIN block : block[a].free /\ block[a].bytes >= n'
    /\ pc' = "find"
    /\ UNCHANGED <<block, pages, cursor, need, extended, area, failure>>

\* Mutant of Fits: the flag is not looked at.
FitsTaken(a) == block[a].bytes >= n

\* A block of the scan of findFreeBlock.
Fits(a) == block[a].free /\ block[a].bytes >= n

FindContinues ==
    /\ At("find")
    /\ ~Fits(cursor)
    /\ block[cursor].next # Null
    /\ cursor' = block[cursor].next
    /\ UNCHANGED <<block, pages, pc, n, need, extended, area, failure>>

\* Mutant of RequiredPages: the header is forgotten.
RequiredPagesBare == AlignUp(n, Page) \div Page

RequiredPages == AlignUp(n + Header, Page) \div Page

\* No block fits: pages are mapped, once.
FindEnds ==
    /\ At("find")
    /\ ~Fits(cursor)
    /\ block[cursor].next = Null
    /\ IF extended
       THEN Return /\ failure' = "null"
       ELSE /\ need' = RequiredPages
            /\ extended' = TRUE
            /\ cursor' = 0
            /\ pc' = "extend"
            /\ UNCHANGED <<n, failure>>
    /\ UNCHANGED <<block, pages, area>>

\* extend(): the walk to the last block, LinkedList::last.
ExtendContinues ==
    /\ At("extend")
    /\ block[cursor].next # Null
    /\ cursor' = block[cursor].next
    /\ UNCHANGED <<block, pages, pc, n, need, extended, area, failure>>

\* extend(): one page goes to the last block, or becomes a block of its own.
Extend ==
    /\ At("extend")
    /\ block[cursor].next = Null
    /\ block' = IF block[cursor].free
                THEN [block EXCEPT ![cursor].bytes = @ + Page]
                ELSE [Put(HeapEnd, [next |-> Null, prev |-> cursor,
                                    bytes |-> Page - Header, free |-> TRUE])
                         EXCEPT ![cursor].next = HeapEnd]
    /\ pages' = pages + 1
    /\ need' = need - 1
    /\ cursor' = 0
    /\ pc' = IF need = 1 THEN "find" ELSE "extend"
    /\ UNCHANGED <<n, extended, area, failure>>

\* The headers after splitBlock(n) on the block found, which stays whole if
\* the rest is too small for a block.
SplitBlock ==
    LET hdr  == block[cursor]
        rest == cursor + Header + n
    IN  IF hdr.bytes - n >= Header + Align
        THEN Relink([Put(rest, [next |-> hdr.next, prev |-> cursor,
                                bytes |-> hdr.bytes - n - Header, free |-> TRUE])
                         EXCEPT ![cursor].next = rest, ![cursor].bytes = n],
                    hdr.next, rest)
        ELSE block

\* The block found is split, taken and handed out.
AllocateReturns ==
    /\ At("find")
    /\ Fits(cursor)
    /\ block' = [SplitBlock EXCEPT ![cursor].free = FALSE]
    /\ area' = [p \in DOMAIN area \cup {cursor + Header} |->
                   IF p = cursor + Header THEN n ELSE area[p]]
    /\ Return
    /\ UNCHANGED <<pages, failure>>

-----------------------------------------------------------------------------
(* free() *)

\* A caller gives back an area that it holds.
FreeStarts(p) ==
    /\ At("idle")
    /\ cursor' = p - Header
    /\ area' = [q \in DOMAIN area \ {p} |-> area[q]]
    /\ IF block[p - Header].free
       THEN failure' = "double free" /\ UNCHANGED <<block, pc>>
       ELSE /\ block' = [block EXCEPT ![p - Header].free = TRUE]
            /\ pc' = "merge next"
            /\ UNCHANGED failure
    /\ UNCHANGED <<pages, n, need, extended>>

\* Mutant of Absorb: the header is lost.
AbsorbBytes(a, b) ==
    LET merged == [block[a] EXCEPT !.bytes = @ + block[b].bytes,
                                   !.next = block[b].next]
    IN  Relink([x \in DOMAIN block \ {b} |-> IF x = a THEN merged ELSE block[x]],
               block[b].next, a)

\* The headers once block b, the one after a, has been absorbed by a.
Absorb(a, b) ==
    LET merged == [block[a] EXCEPT !.bytes = @ + Header + block[b].bytes,
                                   !.next = block[b].next]
    IN  Relink([x \in DOMAIN block \ {b} |-> IF x = a THEN merged ELSE block[x]],
               block[b].next, a)

FreeMergesNext ==
    LET next == block[cursor].next
    IN  /\ At("merge next")
        /\ block' = IF next # Null /\ block[next].free
                    THEN Absorb(cursor, next)
                    ELSE block
        /\ pc' = "merge prev"
        /\ UNCHANGED <<pages, cursor, n, need, extended, area, failure>>

\* Mutant of FreeMergesPrev: no merge.
FreeKeepsPrev ==
    /\ At("merge prev")
    /\ cursor' = 0
    /\ pc' = "shorten"
    /\ UNCHANGED <<block, pages, n, need, extended, area, failure>>

FreeMergesPrev ==
    LET prev == block[cursor].prev
    IN  /\ At("merge prev")
        /\ block' = IF prev # Null /\ block[prev].free
                    THEN Absorb(prev, cursor)
                    ELSE block
        /\ cursor' = 0
        /\ pc' = "shorten"
        /\ UNCHANGED <<pages, n, need, extended, area, failure>>

\* The block that keeps shorten() from unmapping the last page.
Keeps(a) == ~block[a].free /\ End(a) >= LastPage

\* The scan of shorten() for a block in use that reaches the last page.
ShortenContinues ==
    /\ At("shorten")
    /\ pages > 1
    /\ ~Keeps(cursor)
    /\ block[cursor].next # Null
    /\ cursor' = block[cursor].next
    /\ UNCHANGED <<block, pages, pc, n, need, extended, area, failure>>

\* The header of the last block ends before the last page, which is unmapped.
\* (The code's case of a last block within the last page does not arise: the
\* block before it would have ended the scan.)
Shortens ==
    /\ block[cursor].free
    /\ cursor + Header <= LastPage

Shorten ==
    /\ At("shorten")
    /\ pages > 1
    /\ ~Keeps(cursor)
    /\ block[cursor].next = Null
    /\ Shortens
    /\ block' = [block EXCEPT ![cursor].bytes = LastPage - (cursor + Header)]
    /\ pages' = pages - 1
    /\ cursor' = 0
    /\ UNCHANGED <<pc, n, need, extended, area, failure>>

FreeReturns ==
    /\ At("shorten")
    /\ \/ pages = 1
       \/ Keeps(cursor)
       \/ block[cursor].next = Null /\ ~Shortens
    /\ Return
    /\ UNCHANGED <<block, pages, area, failure>>

-----------------------------------------------------------------------------
\* The call in progress goes on.
Inside ==
    \/ FindContinues \/ FindEnds \/ ExtendContinues \/ Extend \/ AllocateReturns
    \/ FreeMergesNext \/ FreeMergesPrev
    \/ ShortenContinues \/ Shorten \/ FreeReturns

Next ==
    \/ \E size \in Sizes : AllocateStarts(size)
    \/ \E p \in DOMAIN area : FreeStarts(p)
    \/ Inside

Spec == Init /\ [][Next]_vars

-----------------------------------------------------------------------------
(* Properties. *)

\* The blocks tile the mapped pages, after every step of every call (heap.hpp):
\* walking the list from the base neither skips nor repeats a byte, and the back
\* links are those of the forward links.
Tiled ==
    /\ 0 \in DOMAIN block /\ block[0].prev = Null
    /\ \A a \in DOMAIN block :
           IF block[a].next = Null
           THEN End(a) = HeapEnd
           ELSE /\ block[a].next = End(a) /\ End(a) \in DOMAIN block
                /\ block[End(a)].prev = a

\* Outside the merges of free() no two neighbours are free, so that the heap
\* does not break up into blocks too small to be of use; when nothing is in use
\* it is as init() left it, one page and one block.
Coalesced ==
    /\ pc \notin {"merge next", "merge prev"} =>
           \A a \in DOMAIN block :
               block[a].free /\ block[a].next # Null => ~block[block[a].next].free
    /\ pc = "idle" /\ DOMAIN area = {} => pages = 1 /\ DOMAIN block = {0}

\* allocate() does not return nullptr, as the pages it maps are enough, and
\* callers that free what they hold never meet the panic of free().
CallsSucceed == failure = "none"

\* Areas do not overlap and stay mapped: the heap implements Arena.
Memory == INSTANCE Arena WITH mapped <- HeapEnd

ImplementsArena == Memory!Spec

=============================================================================
