---- MODULE UserHeap ----
(***************************************************************************)
(* The heap of a program: malloc and its relatives (libc, alloc.c) over    *)
(* the pages the kernel appends to the process heap (procheap.cpp) when    *)
(* the system call lastpg asks for them.                                   *)
(*                                                                         *)
(* Addresses and sizes count words of eight bytes from the start of the    *)
(* heap, so that the rounding of malloc is done.  The list of blocks is a  *)
(* sequence; what the areas hold is left out but for the first word of the *)
(* one realloc is given, which it takes for a header.                      *)
(***************************************************************************)
EXTENDS Integers, Sequences, FiniteSets

CONSTANTS PageWords,    \* words of a page
          HeaderWords,  \* words of a heap_block header: 3
          SlackWords,   \* words a split must leave beside a header: 2
          LimitPages,   \* bound on the heap of the process
          AreaSizes,    \* sizes asked for
          FirstWords,   \* what the first word of a reallocated area holds
          MaxAreas      \* bound on the areas in use

ASSUME UserHeapAssumption ==
  /\ PageWords \in Nat \ {0} /\ HeaderWords \in Nat \ {0} /\ SlackWords \in Nat
  /\ LimitPages \in Nat /\ AreaSizes \subseteq Nat

VARIABLES list,      \* the blocks, from heap_start on
          tail,      \* address of the block heap_tail designates
          lastPage,  \* pages of the process heap
          areas      \* areas handed out and not freed, by their address
heapVars == <<list, tail, lastPage, areas>>

Block(at, size, is_free) == [at |-> at, size |-> size, is_free |-> is_free]
EndOf(block) == block.at + HeaderWords + block.size
AreaAt(block) == block.at + HeaderWords
FreeAreas == {p \in DOMAIN areas : ~areas[p].aligned}

\* Words that the last block claims behind the pages of the heap.
Behind == IF list = <<>> THEN 0 ELSE EndOf(list[Len(list)]) - lastPage * PageWords

HeapInit == list = <<>> /\ tail = 0 /\ lastPage = 0 /\ areas = <<>>

----------------------------------------------------------------------------

\* ProcessHeap::extend and sysLastpg: the address of the last page, and room for count.
CanExtend(count) == lastPage + count <= LimitPages
Lastpg(count) == (lastPage + count - 1) * PageWords

PagesFor(size) == (HeaderWords + size + PageWords - 1) \div PageWords

Fits(size) == {i \in DOMAIN list : list[i].is_free /\ list[i].size >= size}
find_free_block(size) == CHOOSE i \in Fits(size) : \A j \in Fits(size) : i <= j

\* Mutant of split_block: the header of the new block is not counted.
SplitWithoutHeader(i, size) ==
  IF list[i].size - size > HeaderWords + SlackWords
  THEN SubSeq(list, 1, i - 1)
       \o <<[list[i] EXCEPT !.size = size, !.is_free = FALSE],
            Block(EndOf([list[i] EXCEPT !.size = size]), list[i].size - size, TRUE)>>
       \o SubSeq(list, i + 1, Len(list))
  ELSE [list EXCEPT ![i].is_free = FALSE]

\* The list once the block i holds an area of the given size.
split_block(i, size) ==
  IF list[i].size - size > HeaderWords + SlackWords
  THEN SubSeq(list, 1, i - 1)
       \o <<[list[i] EXCEPT !.size = size, !.is_free = FALSE],
            Block(EndOf([list[i] EXCEPT !.size = size]),
                  list[i].size - size - HeaderWords, TRUE)>>
       \o SubSeq(list, i + 1, Len(list))
  ELSE [list EXCEPT ![i].is_free = FALSE]

\* The tail moves with its block when that one is split.
TailOf(split, i) ==
  IF tail = list[i].at /\ Len(split) > Len(list) THEN split[i + 1].at ELSE tail

\* A new block behind the tail, with the pages whole.  It begins where lastpg says,
\* in the last of its pages, and so ends behind the heap if it has several.
Requested(size) ==
  Append(list, Block(Lastpg(PagesFor(size)), PagesFor(size) * PageWords - HeaderWords, FALSE))

NewArea(at, size, aligned, short) ==
  [p \in DOMAIN areas \union {at} |->
     IF p = at THEN [size |-> size, aligned |-> aligned, short |-> short] ELSE areas[p]]

\* What is handed out of the area at the given address; alignment 0 asks for none.
Handed(at, size, alignment) ==
  IF alignment = 0 THEN NewArea(at, size, FALSE, FALSE)
  ELSE NewArea(((at + alignment) \div alignment) * alignment, size, TRUE, FALSE)

Room == Cardinality(DOMAIN areas) < MaxAreas

\* malloc(size): the first block that fits, or new pages, or NULL; of what it
\* gives, asked words are handed out.
Allocates(size, asked, alignment) ==
  IF size # 0 /\ Fits(size) # {}
  THEN LET i == find_free_block(size)
       IN  /\ list' = split_block(i, size)
           /\ tail' = TailOf(list', i)
           /\ areas' = Handed(AreaAt(list[i]), asked, alignment)
           /\ UNCHANGED lastPage
  ELSE IF size # 0 /\ CanExtend(PagesFor(size))
  THEN /\ list' = Requested(size)
       /\ tail' = list'[Len(list')].at
       /\ areas' = Handed(AreaAt(list'[Len(list')]), asked, alignment)
       /\ lastPage' = lastPage + PagesFor(size)
  ELSE UNCHANGED heapVars

malloc(size) == Room /\ Allocates(size, size, 0)

\* The clearing of the area is left out.
calloc(num, size) == malloc(num * size)

\* The aligned address lies in an area of its own, which free is never given.
aligned_alloc(alignment, size) ==
  Room /\ Allocates(size + alignment + 1, size, alignment)

----------------------------------------------------------------------------

\* The block i with the one behind it, when both are free.
Absorbed(blocks, i) ==
  IF i < Len(blocks) /\ blocks[i].is_free /\ blocks[i + 1].is_free
  THEN SubSeq(blocks, 1, i - 1)
       \o <<[blocks[i] EXCEPT !.size = @ + HeaderWords + blocks[i + 1].size]>>
       \o SubSeq(blocks, i + 2, Len(blocks))
  ELSE blocks

\* The list once block i is free: it absorbs its follower, and is absorbed.
coalesce_blocks(blocks, i) ==
  LET once == Absorbed([blocks EXCEPT ![i].is_free = TRUE], i)
  IN  IF i = 1 THEN once ELSE Absorbed(once, i - 1)

\* heap_tail moves to the block that absorbed its own.
TailAfter(blocks) ==
  IF \E i \in DOMAIN blocks : blocks[i].at = tail THEN tail ELSE blocks[Len(blocks)].at

free(p) ==
  LET i == CHOOSE k \in DOMAIN list : AreaAt(list[k]) = p
  IN  /\ p \in FreeAreas
      /\ list' = coalesce_blocks(list, i)
      /\ tail' = TailAfter(list')
      /\ areas' = [q \in DOMAIN areas \ {p} |-> areas[q]]
      /\ UNCHANGED lastPage

\* realloc takes the area for a header: its first word is the size that decides.
\* An area it leaves in place may be shorter than what was asked for; otherwise
\* malloc, a copy of as many bytes as that word says, and free follow.
ReallocKeeps(p, size, word) ==
  /\ p \in FreeAreas /\ word >= size
  /\ areas' = NewArea(p, size, FALSE, size > areas[p].size)
  /\ UNCHANGED <<list, tail, lastPage>>

\* With no room for the new area the old one is left alone.
ReallocMoves(p, size, word) ==
  LET i == find_free_block(size)
      found == Fits(size) # {}
      taken == IF found THEN split_block(i, size) ELSE Requested(size)
      newAt == AreaAt(IF found THEN list[i] ELSE taken[Len(taken)])
      old == CHOOSE k \in DOMAIN taken : AreaAt(taken[k]) = p
  IN  /\ p \in FreeAreas /\ word < size
      /\ found \/ CanExtend(PagesFor(size))
      /\ list' = coalesce_blocks(taken, old)
      /\ tail' = list'[Len(list')].at
      /\ areas' = [q \in DOMAIN Handed(newAt, size, 0) \ {p} |-> Handed(newAt, size, 0)[q]]
      /\ lastPage' = IF found THEN lastPage ELSE lastPage + PagesFor(size)

\* A program that fills a short area writes over the header behind it, and a block
\* that ends behind the heap overlaps the next one that is requested: what the heap
\* does then is not followed any further.
HeapNext ==
  /\ Behind = 0
  /\ \A p \in DOMAIN areas : ~areas[p].short
  /\ \/ \E size \in AreaSizes : malloc(size) \/ calloc(2, size) \/ aligned_alloc(2, size)
     \/ \E p \in FreeAreas : free(p)
     \/ \E p \in FreeAreas, size \in AreaSizes, word \in FirstWords :
          ReallocKeeps(p, size, word) \/ ReallocMoves(p, size, word)

----------------------------------------------------------------------------

\* What malloc promises across any calls: the blocks follow each other from the
\* start of the heap to the end of its pages, the tail is the last of them, and
\* every area in use lies within a used block that no other area shares, except that
\* an area realloc has left in place on the word of its contents only begins in it,
\* and that a block of several pages lies all but one of them too far behind.
Within(p, block) ==
  /\ ~block.is_free
  /\ AreaAt(block) <= p /\ p + (IF areas[p].short THEN 0 ELSE areas[p].size) <= EndOf(block)
UserAreasKept ==
  /\ \A i \in DOMAIN list :
       list[i].at = (IF i = 1 THEN 0 ELSE EndOf(list[i - 1]))
                      + (IF i = Len(list) THEN Behind ELSE 0)
  /\ list # <<>> => /\ Behind \in {0, HeaderWords + list[Len(list)].size - PageWords}
                    /\ tail = list[Len(list)].at
  /\ \A p \in DOMAIN areas :
       Cardinality({i \in DOMAIN list : Within(p, list[i])}) = 1
  /\ \A i \in DOMAIN list :
       list[i].is_free \/ Cardinality({p \in DOMAIN areas : Within(p, list[i])}) = 1
====
