------------------------ MODULE HeapAllocator_proofs ------------------------
(***************************************************************************)
(* Theorems about HeapAllocator, for every page size, header size and      *)
(* alignment that HeapAssumption admits, every set of sizes and every      *)
(* bound on what callers ask for.                                          *)
(***************************************************************************)
EXTENDS HeapAllocator, TLAPS

-----------------------------------------------------------------------------
(* The parts of the inductive invariant.                                   *)

Links == Nat \cup {Null}
Headers == [next : Links, prev : Links, bytes : Nat, free : BOOLEAN]

HeadersTyped ==
    /\ block \in [DOMAIN block -> Headers]
    /\ DOMAIN block \subseteq Nat

Typed ==
    /\ HeadersTyped
    /\ pages \in Nat \ {0}
    /\ cursor \in DOMAIN block
    /\ pc \in {"idle", "find", "extend", "merge next", "merge prev", "shorten"}
    /\ n \in Nat
    /\ n % Align = 0
    /\ need \in Nat
    /\ extended \in BOOLEAN
    /\ area \in [DOMAIN area -> Nat]

\* Every header is on an alignment boundary.
Aligned == \A a \in DOMAIN block : a % Align = 0

\* Every block but the first is the one after some block.  Tiled says what the
\* links of a block lead to; this says that a link leads to every block.
Linked ==
    \A a \in DOMAIN block \ {0} :
        block[a].prev \in DOMAIN block /\ block[block[a].prev].next = a

\* Every block ends where the next one begins or before, and in mapped memory.
Ordered ==
    \A a \in DOMAIN block :
        /\ End(a) <= HeapEnd
        /\ \A b \in DOMAIN block : a < b => End(a) <= b

\* What the list of blocks is after every step.
Chain == Aligned /\ Tiled /\ Linked /\ Ordered

\* A block in use is an area that a caller holds, and the other way round.
Owned ==
    /\ \A a \in DOMAIN block : ~block[a].free => a + Header \in DOMAIN area
    /\ \A p \in DOMAIN area :
           /\ p \in Nat
           /\ p - Header \in DOMAIN block
           /\ ~block[p - Header].free
           /\ area[p] <= block[p - Header].bytes

\* Two free neighbours are those that the call in progress is about to merge.
FreeNeighbours ==
    \A a \in DOMAIN block :
        block[a].free /\ block[a].next # Null /\ block[block[a].next].free =>
            \/ pc = "merge next" /\ cursor \in {a, block[a].next}
            \/ pc = "merge prev" /\ cursor = block[a].next

MergeFree == pc \in {"merge next", "merge prev"} => block[cursor].free

\* The scan of findFreeBlock() has passed no block that fits, and the second
\* scan has one ahead of it.
Scanned ==
    pc = "find" =>
        /\ \A b \in DOMAIN block : b < cursor => ~Fits(b)
        /\ extended => \E b \in DOMAIN block : Fits(b)

\* The pages still to map hold the size asked for, with what the last block
\* has if it is free and with a new header if it is not.
Enough ==
    pc = "extend" =>
        /\ need >= 1
        /\ \A a \in DOMAIN block :
               block[a].next = Null =>
                   n + (IF block[a].free THEN 0 ELSE Header)
                       <= Page * need + (IF block[a].free THEN block[a].bytes ELSE 0)

\* Nothing is left of the last call.
Rest ==
    /\ extended => pc \in {"find", "extend"}
    /\ pc = "idle" => cursor = 0

\* When no caller holds an area, the heap is as init() left it.
Emptied == pc = "idle" /\ DOMAIN area = {} => pages = 1 /\ DOMAIN block = {0}

HeapInv ==
    /\ Typed
    /\ Chain
    /\ Owned
    /\ FreeNeighbours
    /\ MergeFree
    /\ Scanned
    /\ Enough
    /\ Rest
    /\ Emptied
    /\ failure = "none"

-----------------------------------------------------------------------------
(* Arithmetic.                                                             *)

\* Quotient and remainder.
LEMMA DivMod ==
    ASSUME NEW x \in Int, NEW k \in Nat \ {0}
    PROVE  /\ x \div k \in Int
           /\ x % k \in 0 .. k - 1
           /\ x = k * (x \div k) + (x % k)
OBVIOUS

\* A number is the quotient and the remainder of only one pair.
LEMMA ModUnique ==
    ASSUME NEW k \in Nat \ {0}, NEW q \in Int, NEW r \in 0 .. k - 1
    PROVE  (k * q + r) % k = r /\ (k * q + r) \div k = q
OBVIOUS

\* A product is a multiple of its factors.
LEMMA Multiple ==
    ASSUME NEW k \in Nat \ {0}, NEW q \in Int
    PROVE  (k * q) % k = 0 /\ (k * q) \div k = q /\ (q * k) % k = 0 /\ (q * k) \div k = q
BY ModUnique, k * q + 0 = k * q, q * k = k * q

\* The sum of two multiples is one.
LEMMA MultipleSum ==
    ASSUME NEW x \in Int, NEW y \in Int, NEW k \in Nat \ {0}, x % k = 0, y % k = 0
    PROVE  (x + y) % k = 0
<1> DEFINE q == x \div k  r == y \div k
<1>1. x = k * q /\ y = k * r /\ q \in Int /\ r \in Int
  BY DivMod
<1> HIDE DEF q, r
<1>2. x + y = k * (q + r)
  BY <1>1
<1> QED BY <1>1, <1>2, Multiple

\* A multiple times a number is one.
LEMMA MultipleProduct ==
    ASSUME NEW x \in Int, NEW y \in Int, NEW k \in Nat \ {0}, x % k = 0
    PROVE  (x * y) % k = 0
<1> DEFINE q == x \div k
<1>1. x = k * q /\ q \in Int
  BY DivMod
<1> HIDE DEF q
<1>2. x * y = k * (q * y) /\ q * y \in Int
  BY <1>1
<1> QED BY <1>2, Multiple

\* A product of natural numbers is one.
LEMMA NatProduct ==
    ASSUME NEW x \in Nat, NEW y \in Nat
    PROVE  x * y \in Nat
OBVIOUS

\* alignUp() returns a multiple, no smaller than what it was given.
LEMMA AlignUpBounds ==
    ASSUME NEW x \in Nat, NEW k \in Nat \ {0}
    PROVE  /\ AlignUp(x, k) \in Nat
           /\ AlignUp(x, k) % k = 0
           /\ x <= AlignUp(x, k)
           /\ AlignUp(x, k) = k * (AlignUp(x, k) \div k)
<1> DEFINE y == x + k - 1
           q == y \div k
           r == y % k
<1>1. y \in Int
  OBVIOUS
<1> HIDE DEF y
<1>2. q \in Int /\ r \in 0 .. k - 1 /\ y = k * q + r
  BY <1>1, DivMod
<1>3. AlignUp(x, k) = q * k
  BY DEF AlignUp, y
<1> HIDE DEF q, r
<1>4. k * q = x + k - 1 - r
  BY <1>2 DEF y
<1>5. q * k = k * q
  BY <1>2
<1>6. q * k \in Nat /\ x <= q * k
  BY <1>2, <1>4, <1>5
<1> QED BY <1>2, <1>3, <1>5, <1>6, Multiple

\* The pages that allocate() counts hold what they are counted for.
LEMMA RequiredPagesSuffice ==
    ASSUME NEW m \in Nat \ {0}, NEW P \in Nat \ {0}
    PROVE  /\ AlignUp(m, P) \div P \in Nat \ {0}
           /\ m <= P * (AlignUp(m, P) \div P)
<1> DEFINE q == AlignUp(m, P) \div P
<1>1. AlignUp(m, P) = P * q /\ m <= P * q /\ AlignUp(m, P) \in Nat
  BY AlignUpBounds
<1>2. q \in Int
  BY <1>1, DivMod
<1> HIDE DEF q
<1>3. q > 0
  BY <1>1, <1>2
<1> QED BY <1>1, <1>2, <1>3 DEF q

\* The end of the mapped pages.
LEMMA HeapEndFacts ==
    ASSUME Typed
    PROVE  /\ HeapEnd \in Nat /\ HeapEnd % Align = 0
           /\ LastPage \in Nat /\ LastPage = HeapEnd - Page
           /\ pages > 1 => Page <= LastPage
<1>1. Page \in Nat \ {0} /\ Page % Align = 0 /\ pages \in Nat \ {0}
  <2>1. Page \in Nat /\ Header \in Nat \ {0} /\ Align \in Nat \ {0}
        /\ Header + Align <= Page /\ Page % Align = 0
    BY HeapAssumption
  <2>2. Page # 0
    BY <2>1
  <2> QED BY <2>1, <2>2 DEF Typed
<1>2. HeapEnd \in Nat
  BY <1>1 DEF HeapEnd
<1>3. HeapEnd % Align = 0
  <2>1. Page \in Int /\ pages \in Int /\ Align \in Nat \ {0}
    BY <1>1, HeapAssumption
  <2> QED BY <1>1, <2>1, MultipleProduct DEF HeapEnd
<1>4. LastPage = HeapEnd - Page
  BY <1>1 DEF HeapEnd, LastPage
<1>5. pages - 1 \in Nat /\ LastPage \in Nat
  BY <1>1 DEF LastPage
<1>6. ASSUME pages > 1
      PROVE  Page <= LastPage
  <2>1. pages - 2 \in Nat /\ Page * (pages - 2) \in Nat
    BY <1>1, <1>6
  <2>2. LastPage = Page * (pages - 2) + Page
    BY <1>1 DEF LastPage
  <2> QED BY <1>1, <2>1, <2>2
<1> QED BY <1>2, <1>3, <1>4, <1>5, <1>6

-----------------------------------------------------------------------------
(* What the operations do to the headers, field by field.                  *)

\* Block b, the one after a, is absorbed: the fields of what is left.
Absorbed(a, b) ==
    /\ DOMAIN block' = DOMAIN block \ {b}
    /\ block' \in [DOMAIN block' -> Headers]
    /\ block'[a].next = block[b].next
    /\ block'[a].bytes = block[a].bytes + Header + block[b].bytes
    /\ block'[a].free = block[a].free
    /\ block'[a].prev = block[a].prev
    /\ \A x \in DOMAIN block' \ {a} :
           /\ block'[x].next = block[x].next
           /\ block'[x].bytes = block[x].bytes
           /\ block'[x].free = block[x].free
           /\ block'[x].prev = IF x = block[b].next THEN a ELSE block[x].prev

\* Header by header, what merging b into a writes.
LEMMA AbsorbFields ==
    ASSUME HeadersTyped,
           NEW a \in DOMAIN block, NEW b \in DOMAIN block, a # b,
           block[b].next # a, block[b].next # b,
           block[b].next # Null => block[b].next \in DOMAIN block,
           block' = Absorb(a, b)
    PROVE  Absorbed(a, b)
<1> DEFINE c == block[b].next
           longer == [block[a] EXCEPT !.bytes = @ + Header + block[b].bytes]
           merged == [block[a] EXCEPT !.bytes = @ + Header + block[b].bytes,
                                      !.next = c]
           M == [x \in DOMAIN block \ {b} |-> IF x = a THEN merged ELSE block[x]]
<1>1. /\ block[a] \in Headers /\ block[b] \in Headers
      /\ Header \in Nat
  BY HeapAssumption DEF HeadersTyped
<1>11. c \in Links
  BY <1>1 DEF Headers
<1>12. /\ longer \in Headers
      /\ longer.next = block[a].next
      /\ longer.free = block[a].free /\ longer.prev = block[a].prev
      /\ longer.bytes = block[a].bytes + Header + block[b].bytes
  BY <1>1 DEF Headers
<1>13. merged = [longer EXCEPT !.next = c]
  OBVIOUS
<1> HIDE DEF longer, merged
<1>2. /\ merged \in Headers
      /\ merged.next = c /\ merged.free = block[a].free /\ merged.prev = block[a].prev
      /\ merged.bytes = block[a].bytes + Header + block[b].bytes
  BY <1>11, <1>12, <1>13 DEF Headers
<1>3. /\ DOMAIN M = DOMAIN block \ {b}
      /\ M[a] = merged
      /\ \A x \in DOMAIN block \ {a, b} : M[x] = block[x]
      /\ M \in [DOMAIN M -> Headers]
  BY <1>2 DEF HeadersTyped
<1>4. block' = Relink(M, c, a)
  BY DEF Absorb, merged
<1> HIDE DEF M
<1>5. CASE c = Null
  <2>1. block' = M /\ c \notin DOMAIN block
    BY <1>4, <1>5 DEF Relink, HeadersTyped, Null
  <2> QED BY <1>2, <1>3, <2>1 DEF HeadersTyped, Absorbed
<1>6. CASE c # Null
  <2>1. c \in DOMAIN M /\ c # a /\ c # b
    BY <1>3, <1>6
  <2>2. block' = [M EXCEPT ![c].prev = a]
    BY <1>4, <1>6 DEF Relink
  <2>3. /\ DOMAIN block' = DOMAIN M
        /\ block'[c] = [M[c] EXCEPT !.prev = a]
        /\ \A x \in DOMAIN M \ {c} : block'[x] = M[x]
    BY <2>1, <2>2
  <2>4. /\ block'[c] \in Headers /\ block'[c].prev = a
        /\ block'[c].next = M[c].next /\ block'[c].bytes = M[c].bytes /\ block'[c].free = M[c].free
    BY <1>3, <2>1, <2>3 DEF Headers, Links, HeadersTyped
  <2>5. block' \in [DOMAIN block' -> Headers]
    BY <1>3, <2>2, <2>3, <2>4
  <2> QED BY <1>2, <1>3, <2>1, <2>3, <2>4, <2>5 DEF Absorbed
<1> QED BY <1>5, <1>6

\* The fields of a header.
LEMMA Fields ==
    ASSUME HeadersTyped, NEW a \in DOMAIN block
    PROVE  /\ a \in Nat
           /\ block[a].next \in Links /\ block[a].prev \in Links
           /\ block[a].bytes \in Nat /\ block[a].free \in BOOLEAN
           /\ End(a) \in Nat /\ a < End(a)
           /\ End(a) = a + Header + block[a].bytes
<1>1. block[a] \in Headers /\ a \in Nat /\ Header \in Nat \ {0}
  BY HeapAssumption DEF HeadersTyped
<1> QED BY <1>1 DEF Headers, End

\* The block after a begins where a ends and links back to it.
LEMMA NextFacts ==
    ASSUME HeadersTyped, Tiled, NEW a \in DOMAIN block
    PROVE  /\ block[a].next = Null => End(a) = HeapEnd
           /\ block[a].next # Null =>
                 /\ block[a].next \in DOMAIN block
                 /\ block[a].next = End(a)
                 /\ a < block[a].next
                 /\ block[block[a].next].prev = a
BY Fields DEF Tiled

\* The last block is the one with the greatest address.
LEMMA LastFacts ==
    ASSUME Typed, Chain, NEW a \in DOMAIN block, block[a].next = Null
    PROVE  \A b \in DOMAIN block : b <= a /\ (b # a => End(b) <= a)
<1> SUFFICES ASSUME NEW b \in DOMAIN block
             PROVE  b <= a /\ (b # a => End(b) <= a)
  OBVIOUS
<1>1. a \in Nat /\ b \in Nat /\ b < End(b) /\ End(b) \in Nat
  BY Fields DEF Typed
<1>2. End(a) = HeapEnd /\ HeapEnd \in Nat
  BY NextFacts, HeapEndFacts DEF Typed, Chain
<1>3. End(b) <= HeapEnd
  BY DEF Chain, Ordered
<1>4. a < b => End(a) <= b
  BY DEF Chain, Ordered
<1>5. b < a => End(b) <= a
  BY DEF Chain, Ordered
<1> QED BY <1>1, <1>2, <1>3, <1>4, <1>5

\* Absorbing the free block after a free block leaves a chain, and no area is
\* touched.
LEMMA AbsorbKeeps ==
    ASSUME Typed, Chain, Owned,
           NEW a \in DOMAIN block, NEW b, b = block[a].next, b # Null,
           block[a].free, block[b].free,
           block' = Absorb(a, b), UNCHANGED <<pages, area>>
    PROVE  HeadersTyped' /\ Chain' /\ Owned'
<1> DEFINE c == block[b].next
<1>1. HeadersTyped /\ Tiled /\ Ordered /\ Linked
  BY DEF Typed, Chain
<1>2. Header \in Nat \ {0} /\ HeapEnd \in Nat /\ HeapEnd' = HeapEnd
  BY HeapAssumption, HeapEndFacts DEF HeapEnd
<1>3. /\ a \in Nat /\ b \in DOMAIN block /\ b = End(a) /\ a < b
      /\ b \in Nat /\ block[b].prev = a
  BY <1>1, NextFacts, Fields
<1>4. c # Null => c \in DOMAIN block /\ c = End(b) /\ b < c /\ block[c].prev = b
  BY <1>1, <1>3, NextFacts
<1>5. c = Null => End(b) = HeapEnd
  BY <1>1, <1>3, NextFacts
<1>6. /\ DOMAIN block' = DOMAIN block \ {b}
      /\ block' \in [DOMAIN block' -> Headers]
      /\ block'[a].next = c
      /\ block'[a].bytes = block[a].bytes + Header + block[b].bytes
      /\ block'[a].free = block[a].free
      /\ block'[a].prev = block[a].prev
      /\ \A x \in DOMAIN block' \ {a} :
             /\ block'[x].next = block[x].next
             /\ block'[x].bytes = block[x].bytes
             /\ block'[x].free = block[x].free
             /\ block'[x].prev = IF x = c THEN a ELSE block[x].prev
  <2>1. c # a /\ c # b /\ a # b
    BY <1>3, <1>4 DEF Null
  <2>2. Absorbed(a, b)
    BY <1>1, <1>3, <1>4, <2>1, AbsorbFields
  <2> QED BY <2>2 DEF Absorbed
<1>7. HeadersTyped'
  BY <1>1, <1>6 DEF HeadersTyped
<1>8. /\ End(a)' = End(b)
      /\ \A x \in DOMAIN block' \ {a} : End(x)' = End(x)
  <2>1. End(a)' = a + Header + block'[a].bytes
    BY DEF End
  <2>2. block[a].bytes \in Nat /\ block[b].bytes \in Nat
    BY <1>1, <1>3, Fields
  <2>3. End(b) = b + Header + block[b].bytes /\ End(a) = a + Header + block[a].bytes
    BY DEF End
  <2>4. End(a)' = End(b)
    BY <1>2, <1>3, <1>6, <2>1, <2>2, <2>3
  <2> QED BY <1>6, <2>4 DEF End
<1>9. Aligned'
  BY <1>6 DEF Chain, Aligned
<1>10. Ordered'
  <2> SUFFICES ASSUME NEW x \in DOMAIN block', NEW y \in DOMAIN block'
               PROVE  End(x)' <= HeapEnd' /\ (x < y => End(x)' <= y)
    BY DEF Ordered
  <2>1. x \in DOMAIN block /\ y \in DOMAIN block /\ y # b /\ x # b
    BY <1>6
  <2>2. End(b) <= HeapEnd /\ End(x) <= HeapEnd /\ (x < y => End(x) <= y)
    BY <1>1, <1>3, <2>1 DEF Ordered
  <2>3. b < y => End(b) <= y
    BY <1>1, <1>3, <2>1 DEF Ordered
  <2>4. a < y => End(a) <= y
    BY <1>1, <2>1 DEF Ordered
  <2>5. y \in Nat
    BY <1>1, <2>1, Fields
  <2> QED BY <1>2, <1>3, <1>8, <2>1, <2>2, <2>3, <2>4, <2>5
<1>11. Tiled'
  <2>1. 0 \in DOMAIN block' /\ block'[0].prev = Null
    <3>1. 0 \in DOMAIN block /\ block[0].prev = Null
      BY <1>1 DEF Tiled
    <3>2. b # 0 /\ c # 0
      BY <1>3, <1>4 DEF Null
    <3> QED BY <1>6, <3>1, <3>2
  <2>2. ASSUME NEW x \in DOMAIN block'
        PROVE  IF block'[x].next = Null
               THEN End(x)' = HeapEnd'
               ELSE /\ block'[x].next = End(x)' /\ End(x)' \in DOMAIN block'
                    /\ block'[End(x)'].prev = x
    <3>1. CASE x = a
      <4>1. c # Null => c \in DOMAIN block' /\ block'[c].prev = a
        BY <1>3, <1>4, <1>6
      <4> QED BY <3>1, <1>2, <1>4, <1>5, <1>6, <1>8, <4>1
    <3>2. CASE x # a
      <4>1. x \in DOMAIN block /\ x # b
        BY <1>6
      <4>2. block'[x].next = block[x].next /\ End(x)' = End(x)
        BY <1>6, <1>8, <3>2
      <4>3. CASE block[x].next = Null
        BY <1>1, <1>2, <4>1, <4>2, <4>3, NextFacts
      <4>4. CASE block[x].next # Null
        <5> DEFINE y == block[x].next
        <5>1. y \in DOMAIN block /\ y = End(x) /\ block[y].prev = x
          BY <1>1, <4>1, <4>4, NextFacts
        <5>2. y # b /\ y # c
          BY <1>3, <1>4, <3>2, <4>1, <5>1, <4>4
        <5>3. y \in DOMAIN block'
          BY <1>6, <5>1, <5>2
        <5>4. block'[y].prev = x
          <6>1. CASE y = a
            BY <1>6, <5>1, <6>1
          <6>2. CASE y # a
            BY <1>6, <5>1, <5>2, <5>3, <6>2
          <6> QED BY <6>1, <6>2
        <5> QED BY <4>2, <4>4, <5>1, <5>3, <5>4
      <4> QED BY <4>3, <4>4
    <3> QED BY <3>1, <3>2
  <2> QED BY <2>1, <2>2 DEF Tiled
<1>12. Linked'
  <2> SUFFICES ASSUME NEW x \in DOMAIN block', x # 0
               PROVE  block'[x].prev \in DOMAIN block' /\ block'[block'[x].prev].next = x
    BY DEF Linked
  <2>1. x \in DOMAIN block /\ x # b
    BY <1>6
  <2> DEFINE w == block[x].prev
  <2>2. w \in DOMAIN block /\ block[w].next = x
    BY <1>1, <2>1 DEF Linked
  <2>3. CASE x = c
    <3>1. block'[x].prev = a
      <4>1. c # Null /\ x # a
        BY <1>1, <1>3, <1>4, <2>1, <2>3, Fields DEF Null
      <4> QED BY <1>6, <2>3, <4>1
    <3>2. a \in DOMAIN block'
      BY <1>3, <1>6
    <3> QED BY <1>6, <2>3, <3>1, <3>2
  <2>4. CASE x # c
    <3>1. block'[x].prev = w
      <4>1. CASE x = a
        BY <1>6, <4>1
      <4>2. CASE x # a
        BY <1>6, <2>4, <4>2
      <4> QED BY <4>1, <4>2
    <3>2. w # b /\ w # a
      BY <2>1, <2>2, <2>4
    <3>3. w \in DOMAIN block' /\ block'[w].next = x
      BY <1>6, <2>2, <3>2
    <3> QED BY <3>1, <3>3
  <2> QED BY <2>3, <2>4
<1>13. Owned'
  <2>1. ASSUME NEW x \in DOMAIN block', ~block'[x].free
        PROVE  x + Header \in DOMAIN area
    <3>1. x # a /\ x \in DOMAIN block /\ ~block[x].free
      BY <1>6, <2>1
    <3> QED BY <3>1 DEF Owned
  <2>2. ASSUME NEW p \in DOMAIN area
        PROVE  /\ p \in Nat
               /\ p - Header \in DOMAIN block'
               /\ ~block'[p - Header].free
               /\ area[p] <= block'[p - Header].bytes
    <3>1. /\ p \in Nat
          /\ p - Header \in DOMAIN block /\ ~block[p - Header].free
          /\ area[p] <= block[p - Header].bytes
      BY DEF Owned
    <3>2. p - Header # a /\ p - Header # b
      BY <3>1
    <3> QED BY <1>6, <3>1, <3>2
  <2> QED BY <2>1, <2>2 DEF Owned
<1> QED BY <1>7, <1>9, <1>10, <1>11, <1>12, <1>13 DEF Chain

-----------------------------------------------------------------------------
(* One field of one header is assigned.                                    *)

\* The headers M with v as the field next of header a.
WithNext(M, a, v) == [M EXCEPT ![a].next = v]

\* Setting the next link of a header changes nothing else of it.
LEMMA WithNextFields ==
    ASSUME NEW D, NEW M \in [D -> Headers], NEW a \in D, NEW v \in Links
    PROVE  /\ WithNext(M, a, v) \in [D -> Headers]
           /\ WithNext(M, a, v)[a].next = v
           /\ WithNext(M, a, v)[a].prev = M[a].prev
           /\ WithNext(M, a, v)[a].bytes = M[a].bytes
           /\ WithNext(M, a, v)[a].free = M[a].free
           /\ \A x \in D \ {a} : WithNext(M, a, v)[x] = M[x]
<1> DEFINE N == WithNext(M, a, v)
<1>1. M[a] \in Headers
  OBVIOUS
<1>2. N[a] = [M[a] EXCEPT !.next = v]
  BY DEF WithNext
<1>3. \A x \in D \ {a} : N[x] = M[x]
  BY DEF WithNext
<1>4. /\ N[a] \in Headers
      /\ N[a].next = v
      /\ N[a].prev = M[a].prev /\ N[a].bytes = M[a].bytes /\ N[a].free = M[a].free
  BY <1>1, <1>2 DEF Headers
<1>5. N \in [D -> Headers]
  BY <1>4 DEF WithNext
<1> QED BY <1>3, <1>4, <1>5

\* The headers M with v as the field prev of header a.
WithPrev(M, a, v) == [M EXCEPT ![a].prev = v]

\* Setting the prev link of a header changes nothing else of it.
LEMMA WithPrevFields ==
    ASSUME NEW D, NEW M \in [D -> Headers], NEW a \in D, NEW v \in Links
    PROVE  /\ WithPrev(M, a, v) \in [D -> Headers]
           /\ WithPrev(M, a, v)[a].prev = v
           /\ WithPrev(M, a, v)[a].next = M[a].next
           /\ WithPrev(M, a, v)[a].bytes = M[a].bytes
           /\ WithPrev(M, a, v)[a].free = M[a].free
           /\ \A x \in D \ {a} : WithPrev(M, a, v)[x] = M[x]
<1> DEFINE N == WithPrev(M, a, v)
<1>1. M[a] \in Headers
  OBVIOUS
<1>2. N[a] = [M[a] EXCEPT !.prev = v]
  BY DEF WithPrev
<1>3. \A x \in D \ {a} : N[x] = M[x]
  BY DEF WithPrev
<1>4. /\ N[a] \in Headers
      /\ N[a].prev = v
      /\ N[a].next = M[a].next /\ N[a].bytes = M[a].bytes /\ N[a].free = M[a].free
  BY <1>1, <1>2 DEF Headers
<1>5. N \in [D -> Headers]
  BY <1>4 DEF WithPrev
<1> QED BY <1>3, <1>4, <1>5

\* The headers M with v as the field bytes of header a.
WithBytes(M, a, v) == [M EXCEPT ![a].bytes = v]

\* Setting the size of a header changes nothing else of it.
LEMMA WithBytesFields ==
    ASSUME NEW D, NEW M \in [D -> Headers], NEW a \in D, NEW v \in Nat
    PROVE  /\ WithBytes(M, a, v) \in [D -> Headers]
           /\ WithBytes(M, a, v)[a].bytes = v
           /\ WithBytes(M, a, v)[a].next = M[a].next
           /\ WithBytes(M, a, v)[a].prev = M[a].prev
           /\ WithBytes(M, a, v)[a].free = M[a].free
           /\ \A x \in D \ {a} : WithBytes(M, a, v)[x] = M[x]
<1> DEFINE N == WithBytes(M, a, v)
<1>1. M[a] \in Headers
  OBVIOUS
<1>2. N[a] = [M[a] EXCEPT !.bytes = v]
  BY DEF WithBytes
<1>3. \A x \in D \ {a} : N[x] = M[x]
  BY DEF WithBytes
<1>4. /\ N[a] \in Headers
      /\ N[a].bytes = v
      /\ N[a].next = M[a].next /\ N[a].prev = M[a].prev /\ N[a].free = M[a].free
  BY <1>1, <1>2 DEF Headers
<1>5. N \in [D -> Headers]
  BY <1>4 DEF WithBytes
<1> QED BY <1>3, <1>4, <1>5

-----------------------------------------------------------------------------
(* allocate(): the block found is split and taken.                         *)

\* The block at a is cut at r: the fields of the two blocks and of the rest.
Split(a, r) ==
    /\ DOMAIN block' = DOMAIN block \cup {r}
    /\ block' \in [DOMAIN block' -> Headers]
    /\ block'[a].next = r /\ block'[a].prev = block[a].prev
    /\ block'[a].bytes = n /\ block'[a].free = FALSE
    /\ block'[r].next = block[a].next /\ block'[r].prev = a
    /\ block'[r].bytes = block[a].bytes - n - Header /\ block'[r].free = TRUE
    /\ \A x \in DOMAIN block \ {a} :
           /\ block'[x].next = block[x].next
           /\ block'[x].bytes = block[x].bytes
           /\ block'[x].free = block[x].free
           /\ block'[x].prev = IF x = block[a].next THEN r ELSE block[x].prev

\* Header by header, what splitting the block at the cursor writes.
LEMMA SplitFields ==
    ASSUME HeadersTyped, n \in Nat, cursor \in DOMAIN block,
           block[cursor].bytes - n >= Header + Align,
           cursor + Header + n \notin DOMAIN block,
           block[cursor].next # cursor,
           block[cursor].next # Null => block[cursor].next \in DOMAIN block,
           block' = [SplitBlock EXCEPT ![cursor].free = FALSE]
    PROVE  Split(cursor, cursor + Header + n)
<1> DEFINE a == cursor
           r == cursor + Header + n
           c == block[cursor].next
           bytes == block[cursor].bytes - n - Header
           rest == [next |-> c, prev |-> a, bytes |-> bytes, free |-> TRUE]
           D == DOMAIN block \cup {r}
           M1 == [x \in D |-> IF x = r THEN rest ELSE block[x]]
           M2 == [M1 EXCEPT ![a].next = r]
           M3 == [M2 EXCEPT ![a].bytes = n]
           M4 == Relink(M3, c, r)
<1>1. Header \in Nat \ {0} /\ Align \in Nat \ {0}
  BY HeapAssumption
<1>2. a \in Nat /\ r \in Nat /\ r # a /\ block[a].bytes \in Nat /\ bytes \in Nat /\ c \in Links
  BY <1>1, Fields
<1>3. SplitBlock = M4
  BY DEF SplitBlock, Put
<1>4. block' = [M4 EXCEPT ![a].free = FALSE]
  BY <1>3
<1> HIDE DEF bytes
<1>5. /\ rest \in Headers
      /\ rest.next = c /\ rest.prev = a /\ rest.bytes = bytes /\ rest.free = TRUE
  BY <1>2 DEF Headers, Links
<1> HIDE DEF rest
<1>6. /\ M1 \in [D -> Headers]
      /\ a \in D /\ r \in D
      /\ M1[r] = rest
      /\ \A x \in DOMAIN block : M1[x] = block[x]
  BY <1>5 DEF HeadersTyped
<1>7. r \in Links
  BY <1>2 DEF Links
<1> HIDE DEF M1
<1>8. /\ M2 \in [D -> Headers]
      /\ M2[a].next = r
      /\ M2[a].prev = M1[a].prev /\ M2[a].bytes = M1[a].bytes /\ M2[a].free = M1[a].free
      /\ \A x \in D \ {a} : M2[x] = M1[x]
  <2>1. M2 = WithNext(M1, a, r)
    BY DEF WithNext
  <2> HIDE DEF M2, D, a, r
  <2> QED BY <1>6, <1>7, <2>1, WithNextFields
<1> HIDE DEF M2
<1>9. /\ M3 \in [D -> Headers]
      /\ M3[a].bytes = n
      /\ M3[a].next = M2[a].next /\ M3[a].prev = M2[a].prev /\ M3[a].free = M2[a].free
      /\ \A x \in D \ {a} : M3[x] = M2[x]
  <2>1. M3 = WithBytes(M2, a, n)
    BY DEF WithBytes
  <2> HIDE DEF M3, D, a
  <2> QED BY <1>6, <1>8, <2>1, WithBytesFields
<1> HIDE DEF M3
<1>10. /\ M4 \in [D -> Headers]
       /\ \A x \in D \ {c} : M4[x] = M3[x]
       /\ c \in DOMAIN block =>
             /\ M4[c].prev = r
             /\ M4[c].next = M3[c].next /\ M4[c].bytes = M3[c].bytes /\ M4[c].free = M3[c].free
  <2>1. CASE c = Null
    <3>1. M4 = M3 /\ c \notin DOMAIN block
      BY <2>1 DEF Relink, HeadersTyped, Null
    <3> QED BY <1>9, <3>1
  <2>2. CASE c # Null
    <3>1. M4 = WithPrev(M3, c, r) /\ c \in D
      BY <2>2 DEF Relink, WithPrev
    <3> HIDE DEF M4
    <3> QED BY <1>7, <1>9, <3>1, WithPrevFields
  <2> QED BY <2>1, <2>2
<1> HIDE DEF M4
<1>11. /\ block' \in [D -> Headers]
       /\ block'[a].free = FALSE
       /\ block'[a].next = M4[a].next /\ block'[a].prev = M4[a].prev
       /\ block'[a].bytes = M4[a].bytes
       /\ \A x \in D \ {a} : block'[x] = M4[x]
  <2>1. a \in D /\ M4 \in [D -> Headers]
    BY <1>6, <1>10
  <2> HIDE DEF D, a
  <2>2. M4[a] \in Headers
    BY <2>1
  <2>3. block'[a] = [M4[a] EXCEPT !.free = FALSE]
    BY <1>4, <2>1
  <2>4. /\ block'[a] \in Headers
        /\ block'[a].free = FALSE
        /\ block'[a].next = M4[a].next /\ block'[a].prev = M4[a].prev
        /\ block'[a].bytes = M4[a].bytes
    <3> DEFINE g == block'[a]  h == M4[a]
    <3>1. h \in Headers /\ g = [h EXCEPT !.free = FALSE]
      BY <2>2, <2>3
    <3> HIDE DEF g, h
    <3>2. g \in Headers
      BY <3>1 DEF Headers
    <3>3. g.free = FALSE /\ g.next = h.next /\ g.prev = h.prev /\ g.bytes = h.bytes
      BY <3>1 DEF Headers
    <3> QED BY <3>2, <3>3 DEF g, h
  <2>5. block' \in [D -> Headers]
    BY <1>4, <2>1, <2>4
  <2>6. \A x \in D \ {a} : block'[x] = M4[x]
    BY <1>4, <2>1
  <2> QED BY <2>4, <2>5, <2>6
<1>12. r # c /\ a # c /\ r \notin DOMAIN block
  BY <1>2 DEF Null
<1>13. /\ DOMAIN block' = D
       /\ block'[a].next = r /\ block'[a].prev = block[a].prev
       /\ block'[a].bytes = n /\ block'[a].free = FALSE
  BY <1>6, <1>8, <1>9, <1>10, <1>11, <1>12
<1>14. block'[r] = rest
  BY <1>2, <1>6, <1>8, <1>9, <1>10, <1>11, <1>12
<1>15. ASSUME NEW x \in DOMAIN block \ {a}
       PROVE  /\ block'[x].next = block[x].next
              /\ block'[x].bytes = block[x].bytes
              /\ block'[x].free = block[x].free
              /\ block'[x].prev = IF x = c THEN r ELSE block[x].prev
  <2>1. block'[x] = M4[x] /\ M3[x] = block[x]
    BY <1>6, <1>8, <1>9, <1>11
  <2>2. CASE x = c
    BY <1>10, <2>1, <2>2
  <2>3. CASE x # c
    BY <1>10, <2>1, <2>3
  <2> QED BY <2>2, <2>3
<1> QED BY <1>5, <1>11, <1>13, <1>14, <1>15 DEF Split, bytes

\* The pages and the blocks stay as they are but for flags.
SameShape ==
    /\ pages' = pages
    /\ DOMAIN block' = DOMAIN block
    /\ block' \in [DOMAIN block -> Headers]
    /\ \A x \in DOMAIN block :
           /\ block'[x].next = block[x].next
           /\ block'[x].prev = block[x].prev
           /\ block'[x].bytes = block[x].bytes

\* The block at a is taken, and no other changes.
LEMMA TakenFields ==
    ASSUME HeadersTyped, NEW a \in DOMAIN block, pages' = pages,
           block' = [block EXCEPT ![a].free = FALSE]
    PROVE  /\ SameShape
           /\ block'[a].free = FALSE
           /\ \A x \in DOMAIN block \ {a} : block'[x].free = block[x].free
<1> DEFINE g == block'[a]  h == block[a]
<1>1. /\ block \in [DOMAIN block -> Headers]
      /\ DOMAIN block' = DOMAIN block
      /\ \A x \in DOMAIN block \ {a} : block'[x] = block[x]
  BY DEF HeadersTyped
<1>2. h \in Headers /\ g = [h EXCEPT !.free = FALSE]
  BY <1>1
<1> HIDE DEF g, h
<1>3. g \in Headers
  BY <1>2 DEF Headers
<1>4. g.free = FALSE /\ g.next = h.next /\ g.prev = h.prev /\ g.bytes = h.bytes
  BY <1>2 DEF Headers
<1>5. block' \in [DOMAIN block -> Headers]
  BY <1>1, <1>3 DEF g
<1>6. ASSUME NEW x \in DOMAIN block
      PROVE  block'[x].next = block[x].next /\ block'[x].prev = block[x].prev
             /\ block'[x].bytes = block[x].bytes
  BY <1>1, <1>4 DEF g, h
<1>7. SameShape
  BY <1>1, <1>5, <1>6 DEF SameShape
<1> QED BY <1>1, <1>4, <1>7 DEF g

\* The block at a is freed, and no other changes.
LEMMA FreedFields ==
    ASSUME HeadersTyped, NEW a \in DOMAIN block, pages' = pages,
           block' = [block EXCEPT ![a].free = TRUE]
    PROVE  /\ SameShape
           /\ block'[a].free = TRUE
           /\ \A x \in DOMAIN block \ {a} : block'[x].free = block[x].free
<1> DEFINE g == block'[a]  h == block[a]
<1>1. /\ block \in [DOMAIN block -> Headers]
      /\ DOMAIN block' = DOMAIN block
      /\ \A x \in DOMAIN block \ {a} : block'[x] = block[x]
  BY DEF HeadersTyped
<1>2. h \in Headers /\ g = [h EXCEPT !.free = TRUE]
  BY <1>1
<1> HIDE DEF g, h
<1>3. g \in Headers
  BY <1>2 DEF Headers
<1>4. g.free = TRUE /\ g.next = h.next /\ g.prev = h.prev /\ g.bytes = h.bytes
  BY <1>2 DEF Headers
<1>5. block' \in [DOMAIN block -> Headers]
  BY <1>1, <1>3 DEF g
<1>6. ASSUME NEW x \in DOMAIN block
      PROVE  block'[x].next = block[x].next /\ block'[x].prev = block[x].prev
             /\ block'[x].bytes = block[x].bytes
  BY <1>1, <1>4 DEF g, h
<1>7. SameShape
  BY <1>1, <1>5, <1>6 DEF SameShape
<1> QED BY <1>1, <1>4, <1>7 DEF g

\* Flags do not matter to the chain.
LEMMA SameShapeKeepsChain ==
    ASSUME Typed, Chain, SameShape
    PROVE  HeadersTyped' /\ Chain'
<1>1. HeadersTyped'
  BY DEF Typed, HeadersTyped, SameShape
<1>2. /\ HeapEnd' = HeapEnd /\ DOMAIN block' = DOMAIN block
      /\ \A x \in DOMAIN block : End(x)' = End(x)
  BY DEF SameShape, HeapEnd, End
<1>3. Aligned' /\ Ordered'
  BY <1>2 DEF Chain, Aligned, Ordered
<1>4. Tiled'
  <2>1. 0 \in DOMAIN block' /\ block'[0].prev = Null
    BY <1>2 DEF Chain, Tiled, SameShape
  <2>2. ASSUME NEW x \in DOMAIN block'
        PROVE  IF block'[x].next = Null
               THEN End(x)' = HeapEnd'
               ELSE /\ block'[x].next = End(x)' /\ End(x)' \in DOMAIN block'
                    /\ block'[End(x)'].prev = x
    BY <1>2 DEF Chain, Tiled, SameShape
  <2> QED BY <2>1, <2>2 DEF Tiled
<1>5. Linked'
  BY DEF Chain, Linked, SameShape
<1> QED BY <1>1, <1>3, <1>4, <1>5 DEF Chain

\* Splitting the block found leaves a chain.
LEMMA SplitKeepsChain ==
    ASSUME Typed, Chain, block[cursor].free, block[cursor].bytes - n >= Header + Align,
           pages' = pages,
           block' = [SplitBlock EXCEPT ![cursor].free = FALSE],
           NEW a, a = cursor, NEW r, r = cursor + Header + n
    PROVE  /\ HeadersTyped' /\ Chain'
           /\ Split(a, r)
           /\ r \notin DOMAIN block
<1> DEFINE c == block[a].next
<1>1. HeadersTyped /\ Tiled /\ Ordered /\ Linked /\ a \in DOMAIN block /\ n \in Nat
  BY DEF Typed, Chain
<1>2. /\ Header \in Nat \ {0} /\ Align \in Nat \ {0}
      /\ HeapEnd \in Nat /\ HeapEnd' = HeapEnd
  BY HeapAssumption, HeapEndFacts DEF HeapEnd
<1>3. /\ a \in Nat /\ r \in Nat /\ a < r /\ End(a) \in Nat
      /\ block[a].bytes \in Nat /\ End(a) = a + Header + block[a].bytes
      /\ r + Header + Align <= End(a)
  BY <1>1, <1>2, Fields
<1>4. r \notin DOMAIN block
  <2>1. r \in DOMAIN block => End(a) <= r
    BY <1>1, <1>3 DEF Ordered
  <2> QED BY <1>2, <1>3, <2>1
<1>5. /\ c = Null => End(a) = HeapEnd
      /\ c # Null => c \in DOMAIN block /\ c = End(a) /\ a < c /\ block[c].prev = a
      /\ c # a /\ c # r
  BY <1>1, <1>2, <1>3, <1>4, NextFacts DEF Null
<1>6. Split(a, r)
  <2> HIDE DEF c
  <2>1. /\ HeadersTyped /\ n \in Nat /\ cursor \in DOMAIN block
        /\ cursor + Header + n \notin DOMAIN block
        /\ block[cursor].next # cursor
        /\ block[cursor].next # Null => block[cursor].next \in DOMAIN block
    BY <1>1, <1>4, <1>5 DEF c
  <2> QED BY <2>1, SplitFields
<1>7. /\ End(a)' = r /\ End(r)' = End(a)
      /\ \A x \in DOMAIN block \ {a} : End(x)' = End(x)
  <2>1. End(a)' = a + Header + block'[a].bytes /\ End(r)' = r + Header + block'[r].bytes
    BY DEF End
  <2>2. r = a + Header + n
    OBVIOUS
  <2>3. block'[a].bytes = n /\ block'[r].bytes = block[a].bytes - n - Header
    BY <1>6 DEF Split
  <2>4. End(a)' = r /\ End(r)' = End(a)
    BY <1>1, <1>2, <1>3, <2>1, <2>2, <2>3
  <2> QED BY <1>6, <2>4 DEF End, Split
<1>8. DOMAIN block' = DOMAIN block \cup {r}
  BY <1>6 DEF Split
<1>9. HeadersTyped'
  <2>1. DOMAIN block' \subseteq Nat
    BY <1>1, <1>3, <1>8 DEF HeadersTyped
  <2> QED BY <1>6, <2>1 DEF HeadersTyped, Split
<1>10. Aligned'
  <2>1. a % Align = 0 /\ n % Align = 0 /\ Header % Align = 0
    BY <1>1, HeapAssumption DEF Chain, Aligned, Typed
  <2>2. (a + Header) % Align = 0
    BY <1>2, <1>3, <2>1, MultipleSum
  <2>3. a + Header \in Int
    BY <1>2, <1>3
  <2>4. (a + Header + n) % Align = 0
    BY <1>1, <1>2, <2>1, <2>2, <2>3, MultipleSum
  <2> QED BY <1>8, <2>4 DEF Chain, Aligned
<1>11. Ordered'
  <2> SUFFICES ASSUME NEW x \in DOMAIN block', NEW y \in DOMAIN block'
               PROVE  End(x)' <= HeapEnd' /\ (x < y => End(x)' <= y)
    BY DEF Ordered
  <2>1. End(a) <= HeapEnd
    BY <1>1 DEF Ordered
  <2>2. y \in DOMAIN block /\ a < y => End(a) <= y
    BY <1>1 DEF Ordered
  <2>3. x \in DOMAIN block => End(x) <= HeapEnd /\ (x < a => End(x) <= a)
    BY <1>1 DEF Ordered
  <2>4. x \in DOMAIN block /\ y \in DOMAIN block /\ x < y => End(x) <= y
    BY <1>1 DEF Ordered
  <2>5. (x \in DOMAIN block => x \in Nat /\ End(x) \in Nat) /\ (y \in DOMAIN block => y \in Nat)
    BY <1>1, Fields
  <2>6. CASE x = r
    BY <1>2, <1>3, <1>7, <1>8, <2>1, <2>2, <2>5, <2>6
  <2>7. CASE x = a
    BY <1>2, <1>3, <1>7, <1>8, <2>1, <2>2, <2>5, <2>7
  <2>8. CASE x # a /\ x # r
    <3>1. x \in DOMAIN block /\ End(x)' = End(x)
      BY <1>7, <1>8, <2>8
    <3>2. CASE y = r /\ x < y
      <4>1. x < a
        <5>1. a < x => End(a) <= x
          BY <1>1, <3>1 DEF Ordered
        <5> QED BY <1>2, <1>3, <2>5, <2>8, <3>1, <3>2, <5>1
      <4> QED BY <1>2, <1>3, <2>3, <2>5, <3>1, <3>2, <4>1
    <3>3. CASE y # r
      BY <1>2, <1>8, <2>3, <2>4, <3>1, <3>3
    <3> QED BY <1>2, <2>3, <3>1, <3>2, <3>3
  <2> QED BY <2>6, <2>7, <2>8
<1>12. Tiled'
  <2>1. 0 \in DOMAIN block' /\ block'[0].prev = Null
    <3>1. 0 \in DOMAIN block /\ block[0].prev = Null
      BY <1>1 DEF Tiled
    <3>2. c # 0
      BY <1>3, <1>5 DEF Null
    <3>3. block'[0].prev = Null
      <4>1. CASE a = 0
        BY <1>6, <3>1, <4>1 DEF Split
      <4>2. CASE a # 0
        BY <1>6, <3>1, <3>2, <4>2 DEF Split
      <4> QED BY <4>1, <4>2
    <3> QED BY <1>8, <3>1, <3>3
  <2>2. ASSUME NEW x \in DOMAIN block'
        PROVE  IF block'[x].next = Null
               THEN End(x)' = HeapEnd'
               ELSE /\ block'[x].next = End(x)' /\ End(x)' \in DOMAIN block'
                    /\ block'[End(x)'].prev = x
    <3>1. CASE x = a
      <4>1. block'[a].next = r /\ block'[r].prev = a
        BY <1>6 DEF Split
      <4> QED BY <3>1, <1>3, <1>7, <1>8, <4>1 DEF Null
    <3>2. CASE x = r
      <4>1. block'[r].next = c
        BY <1>6 DEF Split
      <4>2. c # Null => c \in DOMAIN block' /\ block'[c].prev = r
        BY <1>5, <1>6, <1>8 DEF Split
      <4> QED BY <3>2, <1>2, <1>5, <1>7, <4>1, <4>2
    <3>3. CASE x # a /\ x # r
      <4> DEFINE y == block[x].next
      <4>1. x \in DOMAIN block /\ block'[x].next = y /\ End(x)' = End(x)
        BY <1>6, <1>7, <1>8, <3>3 DEF Split
      <4>2. CASE y = Null
        BY <1>1, <1>2, <4>1, <4>2, NextFacts
      <4>3. CASE y # Null
        <5>1. y \in DOMAIN block /\ y = End(x) /\ block[y].prev = x
          BY <1>1, <4>1, <4>3, NextFacts
        <5>2. y # c /\ y \in DOMAIN block'
          BY <1>5, <1>8, <3>3, <4>3, <5>1
        <5>3. block'[y].prev = x
          <6>1. CASE y = a
            BY <1>6, <5>1, <6>1 DEF Split
          <6>2. CASE y # a
            BY <1>6, <5>1, <5>2, <6>2 DEF Split
          <6> QED BY <6>1, <6>2
        <5> QED BY <4>1, <4>3, <5>1, <5>2, <5>3
      <4> QED BY <4>2, <4>3
    <3> QED BY <3>1, <3>2, <3>3
  <2> QED BY <2>1, <2>2 DEF Tiled
<1>13. Linked'
  <2> SUFFICES ASSUME NEW x \in DOMAIN block', x # 0
               PROVE  block'[x].prev \in DOMAIN block' /\ block'[block'[x].prev].next = x
    BY DEF Linked
  <2>1. CASE x = r
    BY <1>1, <1>6, <1>8, <2>1 DEF Split
  <2>2. CASE x = c
    <3>1. x \in DOMAIN block /\ x # a
      BY <1>4, <1>5, <1>8, <2>2
    <3> QED BY <1>5, <1>6, <1>8, <2>2, <3>1 DEF Split
  <2>3. CASE x # r /\ x # c
    <3> DEFINE w == block[x].prev
    <3>1. x \in DOMAIN block
      BY <1>8, <2>3
    <3>2. w \in DOMAIN block /\ block[w].next = x
      BY <1>1, <3>1 DEF Linked
    <3>3. block'[x].prev = w
      <4>1. CASE x = a
        BY <1>6, <4>1 DEF Split
      <4>2. CASE x # a
        BY <1>6, <2>3, <3>1, <4>2 DEF Split
      <4> QED BY <4>1, <4>2
    <3>4. w # a
      BY <2>3, <3>2
    <3>5. w \in DOMAIN block' /\ block'[w].next = x
      BY <1>6, <1>8, <3>2, <3>4 DEF Split
    <3> QED BY <3>3, <3>5
  <2> QED BY <2>1, <2>2, <2>3
<1> QED BY <1>4, <1>6, <1>9, <1>10, <1>11, <1>12, <1>13 DEF Chain

-----------------------------------------------------------------------------
(* extend() and shorten(): the last block grows, shrinks or gets a         *)
(* successor.                                                              *)

\* The block at a has v bytes, and nothing else of the headers changes.
Resized(a, v) ==
    /\ DOMAIN block' = DOMAIN block
    /\ block'[a].bytes = v
    /\ block'[a].next = block[a].next /\ block'[a].prev = block[a].prev
    /\ block'[a].free = block[a].free
    /\ \A x \in DOMAIN block \ {a} : block'[x] = block[x]

\* If the end of memory moves with the end of the last block, the chain stays.
LEMMA ResizeKeepsChain ==
    ASSUME Typed, Chain, NEW a \in DOMAIN block, block[a].next = Null,
           NEW v \in Nat, block' = WithBytes(block, a, v),
           HeapEnd' = a + Header + v
    PROVE  HeadersTyped' /\ Chain' /\ Resized(a, v)
<1>1. HeadersTyped /\ Tiled /\ Ordered /\ Linked
  BY DEF Typed, Chain
<1>2. Header \in Nat \ {0} /\ a \in Nat
  BY <1>1, HeapAssumption, Fields
<1>3. block' \in [DOMAIN block -> Headers] /\ Resized(a, v)
  <2> DEFINE D == DOMAIN block
  <2>1. block \in [D -> Headers] /\ a \in D
    BY <1>1 DEF HeadersTyped
  <2> HIDE DEF D
  <2>2. /\ block' \in [D -> Headers]
        /\ block'[a].bytes = v
        /\ block'[a].next = block[a].next /\ block'[a].prev = block[a].prev
        /\ block'[a].free = block[a].free
        /\ \A x \in D \ {a} : block'[x] = block[x]
    BY <2>1, WithBytesFields
  <2> QED BY <2>2 DEF Resized, D
<1>4. DOMAIN block' = DOMAIN block
  BY <1>3 DEF Resized
<1>5. HeadersTyped'
  BY <1>1, <1>3, <1>4 DEF HeadersTyped
<1>6. End(a)' = HeapEnd' /\ \A x \in DOMAIN block \ {a} : End(x)' = End(x)
  BY <1>3 DEF End, Resized
<1>7. Aligned'
  BY <1>4 DEF Chain, Aligned
<1>8. Ordered'
  <2> SUFFICES ASSUME NEW x \in DOMAIN block', NEW y \in DOMAIN block'
               PROVE  End(x)' <= HeapEnd' /\ (x < y => End(x)' <= y)
    BY DEF Ordered
  <2>1. x \in DOMAIN block /\ y \in DOMAIN block /\ y <= a /\ x <= a /\ (x # a => End(x) <= a)
    BY <1>4, LastFacts
  <2>2. x \in Nat /\ y \in Nat /\ End(x) \in Nat
    BY <1>1, <2>1, Fields
  <2>3. x < y => End(x) <= y
    BY <1>1, <2>1 DEF Ordered
  <2>4. CASE x = a
    BY <1>2, <1>6, <2>1, <2>2, <2>4
  <2>5. CASE x # a
    BY <1>2, <1>6, <2>1, <2>2, <2>3, <2>5
  <2> QED BY <2>4, <2>5
<1>9. Tiled'
  <2>1. 0 \in DOMAIN block' /\ block'[0].prev = Null
    BY <1>1, <1>3, <1>4 DEF Tiled, Resized
  <2>2. ASSUME NEW x \in DOMAIN block'
        PROVE  IF block'[x].next = Null
               THEN End(x)' = HeapEnd'
               ELSE /\ block'[x].next = End(x)' /\ End(x)' \in DOMAIN block'
                    /\ block'[End(x)'].prev = x
    <3>1. CASE x = a
      BY <1>3, <1>6, <3>1 DEF Resized
    <3>2. CASE x # a
      <4>1. x \in DOMAIN block /\ block'[x] = block[x] /\ End(x)' = End(x)
        BY <1>3, <1>4, <1>6, <3>2 DEF Resized
      <4>2. block[x].next # Null
        <5>1. ASSUME block[x].next = Null
              PROVE  FALSE
          <6>1. a <= x /\ x <= a
            BY <4>1, <5>1, LastFacts
          <6>2. x \in Nat
            BY <1>1, <4>1, Fields
          <6> QED BY <1>2, <3>2, <6>1, <6>2
        <5> QED BY <5>1
      <4>3. /\ block[x].next \in DOMAIN block /\ block[x].next = End(x)
            /\ block[block[x].next].prev = x
        BY <1>1, <4>1, <4>2, NextFacts
      <4>4. block'[block[x].next].prev = x
        BY <1>3, <4>3 DEF Resized
      <4> QED BY <1>4, <4>1, <4>2, <4>3, <4>4
    <3> QED BY <3>1, <3>2
  <2> QED BY <2>1, <2>2 DEF Tiled
<1>10. Linked'
  <2>1. \A x \in DOMAIN block : block'[x].prev = block[x].prev /\ block'[x].next = block[x].next
    BY <1>3 DEF Resized
  <2> QED BY <1>1, <1>4, <2>1 DEF Linked
<1> QED BY <1>3, <1>5, <1>7, <1>8, <1>9, <1>10 DEF Chain

\* The block at e follows a, and nothing else of the headers changes.
Appended(a, e) ==
    /\ DOMAIN block' = DOMAIN block \cup {e}
    /\ block'[e].next = Null /\ block'[e].prev = a
    /\ block'[e].bytes = Page - Header /\ block'[e].free = TRUE
    /\ block'[a].next = e /\ block'[a].prev = block[a].prev
    /\ block'[a].bytes = block[a].bytes /\ block'[a].free = block[a].free
    /\ \A x \in DOMAIN block \ {a} : block'[x] = block[x]

\* The headers with that of a new page at e, after a.
Grown(a, e) ==
    Put(e, [next |-> Null, prev |-> a, bytes |-> Page - Header, free |-> TRUE])

\* A new page that becomes a block of its own.
LEMMA AppendKeepsChain ==
    ASSUME Typed, Chain, NEW a \in DOMAIN block, block[a].next = Null,
           NEW e, e = HeapEnd, HeapEnd' = HeapEnd + Page,
           block' = WithNext(Grown(a, e), a, e)
    PROVE  HeadersTyped' /\ Chain' /\ Appended(a, e) /\ e \notin DOMAIN block
<1> DEFINE D == DOMAIN block \cup {e}
           new == [next |-> Null, prev |-> a, bytes |-> Page - Header, free |-> TRUE]
           M == Grown(a, e)
<1>1. HeadersTyped /\ Tiled /\ Ordered /\ Linked
  BY DEF Typed, Chain
<1>2. /\ Header \in Nat \ {0} /\ Page \in Nat /\ Header < Page /\ Align \in Nat \ {0}
      /\ a \in Nat /\ e \in Nat
  BY <1>1, HeapAssumption, Fields, HeapEndFacts
<1>3. e \notin DOMAIN block /\ End(a) = e /\ a < e
  <2>1. \A x \in DOMAIN block : x < End(x) /\ End(x) <= HeapEnd /\ x \in Nat /\ End(x) \in Nat
    BY <1>1, Fields DEF Ordered
  <2>2. \A x \in DOMAIN block : x < e
    BY <1>2, <2>1
  <2> QED BY <1>1, <1>2, <2>2, NextFacts
<1>4. M = [x \in D |-> IF x = e THEN new ELSE block[x]]
  BY DEF Grown, Put
<1>5. new \in Headers
  BY <1>2 DEF Headers, Links
<1>6. new.next = Null /\ new.prev = a /\ new.bytes = Page - Header /\ new.free = TRUE
  OBVIOUS
<1> HIDE DEF new
<1>7. /\ M \in [D -> Headers] /\ M[e] = new
      /\ \A x \in DOMAIN block : M[x] = block[x]
  BY <1>1, <1>3, <1>4, <1>5 DEF HeadersTyped
<1> HIDE DEF M
<1>8. /\ block' \in [D -> Headers]
      /\ block'[a].next = e
      /\ block'[a].prev = M[a].prev /\ block'[a].bytes = M[a].bytes
      /\ block'[a].free = M[a].free
      /\ \A x \in D \ {a} : block'[x] = M[x]
  <2>1. e \in Links /\ a \in D
    BY <1>2 DEF Links
  <2>2. block' = WithNext(M, a, e)
    BY DEF M
  <2> HIDE DEF D
  <2> QED BY <1>7, <2>1, <2>2, WithNextFields
<1>9. Appended(a, e)
  <2>1. e # a /\ DOMAIN block' = D
    BY <1>2, <1>3, <1>8
  <2>2. block'[e] = new
    BY <1>7, <1>8, <2>1
  <2>3. \A x \in DOMAIN block \ {a} : block'[x] = block[x]
    BY <1>7, <1>8
  <2>4. M[a] = block[a]
    BY <1>7
  <2> QED BY <1>6, <1>8, <2>1, <2>2, <2>3, <2>4 DEF Appended
<1>10. DOMAIN block' = DOMAIN block \cup {e}
  BY <1>9 DEF Appended
<1>11. HeadersTyped'
  <2>1. DOMAIN block' \subseteq Nat
    BY <1>1, <1>2, <1>10 DEF HeadersTyped
  <2> QED BY <1>8, <2>1 DEF HeadersTyped
<1>12. /\ End(e)' = HeapEnd'
       /\ \A x \in DOMAIN block : End(x)' = End(x)
  <2>1. End(e)' = e + Header + (Page - Header)
    BY <1>9 DEF Appended, End
  <2>2. \A x \in DOMAIN block : block'[x].bytes = block[x].bytes
    BY <1>9 DEF Appended
  <2>3. e + Header + (Page - Header) = HeapEnd'
    BY <1>2
  <2>4. \A x \in DOMAIN block : End(x)' = End(x)
    BY <2>2 DEF End
  <2> QED BY <2>1, <2>3, <2>4
<1>13. Aligned'
  BY <1>10, HeapEndFacts DEF Chain, Aligned
<1>14. Ordered'
  <2> SUFFICES ASSUME NEW x \in DOMAIN block', NEW y \in DOMAIN block'
               PROVE  End(x)' <= HeapEnd' /\ (x < y => End(x)' <= y)
    BY DEF Ordered
  <2>1. x \in DOMAIN block => x \in Nat /\ End(x) \in Nat /\ End(x) <= e
    BY <1>1, Fields DEF Ordered
  <2>2. y \in DOMAIN block => y \in Nat /\ y < End(y) /\ End(y) <= e /\ End(y) \in Nat
    BY <1>1, Fields DEF Ordered
  <2>3. x \in DOMAIN block /\ y \in DOMAIN block /\ x < y => End(x) <= y
    BY <1>1 DEF Ordered
  <2>4. CASE x = e
    BY <1>2, <1>10, <1>12, <2>2, <2>4
  <2>5. CASE x # e
    BY <1>2, <1>10, <1>12, <2>1, <2>3, <2>5
  <2> QED BY <2>4, <2>5
<1>15. Tiled'
  <2>1. 0 \in DOMAIN block' /\ block'[0].prev = Null
    <3>1. 0 \in DOMAIN block /\ block[0].prev = Null
      BY <1>1 DEF Tiled
    <3>2. \A x \in DOMAIN block : block'[x].prev = block[x].prev
      BY <1>9 DEF Appended
    <3> QED BY <1>10, <3>1, <3>2
  <2>2. ASSUME NEW x \in DOMAIN block'
        PROVE  IF block'[x].next = Null
               THEN End(x)' = HeapEnd'
               ELSE /\ block'[x].next = End(x)' /\ End(x)' \in DOMAIN block'
                    /\ block'[End(x)'].prev = x
    <3>1. CASE x = e
      BY <1>9, <1>12, <3>1 DEF Appended
    <3>2. CASE x = a
      <4>1. End(a)' = e /\ block'[a].next = e /\ block'[e].prev = a
        BY <1>3, <1>9, <1>12 DEF Appended
      <4> QED BY <1>2, <1>10, <3>2, <4>1 DEF Null
    <3>3. CASE x # a /\ x # e
      <4>1. x \in DOMAIN block /\ block'[x] = block[x] /\ End(x)' = End(x)
        BY <1>9, <1>10, <1>12, <3>3 DEF Appended
      <4>2. block[x].next # Null
        <5>1. ASSUME block[x].next = Null
              PROVE  FALSE
          <6>1. a <= x /\ x <= a
            BY <4>1, <5>1, LastFacts
          <6>2. x \in Nat
            BY <1>1, <4>1, Fields
          <6> QED BY <1>2, <3>3, <6>1, <6>2
        <5> QED BY <5>1
      <4>3. /\ block[x].next \in DOMAIN block /\ block[x].next = End(x)
            /\ block[block[x].next].prev = x
        BY <1>1, <4>1, <4>2, NextFacts
      <4>4. block'[block[x].next].prev = x
        <5>1. \A y \in DOMAIN block : block'[y].prev = block[y].prev
          BY <1>9 DEF Appended
        <5> QED BY <4>3, <5>1
      <4> QED BY <1>10, <4>1, <4>2, <4>3, <4>4
    <3> QED BY <3>1, <3>2, <3>3
  <2> QED BY <2>1, <2>2 DEF Tiled
<1>16. Linked'
  <2> SUFFICES ASSUME NEW x \in DOMAIN block', x # 0
               PROVE  block'[x].prev \in DOMAIN block' /\ block'[block'[x].prev].next = x
    BY DEF Linked
  <2>1. CASE x = e
    BY <1>9, <1>10, <2>1 DEF Appended
  <2>2. CASE x # e
    <3> DEFINE w == block[x].prev
    <3>1. x \in DOMAIN block
      BY <1>10, <2>2
    <3>2. w \in DOMAIN block /\ block[w].next = x
      BY <1>1, <3>1 DEF Linked
    <3>3. w # a
      <4>1. x # Null
        BY <1>1, <3>1, Fields DEF Null
      <4> QED BY <3>2, <4>1
    <3>4. block'[x].prev = w /\ block'[w].next = x
      <4>1. \A y \in DOMAIN block : block'[y].prev = block[y].prev
        BY <1>9 DEF Appended
      <4>2. \A y \in DOMAIN block \ {a} : block'[y].next = block[y].next
        BY <1>9 DEF Appended
      <4> QED BY <3>1, <3>2, <3>3, <4>1, <4>2
    <3> QED BY <1>10, <3>2, <3>4
  <2> QED BY <2>1, <2>2
<1> QED BY <1>3, <1>9, <1>11, <1>13, <1>14, <1>15, <1>16 DEF Chain

-----------------------------------------------------------------------------
(* Every action keeps the invariant.                                       *)

\* A step that changes neither the headers nor the areas.
LEMMA StaticKeeps ==
    ASSUME Typed, Chain, Owned, UNCHANGED <<block, pages, area>>
    PROVE  /\ HeadersTyped' /\ Chain' /\ Owned'
           /\ HeapEnd' = HeapEnd
<1>1. /\ HeapEnd' = HeapEnd /\ block' = block /\ area' = area
      /\ \A x : End(x)' = End(x)
  BY DEF HeapEnd, End
<1>2. HeadersTyped' /\ Aligned' /\ Linked' /\ Owned'
  BY <1>1 DEF Typed, HeadersTyped, Chain, Aligned, Linked, Owned
<1>3. Tiled' /\ Ordered'
  BY <1>1 DEF Chain, Tiled, Ordered
<1> QED BY <1>1, <1>2, <1>3 DEF Chain

\* init() maps one page and makes it one free block.
LEMMA InitKeeps == Init => HeapInv
<1> SUFFICES ASSUME Init PROVE HeapInv
  OBVIOUS
<1> DEFINE h == [next |-> Null, prev |-> Null, bytes |-> Page - Header, free |-> TRUE]
<1>1. /\ Page \in Nat /\ Header \in Nat \ {0} /\ Align \in Nat \ {0} /\ Header + Align <= Page
  BY HeapAssumption
<1>2. /\ h \in Headers
      /\ h.next = Null /\ h.prev = Null /\ h.bytes = Page - Header /\ h.free = TRUE
  BY <1>1 DEF Headers, Links
<1> HIDE DEF h
<1>3. DOMAIN block = {0} /\ block[0] = h /\ block \in [{0} -> Headers]
  BY <1>2 DEF Init, h
<1>4. /\ pages = 1 /\ cursor = 0 /\ pc = "idle" /\ n = 0 /\ need = 0 /\ extended = FALSE
      /\ failure = "none" /\ DOMAIN area = {} /\ area \in [{} -> Nat]
  BY DEF Init
<1>5. 0 % Align = 0
  BY <1>1
<1>6. Typed
  BY <1>3, <1>4, <1>5 DEF Typed, HeadersTyped
<1>7. HeapEnd = Page /\ End(0) = Page
  BY <1>1, <1>2, <1>3, <1>4 DEF HeapEnd, End
<1>8. Chain
  BY <1>1, <1>2, <1>3, <1>5, <1>7 DEF Chain, Aligned, Tiled, Linked, Ordered
<1>9. Owned /\ FreeNeighbours
  BY <1>2, <1>3, <1>4 DEF Owned, FreeNeighbours
<1>10. MergeFree /\ Scanned /\ Enough /\ Rest /\ Emptied
  BY <1>3, <1>4 DEF MergeFree, Scanned, Enough, Rest, Emptied
<1> QED BY <1>4, <1>6, <1>8, <1>9, <1>10 DEF HeapInv

\* A call of allocate() starts its scan at the first block.
LEMMA AllocateStartsKeeps ==
    ASSUME HeapInv, NEW size \in Sizes, AllocateStarts(size)
    PROVE  HeapInv'
<1>1. /\ Typed /\ Chain /\ Owned /\ FreeNeighbours /\ Rest /\ failure = "none"
  BY DEF HeapInv
<1>2. /\ pc = "idle" /\ pc' = "find" /\ n' = AlignUp(size, Align)
      /\ UNCHANGED <<block, pages, cursor, need, extended, area, failure>>
  BY DEF AllocateStarts, At
<1>3. HeadersTyped' /\ Chain' /\ Owned'
  BY <1>1, <1>2, StaticKeeps
<1>4. n' \in Nat /\ n' % Align = 0
  BY <1>2, HeapAssumption, AlignUpBounds
<1>5. Typed'
  BY <1>1, <1>2, <1>3, <1>4 DEF Typed
<1>6. FreeNeighbours'
  BY <1>1, <1>2 DEF FreeNeighbours
<1>7. MergeFree' /\ Enough' /\ Rest' /\ Emptied'
  BY <1>2 DEF MergeFree, Enough, Rest, Emptied
<1>8. Scanned'
  <2>1. cursor' = 0 /\ extended' = FALSE
    BY <1>1, <1>2 DEF Rest, Typed
  <2>2. \A b \in DOMAIN block' : ~(b < cursor')
    BY <1>3, <2>1 DEF HeadersTyped
  <2> QED BY <2>1, <2>2 DEF Scanned
<1> QED BY <1>1, <1>2, <1>3, <1>5, <1>6, <1>7, <1>8 DEF HeapInv

\* A block that does not fit joins those the scan has passed.
LEMMA FindContinuesKeeps ==
    ASSUME HeapInv, FindContinues
    PROVE  HeapInv'
<1>1. /\ Typed /\ Chain /\ Owned /\ FreeNeighbours /\ Scanned /\ failure = "none"
  BY DEF HeapInv
<1>2. /\ pc = "find" /\ ~Fits(cursor) /\ block[cursor].next # Null
      /\ cursor' = block[cursor].next
      /\ UNCHANGED <<block, pages, pc, n, need, extended, area, failure>>
  BY DEF FindContinues, At
<1>3. HeadersTyped' /\ Chain' /\ Owned'
  BY <1>1, <1>2, StaticKeeps
<1>4. cursor' \in DOMAIN block /\ cursor' = End(cursor)
  BY <1>1, <1>2, NextFacts DEF Typed, Chain
<1>5. Typed'
  BY <1>1, <1>2, <1>3, <1>4 DEF Typed
<1>6. FreeNeighbours'
  BY <1>1, <1>2 DEF FreeNeighbours
<1>7. MergeFree' /\ Enough' /\ Rest' /\ Emptied'
  BY <1>2 DEF MergeFree, Enough, Rest, Emptied
<1>8. Scanned'
  <2>1. \A b : Fits(b)' <=> Fits(b)
    BY <1>2 DEF Fits
  <2>2. ASSUME NEW b \in DOMAIN block, b < cursor'
        PROVE  ~Fits(b)
    <3>1. cursor < b => End(cursor) <= b
      BY <1>1 DEF Typed, Chain, Ordered
    <3>2. b \in Nat /\ cursor \in Nat /\ cursor' \in Nat
      BY <1>1, <1>4 DEF Typed, HeadersTyped
    <3>3. b < cursor \/ b = cursor
      BY <1>4, <2>2, <3>1, <3>2
    <3> QED BY <1>1, <1>2, <3>3 DEF Scanned
  <2> QED BY <1>1, <1>2, <2>1, <2>2 DEF Scanned
<1> QED BY <1>1, <1>2, <1>3, <1>5, <1>6, <1>7, <1>8 DEF HeapInv

\* The second scan does not fail, and the pages counted before it suffice.
LEMMA FindEndsKeeps ==
    ASSUME HeapInv, FindEnds
    PROVE  HeapInv'
<1>1. /\ Typed /\ Chain /\ Owned /\ FreeNeighbours /\ Scanned /\ failure = "none"
  BY DEF HeapInv
<1>2. pc = "find" /\ ~Fits(cursor) /\ block[cursor].next = Null
  BY DEF FindEnds, At
<1>3. ~extended
  <2> SUFFICES ASSUME extended PROVE FALSE
    OBVIOUS
  <2>1. PICK b \in DOMAIN block : Fits(b)
    BY <1>1, <1>2 DEF Scanned
  <2>2. b <= cursor
    BY <1>1, <1>2, LastFacts DEF Typed
  <2>3. b \in Nat /\ cursor \in Nat
    BY <1>1 DEF Typed, HeadersTyped
  <2> QED BY <1>1, <1>2, <2>1, <2>2, <2>3 DEF Scanned
<1>4. /\ need' = RequiredPages /\ extended' = TRUE /\ cursor' = 0 /\ pc' = "extend"
      /\ UNCHANGED <<n, failure, block, pages, area>>
  BY <1>3 DEF FindEnds
<1>5. HeadersTyped' /\ Chain' /\ Owned'
  BY <1>1, <1>4, StaticKeeps
<1>6. need' \in Nat \ {0} /\ n + Header <= Page * need'
  <2>1. n \in Nat /\ Header \in Nat \ {0} /\ Page \in Nat \ {0} /\ n + Header \in Nat \ {0}
    <3>1. Page \in Nat /\ Header \in Nat \ {0} /\ Align \in Nat \ {0} /\ Header + Align <= Page
      BY HeapAssumption
    <3>2. n \in Nat
      BY <1>1 DEF Typed
    <3> QED BY <3>1, <3>2
  <2> QED BY <1>4, <2>1, RequiredPagesSuffice DEF RequiredPages
<1>7. cursor' \in DOMAIN block
  BY <1>1, <1>4 DEF Chain, Tiled
<1>8. Typed'
  BY <1>1, <1>4, <1>5, <1>6, <1>7 DEF Typed
<1>9. FreeNeighbours'
  BY <1>1, <1>2, <1>4 DEF FreeNeighbours
<1>10. MergeFree' /\ Scanned' /\ Rest' /\ Emptied'
  BY <1>4 DEF MergeFree, Scanned, Rest, Emptied
<1>11. Enough'
  <2> SUFFICES ASSUME NEW a \in DOMAIN block
               PROVE  n + (IF block[a].free THEN 0 ELSE Header)
                          <= Page * need' + (IF block[a].free THEN block[a].bytes ELSE 0)
    BY <1>4, <1>6 DEF Enough
  <2> DEFINE mapped == Page * need'
  <2>1. block[a].bytes \in Nat /\ n \in Nat /\ Header \in Nat /\ Page \in Nat
    BY <1>1, HeapAssumption, Fields DEF Typed
  <2>2. mapped \in Nat
    <3>1. need' \in Nat /\ Page \in Nat
      BY <1>6, <2>1
    <3> QED BY <3>1, NatProduct
  <2>3. n + Header <= mapped
    BY <1>6
  <2> HIDE DEF mapped
  <2>4. n + (IF block[a].free THEN 0 ELSE Header)
            <= mapped + (IF block[a].free THEN block[a].bytes ELSE 0)
    BY <2>1, <2>2, <2>3
  <2> QED BY <2>4 DEF mapped
<1> QED BY <1>1, <1>4, <1>5, <1>8, <1>9, <1>10, <1>11 DEF HeapInv

\* One more page: a block of its own, or more of the last one if it is free.
LEMMA ExtendContinuesKeeps ==
    ASSUME HeapInv, ExtendContinues
    PROVE  HeapInv'
<1>1. /\ Typed /\ Chain /\ Owned /\ FreeNeighbours /\ Enough /\ failure = "none"
  BY DEF HeapInv
<1>2. /\ pc = "extend" /\ block[cursor].next # Null
      /\ cursor' = block[cursor].next
      /\ UNCHANGED <<block, pages, pc, n, need, extended, area, failure>>
  BY DEF ExtendContinues, At
<1>3. HeadersTyped' /\ Chain' /\ Owned'
  BY <1>1, <1>2, StaticKeeps
<1>4. cursor' \in DOMAIN block
  BY <1>1, <1>2, NextFacts DEF Typed, Chain
<1>5. Typed'
  BY <1>1, <1>2, <1>3, <1>4 DEF Typed
<1>6. FreeNeighbours' /\ Enough'
  BY <1>1, <1>2 DEF FreeNeighbours, Enough
<1>7. MergeFree' /\ Scanned' /\ Rest' /\ Emptied'
  BY <1>2 DEF MergeFree, Scanned, Rest, Emptied
<1> QED BY <1>1, <1>2, <1>3, <1>5, <1>6, <1>7 DEF HeapInv

\* What is left to map after one more page.
LEMMA EnoughAfterExtend ==
    ASSUME Typed, Enough, pc = "extend", NEW a \in DOMAIN block, block[a].next = Null,
           need' = need - 1
    PROVE  /\ need' \in Nat /\ Page * need' \in Nat
           /\ block[a].free => n <= Page * need' + Page + block[a].bytes
           /\ ~block[a].free => n + Header <= Page * need' + Page
<1> DEFINE m == Page * need'
<1>1. Page \in Nat /\ need \in Nat /\ need >= 1
  BY HeapAssumption DEF Typed, Enough
<1>2. need' \in Nat /\ need = need' + 1
  BY <1>1
<1>3. m \in Nat /\ Page * need = m + Page
  BY <1>1, <1>2
<1>4. /\ block[a].free => n + 0 <= Page * need + block[a].bytes
      /\ ~block[a].free => n + Header <= Page * need + 0
  BY DEF Enough
<1>5. n \in Nat /\ block[a].bytes \in Nat /\ Header \in Nat
  BY HeapAssumption, Fields DEF Typed
<1> HIDE DEF m
<1>6. /\ block[a].free => n <= m + Page + block[a].bytes
      /\ ~block[a].free => n + Header <= m + Page
  BY <1>1, <1>3, <1>4, <1>5
<1> QED BY <1>2, <1>3, <1>6 DEF m

\* The last page asked for; the second scan will find the block it has made.
LEMMA ExtendKeeps ==
    ASSUME HeapInv, Extend
    PROVE  HeapInv' /\ HeapEnd' = HeapEnd + Page
<1> PICK a \in DOMAIN block : a = cursor
  BY DEF HeapInv, Typed
<1>1. /\ Typed /\ Chain /\ Owned /\ FreeNeighbours /\ Enough /\ Rest /\ failure = "none"
  BY DEF HeapInv
<1>2. /\ pc = "extend" /\ block[a].next = Null
      /\ pages' = pages + 1 /\ need' = need - 1 /\ cursor' = 0
      /\ pc' = IF need = 1 THEN "find" ELSE "extend"
      /\ UNCHANGED <<n, extended, area, failure>>
  BY DEF Extend, At
<1>3. /\ Page \in Nat /\ Header \in Nat \ {0} /\ Align \in Nat \ {0}
      /\ Header + Align <= Page /\ Header < Page
  BY HeapAssumption
<1>4. HeapEnd' = HeapEnd + Page /\ HeapEnd \in Nat
  <2>1. pages \in Nat
    BY <1>1 DEF Typed
  <2>2. HeapEnd' = Page * (pages + 1)
    BY <1>2 DEF HeapEnd
  <2> QED BY <1>1, <1>3, <2>1, <2>2, HeapEndFacts DEF HeapEnd
<1>5. /\ need' \in Nat /\ Page * need' \in Nat
      /\ block[a].free => n <= Page * need' + Page + block[a].bytes
      /\ ~block[a].free => n + Header <= Page * need' + Page
  BY <1>1, <1>2, EnoughAfterExtend
<1>6. need \in Nat /\ need >= 1
  BY <1>1, <1>2 DEF Enough, Typed
<1>7. n \in Nat /\ a \in Nat /\ block[a].bytes \in Nat /\ End(a) = a + Header + block[a].bytes
      /\ End(a) = HeapEnd
  BY <1>1, <1>2, Fields, NextFacts DEF Typed, Chain
<1>8. block[a].free \/ ~block[a].free
  OBVIOUS
<1>9. \A b \in DOMAIN block : b <= a
  BY <1>1, <1>2, LastFacts
<1>10. \A b \in DOMAIN block : block[b].next = Null => b = a
  <2> SUFFICES ASSUME NEW b \in DOMAIN block, block[b].next = Null
               PROVE  b = a
    OBVIOUS
  <2>1. a <= b /\ b <= a
    BY <1>1, <1>9, LastFacts
  <2>2. b \in Nat
    BY <1>1 DEF Typed, HeadersTyped
  <2> QED BY <1>7, <2>1, <2>2
<1> DEFINE Kept ==
        /\ HeadersTyped' /\ Chain' /\ Owned' /\ FreeNeighbours'
        /\ pc' = "find" => \E b \in DOMAIN block' : Fits(b)'
        /\ pc' = "extend" => Enough'
<1>11. ASSUME block[a].free PROVE Kept
  <2> DEFINE v == block[a].bytes + Page
  <2>1. block' = WithBytes(block, a, v)
    BY <1>11 DEF Extend, WithBytes
  <2>2. v \in Nat /\ HeapEnd' = a + Header + v
    BY <1>3, <1>4, <1>7
  <2>3. HeadersTyped' /\ Chain' /\ Resized(a, v)
    BY <1>1, <1>2, <2>1, <2>2, ResizeKeepsChain
  <2> HIDE DEF v
  <2>4. /\ DOMAIN block' = DOMAIN block
        /\ block'[a].bytes = v
        /\ \A x \in DOMAIN block : block'[x].next = block[x].next /\ block'[x].free = block[x].free
        /\ \A x \in DOMAIN block \ {a} : block'[x].bytes = block[x].bytes
    BY <2>3 DEF Resized
  <2>5. Owned'
    <3>1. \A x \in DOMAIN block : ~block'[x].free => x + Header \in DOMAIN area'
      BY <1>1, <1>2, <2>4 DEF Owned
    <3>2. ASSUME NEW p \in DOMAIN area
          PROVE  /\ p \in Nat /\ p - Header \in DOMAIN block /\ ~block'[p - Header].free
                 /\ area[p] <= block'[p - Header].bytes
      <4>1. /\ p \in Nat /\ p - Header \in DOMAIN block /\ ~block[p - Header].free
            /\ area[p] <= block[p - Header].bytes
        BY <1>1 DEF Owned
      <4>2. p - Header # a
        BY <1>11, <4>1
      <4> QED BY <2>4, <4>1, <4>2
    <3> QED BY <1>2, <2>4, <3>1, <3>2 DEF Owned
  <2>6. FreeNeighbours'
    <3>1. ASSUME NEW x \in DOMAIN block, block[x].free, block[x].next # Null,
                 block[block[x].next].free
          PROVE  FALSE
      BY <1>1, <1>2, <3>1 DEF FreeNeighbours
    <3>2. \A x \in DOMAIN block : block[x].next # Null => block[x].next \in DOMAIN block
      BY <1>1, NextFacts DEF Typed, Chain
    <3> QED BY <2>4, <3>1, <3>2 DEF FreeNeighbours
  <2>7. pc' = "find" => \E b \in DOMAIN block' : Fits(b)'
    <3> SUFFICES ASSUME need = 1 PROVE Fits(a)'
      BY <1>2, <2>4
    <3> DEFINE m == Page * need'
    <3>1. m = 0 /\ n <= m + Page + block[a].bytes
      BY <1>2, <1>3, <1>5, <1>11
    <3> HIDE DEF m
    <3>2. n <= v
      BY <1>3, <1>7, <3>1 DEF v
    <3>3. Fits(a)' <=> (block'[a].free /\ block'[a].bytes >= n)
      BY <1>2 DEF Fits
    <3> QED BY <1>7, <1>11, <2>2, <2>4, <3>2, <3>3
  <2>8. pc' = "extend" => Enough'
    <3> DEFINE m == Page * need'
    <3>1. m \in Nat /\ n <= m + Page + block[a].bytes
      BY <1>5, <1>11
    <3> HIDE DEF m
    <3>2. n <= m + v
      BY <1>3, <1>7, <3>1 DEF v
    <3>3. ASSUME NEW x \in DOMAIN block, block'[x].next = Null
          PROVE  n + (IF block'[x].free THEN 0 ELSE Header)
                     <= m + (IF block'[x].free THEN block'[x].bytes ELSE 0)
      <4>1. x = a
        BY <1>10, <2>4, <3>3
      <4>2. n + 0 <= m + v
        BY <1>7, <3>2
      <4> QED BY <1>11, <2>4, <4>1, <4>2
    <3>4. pc' = "extend" => need' >= 1
      BY <1>2, <1>6
    <3> QED BY <1>2, <2>4, <3>3, <3>4 DEF Enough, m
  <2> QED BY <2>3, <2>5, <2>6, <2>7, <2>8
<1>12. ASSUME ~block[a].free PROVE Kept
  <2>1. PICK e : e = HeapEnd
    OBVIOUS
  <2>2. block' = WithNext(Grown(a, e), a, e)
    BY <1>12, <2>1 DEF Extend, WithNext, Grown
  <2>3. HeadersTyped' /\ Chain' /\ Appended(a, e) /\ e \notin DOMAIN block
    BY <1>1, <1>2, <1>4, <2>1, <2>2, AppendKeepsChain
  <2>4. /\ DOMAIN block' = DOMAIN block \cup {e}
        /\ block'[e].next = Null /\ block'[e].bytes = Page - Header /\ block'[e].free = TRUE
        /\ block'[a].next = e
        /\ \A x \in DOMAIN block : block'[x].bytes = block[x].bytes /\ block'[x].free = block[x].free
        /\ \A x \in DOMAIN block \ {a} : block'[x].next = block[x].next
    BY <2>3 DEF Appended
  <2>5. Owned'
    <3>1. \A x \in DOMAIN block' : ~block'[x].free => x + Header \in DOMAIN area'
      BY <1>1, <1>2, <2>4 DEF Owned
    <3>2. \A p \in DOMAIN area :
              /\ p \in Nat /\ p - Header \in DOMAIN block /\ ~block'[p - Header].free
              /\ area[p] <= block'[p - Header].bytes
      BY <1>1, <2>4 DEF Owned
    <3> QED BY <1>2, <2>4, <3>1, <3>2 DEF Owned
  <2>6. FreeNeighbours'
    <3>1. ASSUME NEW x \in DOMAIN block, block[x].free, block[x].next # Null,
                 block[block[x].next].free
          PROVE  FALSE
      BY <1>1, <1>2, <3>1 DEF FreeNeighbours
    <3>2. \A x \in DOMAIN block : block[x].next # Null => block[x].next \in DOMAIN block
      BY <1>1, NextFacts DEF Typed, Chain
    <3>3. ASSUME NEW x \in DOMAIN block', block'[x].free, block'[x].next # Null
          PROVE  ~block'[block'[x].next].free
      <4>1. x \in DOMAIN block \ {a}
        BY <1>12, <2>4, <3>3
      <4> QED BY <2>4, <3>1, <3>2, <3>3, <4>1
    <3> QED BY <3>3 DEF FreeNeighbours
  <2>7. pc' = "find" => \E b \in DOMAIN block' : Fits(b)'
    <3> SUFFICES ASSUME need = 1 PROVE Fits(e)'
      BY <1>2, <2>4
    <3>1. Page * need' = 0
      BY <1>2, <1>3
    <3>2. n <= Page - Header
      BY <1>3, <1>5, <1>7, <1>12, <3>1
    <3>3. Fits(e)' <=> (block'[e].free /\ block'[e].bytes >= n)
      BY <1>2, <2>1 DEF Fits
    <3> QED BY <1>3, <1>7, <2>4, <3>2, <3>3
  <2>8. pc' = "extend" => Enough'
    <3> DEFINE m == Page * need'
    <3>1. m \in Nat /\ n + Header <= m + Page
      BY <1>5, <1>12
    <3> HIDE DEF m
    <3>2. n + 0 <= m + (Page - Header)
      BY <1>3, <1>7, <3>1
    <3>3. ASSUME NEW x \in DOMAIN block', block'[x].next = Null
          PROVE  n + (IF block'[x].free THEN 0 ELSE Header)
                     <= m + (IF block'[x].free THEN block'[x].bytes ELSE 0)
      <4>1. e # Null
        BY <1>4, <2>1 DEF Null
      <4>2. x = e
        BY <1>10, <2>4, <3>3, <4>1
      <4> QED BY <2>4, <3>2, <4>2
    <3>4. pc' = "extend" => need' >= 1
      BY <1>2, <1>6
    <3> QED BY <1>2, <3>3, <3>4 DEF Enough, m
  <2> QED BY <2>3, <2>5, <2>6, <2>7, <2>8
<1>13. /\ HeadersTyped' /\ Chain' /\ Owned' /\ FreeNeighbours'
       /\ pc' = "find" => \E b \in DOMAIN block' : Fits(b)'
       /\ pc' = "extend" => Enough'
  BY <1>8, <1>11, <1>12
<1>14. Enough' /\ MergeFree' /\ Emptied'
  <2>1. pc' \in {"find", "extend"}
    BY <1>2
  <2> QED BY <1>13, <2>1 DEF Enough, MergeFree, Emptied
<1>15. Rest'
  BY <1>2 DEF Rest
<1>16. Typed'
  <2>1. cursor' \in DOMAIN block'
    BY <1>2, <1>13 DEF Chain, Tiled
  <2>2. pages' \in Nat \ {0}
    BY <1>1, <1>2 DEF Typed
  <2> QED BY <1>1, <1>2, <1>5, <1>13, <2>1, <2>2 DEF Typed
<1>17. Scanned'
  <2>1. \A b \in DOMAIN block' : ~(b < cursor')
    BY <1>2, <1>13 DEF HeadersTyped
  <2> QED BY <1>13, <2>1 DEF Scanned
<1> QED BY <1>1, <1>2, <1>3, <1>4, <1>13, <1>14, <1>15, <1>16, <1>17 DEF HeapInv

\* The call is over: the parts of the invariant about calls in progress.
LEMMA ReturnKeeps ==
    ASSUME Return, HeadersTyped', Chain', Owned',
           pages' \in Nat \ {0}, area' \in [DOMAIN area' -> Nat],
           failure' = "none", Emptied',
           \A x \in DOMAIN block' :
               block'[x].free /\ block'[x].next # Null => ~block'[block'[x].next].free
    PROVE  HeapInv'
<1>1. pc' = "idle" /\ cursor' = 0 /\ n' = 0 /\ need' = 0 /\ extended' = FALSE
  BY DEF Return
<1>2. 0 \in DOMAIN block' /\ 0 % Align = 0
  BY HeapAssumption DEF Chain, Tiled
<1>3. Typed'
  BY <1>1, <1>2 DEF Typed
<1>4. FreeNeighbours' /\ MergeFree' /\ Scanned' /\ Enough' /\ Rest'
  BY <1>1 DEF FreeNeighbours, MergeFree, Scanned, Enough, Rest
<1> QED BY <1>3, <1>4 DEF HeapInv

\* The block found is cut to size or given whole, and is an area from then on.
LEMMA AllocateReturnsKeeps ==
    ASSUME HeapInv, AllocateReturns
    PROVE  HeapInv'
<1> PICK a \in DOMAIN block : a = cursor
  BY DEF HeapInv, Typed
<1>1. /\ Typed /\ Chain /\ Owned /\ FreeNeighbours /\ failure = "none"
  BY DEF HeapInv
<1>2. /\ pc = "find" /\ block[a].free /\ block[a].bytes >= n
      /\ block' = [SplitBlock EXCEPT ![cursor].free = FALSE]
      /\ area' = [p \in DOMAIN area \cup {a + Header} |->
                     IF p = a + Header THEN n ELSE area[p]]
      /\ Return /\ pages' = pages /\ failure' = failure
  BY DEF AllocateReturns, At, Fits
<1>3. /\ Header \in Nat \ {0} /\ Align \in Nat \ {0} /\ n \in Nat
      /\ a \in Nat /\ block[a].bytes \in Nat
  BY <1>1, HeapAssumption, Fields DEF Typed
<1>4. /\ DOMAIN area' = DOMAIN area \cup {a + Header}
      /\ area'[a + Header] = n
      /\ \A p \in DOMAIN area \ {a + Header} : area'[p] = area[p]
      /\ area' \in [DOMAIN area' -> Nat]
  BY <1>1, <1>2, <1>3 DEF Typed
<1>5. Emptied'
  BY <1>4 DEF Emptied
<1>6. pages' \in Nat \ {0} /\ failure' = "none"
  BY <1>1, <1>2 DEF Typed
<1>7. ASSUME NEW x \in DOMAIN block, block[x].free, block[x].next # Null
      PROVE  block[x].next \in DOMAIN block /\ ~block[block[x].next].free
  <2>1. block[x].next \in DOMAIN block
    BY <1>1, <1>7, NextFacts DEF Typed, Chain
  <2> QED BY <1>1, <1>2, <1>7, <2>1 DEF FreeNeighbours
<1>8. \A p \in DOMAIN area : /\ p \in Nat /\ p - Header \in DOMAIN block \ {a}
                             /\ ~block[p - Header].free
                             /\ area[p] <= block[p - Header].bytes
  BY <1>1, <1>2 DEF Owned
<1>9. a + Header \notin DOMAIN area
  <2>1. (a + Header) - Header = a
    BY <1>3
  <2> QED BY <1>8, <2>1
<1>10. ASSUME block[a].bytes - n >= Header + Align
       PROVE  HeapInv'
  <2>1. PICK r : r = cursor + Header + n
    OBVIOUS
  <2>2. HeadersTyped' /\ Chain' /\ Split(a, r) /\ r \notin DOMAIN block
    BY <1>1, <1>2, <1>10, <2>1, SplitKeepsChain
  <2>3. /\ DOMAIN block' = DOMAIN block \cup {r}
        /\ block'[a].next = r /\ block'[a].bytes = n /\ block'[a].free = FALSE
        /\ block'[r].next = block[a].next /\ block'[r].free = TRUE
        /\ \A x \in DOMAIN block \ {a} :
               /\ block'[x].next = block[x].next
               /\ block'[x].bytes = block[x].bytes
               /\ block'[x].free = block[x].free
    BY <2>2 DEF Split
  <2>4. Owned'
    <3>1. ASSUME NEW x \in DOMAIN block', ~block'[x].free
          PROVE  x + Header \in DOMAIN area'
      <4>1. CASE x = a
        BY <1>4, <4>1
      <4>2. CASE x # a
        <5>1. x \in DOMAIN block /\ ~block[x].free
          BY <2>3, <3>1, <4>2
        <5> QED BY <1>1, <1>4, <5>1 DEF Owned
      <4> QED BY <4>1, <4>2
    <3>2. ASSUME NEW p \in DOMAIN area'
          PROVE  /\ p \in Nat /\ p - Header \in DOMAIN block' /\ ~block'[p - Header].free
                 /\ area'[p] <= block'[p - Header].bytes
      <4>1. CASE p = a + Header
        <5>1. p \in Nat /\ p - Header = a
          BY <1>3, <4>1
        <5> QED BY <1>3, <1>4, <2>3, <4>1, <5>1
      <4>2. CASE p # a + Header
        <5>1. p \in DOMAIN area /\ area'[p] = area[p]
          BY <1>4, <4>2
        <5> QED BY <1>8, <2>3, <5>1
      <4> QED BY <4>1, <4>2
    <3> QED BY <3>1, <3>2 DEF Owned
  <2>5. ASSUME NEW x \in DOMAIN block', block'[x].free, block'[x].next # Null
        PROVE  ~block'[block'[x].next].free
    <3>1. x # a
      BY <2>3, <2>5
    <3>2. CASE x = r
      <4>1. block[a].next # Null /\ block'[x].next = block[a].next
        BY <2>3, <2>5, <3>2
      <4>2. block[a].next \in DOMAIN block /\ ~block[block[a].next].free
        BY <1>2, <1>7, <4>1
      <4> QED BY <1>2, <2>3, <4>1, <4>2
    <3>3. CASE x # r
      <4>1. x \in DOMAIN block /\ block[x].free /\ block[x].next # Null
            /\ block'[x].next = block[x].next
        BY <2>3, <2>5, <3>1, <3>3
      <4>2. block[x].next \in DOMAIN block /\ ~block[block[x].next].free
        BY <1>7, <4>1
      <4> QED BY <1>2, <2>3, <4>1, <4>2
    <3> QED BY <3>2, <3>3
  <2> QED BY <1>2, <1>4, <1>5, <1>6, <2>2, <2>4, <2>5, ReturnKeeps
<1>11. ASSUME ~(block[a].bytes - n >= Header + Align)
       PROVE  HeapInv'
  <2>1. block' = [block EXCEPT ![a].free = FALSE]
    BY <1>2, <1>11 DEF SplitBlock
  <2>2. /\ SameShape /\ block'[a].free = FALSE
        /\ \A x \in DOMAIN block \ {a} : block'[x].free = block[x].free
    BY <1>1, <1>2, <2>1, TakenFields DEF Typed
  <2>3. HeadersTyped' /\ Chain'
    BY <1>1, <2>2, SameShapeKeepsChain
  <2>4. /\ DOMAIN block' = DOMAIN block
        /\ \A x \in DOMAIN block : block'[x].next = block[x].next /\ block'[x].bytes = block[x].bytes
    BY <2>2 DEF SameShape
  <2>5. Owned'
    <3>1. ASSUME NEW x \in DOMAIN block', ~block'[x].free
          PROVE  x + Header \in DOMAIN area'
      <4>1. CASE x = a
        BY <1>4, <4>1
      <4>2. CASE x # a
        <5>1. x \in DOMAIN block /\ ~block[x].free
          BY <2>2, <2>4, <3>1, <4>2
        <5> QED BY <1>1, <1>4, <5>1 DEF Owned
      <4> QED BY <4>1, <4>2
    <3>2. ASSUME NEW p \in DOMAIN area'
          PROVE  /\ p \in Nat /\ p - Header \in DOMAIN block' /\ ~block'[p - Header].free
                 /\ area'[p] <= block'[p - Header].bytes
      <4>1. CASE p = a + Header
        <5>1. p \in Nat /\ p - Header = a
          BY <1>3, <4>1
        <5> QED BY <1>2, <1>3, <1>4, <2>2, <2>4, <4>1, <5>1
      <4>2. CASE p # a + Header
        <5>1. p \in DOMAIN area /\ area'[p] = area[p]
          BY <1>4, <4>2
        <5> QED BY <1>8, <2>2, <2>4, <5>1
      <4> QED BY <4>1, <4>2
    <3> QED BY <3>1, <3>2 DEF Owned
  <2>6. ASSUME NEW x \in DOMAIN block', block'[x].free, block'[x].next # Null
        PROVE  ~block'[block'[x].next].free
    <3>1. x # a /\ block'[x].next = block[x].next
      BY <2>2, <2>4, <2>6
    <3>2. block[x].next \in DOMAIN block /\ ~block[block[x].next].free
      BY <1>7, <2>2, <2>4, <2>6, <3>1
    <3> QED BY <1>2, <2>2, <3>1, <3>2
  <2> QED BY <1>2, <1>4, <1>5, <1>6, <2>3, <2>5, <2>6, ReturnKeeps
<1> QED BY <1>10, <1>11

\* The area is one of a block in use, so that there is no double free.
LEMMA FreeStartsKeeps ==
    ASSUME HeapInv, NEW p \in DOMAIN area, FreeStarts(p)
    PROVE  HeapInv'
<1> DEFINE a == p - Header
<1>1. /\ Typed /\ Chain /\ Owned /\ FreeNeighbours /\ Rest /\ failure = "none"
  BY DEF HeapInv
<1>2. /\ a \in DOMAIN block /\ ~block[a].free /\ p \in Nat
  BY <1>1 DEF Owned
<1>3. /\ pc = "idle" /\ cursor' = a /\ pc' = "merge next"
      /\ area' = [q \in DOMAIN area \ {p} |-> area[q]]
      /\ block' = [block EXCEPT ![a].free = TRUE]
      /\ UNCHANGED <<pages, n, need, extended, failure>>
  BY <1>2 DEF FreeStarts, At
<1>4. Header \in Nat \ {0} /\ a \in Nat
  BY <1>1, <1>2, HeapAssumption, Fields DEF Typed
<1> HIDE DEF a
<1>5. /\ SameShape /\ block'[a].free = TRUE
      /\ \A x \in DOMAIN block \ {a} : block'[x].free = block[x].free
  BY <1>1, <1>2, <1>3, FreedFields DEF Typed
<1>6. HeadersTyped' /\ Chain'
  BY <1>1, <1>5, SameShapeKeepsChain
<1>7. /\ DOMAIN block' = DOMAIN block
      /\ \A x \in DOMAIN block : block'[x].next = block[x].next /\ block'[x].bytes = block[x].bytes
  BY <1>5 DEF SameShape
<1>8. /\ DOMAIN area' = DOMAIN area \ {p}
      /\ \A q \in DOMAIN area \ {p} : area'[q] = area[q]
      /\ area' \in [DOMAIN area' -> Nat]
  BY <1>1, <1>3 DEF Typed
<1>9. Owned'
  <2>1. ASSUME NEW x \in DOMAIN block', ~block'[x].free
        PROVE  x + Header \in DOMAIN area'
    <3>1. x # a /\ x \in DOMAIN block /\ ~block[x].free
      BY <1>5, <1>7, <2>1
    <3>2. x + Header # p
      <4>1. x \in Nat
        BY <1>1, <3>1 DEF Typed, HeadersTyped
      <4> QED BY <1>2, <1>4, <3>1, <4>1 DEF a
    <3> QED BY <1>1, <1>8, <3>1, <3>2 DEF Owned
  <2>2. ASSUME NEW q \in DOMAIN area'
        PROVE  /\ q \in Nat /\ q - Header \in DOMAIN block' /\ ~block'[q - Header].free
               /\ area'[q] <= block'[q - Header].bytes
    <3>1. q \in DOMAIN area /\ q # p /\ area'[q] = area[q]
      BY <1>8
    <3>2. /\ q \in Nat /\ q - Header \in DOMAIN block /\ ~block[q - Header].free
          /\ area[q] <= block[q - Header].bytes
      BY <1>1, <3>1 DEF Owned
    <3>3. q - Header # a
      BY <1>2, <1>4, <3>1, <3>2 DEF a
    <3> QED BY <1>5, <1>7, <3>1, <3>2, <3>3
  <2> QED BY <2>1, <2>2 DEF Owned
<1>10. FreeNeighbours'
  <2>1. ASSUME NEW x \in DOMAIN block, block'[x].free, block'[x].next # Null,
               block'[block'[x].next].free
        PROVE  a \in {x, block[x].next}
    <3>1. block'[x].next = block[x].next /\ block[x].next \in DOMAIN block
      BY <1>1, <1>7, <2>1, NextFacts DEF Typed, Chain
    <3> SUFFICES ASSUME x # a, block[x].next # a PROVE FALSE
      OBVIOUS
    <3>2. block[x].free /\ block[block[x].next].free
      BY <1>5, <2>1, <3>1
    <3> QED BY <1>1, <1>3, <2>1, <3>1, <3>2 DEF FreeNeighbours
  <2> QED BY <1>3, <1>7, <2>1 DEF FreeNeighbours
<1>11. Typed'
  BY <1>1, <1>2, <1>3, <1>6, <1>7, <1>8 DEF Typed
<1>12. MergeFree' /\ Scanned' /\ Enough' /\ Emptied'
  BY <1>3, <1>5 DEF MergeFree, Scanned, Enough, Emptied
<1>13. Rest'
  BY <1>1, <1>3 DEF Rest
<1> QED BY <1>1, <1>3, <1>6, <1>9, <1>10, <1>11, <1>12, <1>13 DEF HeapInv

\* After the block freed has absorbed the next, it has no free successor.
LEMMA FreeMergesNextKeeps ==
    ASSUME HeapInv, FreeMergesNext
    PROVE  HeapInv'
<1> PICK a \in DOMAIN block : a = cursor
  BY DEF HeapInv, Typed
<1> DEFINE b == block[a].next
<1>1. /\ Typed /\ Chain /\ Owned /\ FreeNeighbours /\ MergeFree /\ Rest /\ failure = "none"
  BY DEF HeapInv
<1>2. /\ pc = "merge next" /\ pc' = "merge prev" /\ cursor' = a /\ block[a].free
      /\ block' = IF b # Null /\ block[b].free THEN Absorb(a, b) ELSE block
      /\ UNCHANGED <<pages, n, need, extended, area, failure>>
  BY <1>1 DEF FreeMergesNext, At, MergeFree
<1>3. \A x \in DOMAIN block : block[x].next # Null => block[x].next \in DOMAIN block
  BY <1>1, NextFacts DEF Typed, Chain
<1>4. ASSUME NEW x \in DOMAIN block, block[x].free, block[x].next # Null,
             block[block[x].next].free
      PROVE  x = a \/ block[x].next = a
  BY <1>1, <1>2, <1>4 DEF FreeNeighbours
<1> DEFINE Kept ==
        /\ HeadersTyped' /\ Chain' /\ Owned'
        /\ a \in DOMAIN block' /\ block'[a].free
        /\ \A x \in DOMAIN block' :
               block'[x].free /\ block'[x].next # Null /\ block'[block'[x].next].free =>
                   block'[x].next = a
<1>5. ASSUME b # Null, block[b].free
      PROVE  Kept
  <2>1. block' = Absorb(a, b)
    BY <1>2, <1>5
  <2>2. HeadersTyped' /\ Chain' /\ Owned'
    BY <1>1, <1>2, <1>5, <2>1, AbsorbKeeps
  <2>3. /\ b \in DOMAIN block /\ b # a /\ block[b].next # a /\ block[b].next # b
        /\ block[b].next # Null => block[b].next \in DOMAIN block
    <3>1. /\ HeadersTyped /\ Tiled /\ a < b /\ b \in DOMAIN block
          /\ block[b].next # Null => block[b].next \in DOMAIN block /\ b < block[b].next
      BY <1>1, <1>3, <1>5, NextFacts DEF Typed, Chain
    <3>2. a \in Nat /\ b \in Nat /\ (block[b].next # Null => block[b].next \in Nat)
      BY <3>1, Fields
    <3> QED BY <3>1, <3>2 DEF Null
  <2>4. Absorbed(a, b)
    BY <1>1, <2>1, <2>3, AbsorbFields DEF Typed
  <2>5. /\ DOMAIN block' = DOMAIN block \ {b}
        /\ block'[a].free /\ block'[a].next = block[b].next
        /\ \A x \in DOMAIN block' \ {a} :
               block'[x].next = block[x].next /\ block'[x].free = block[x].free
    BY <1>2, <2>4 DEF Absorbed
  <2>6. ASSUME NEW x \in DOMAIN block', block'[x].free, block'[x].next # Null,
               block'[block'[x].next].free
        PROVE  block'[x].next = a
    <3>1. CASE x = a
      <4> DEFINE c == block[b].next
      <4>1. c # Null /\ c \in DOMAIN block /\ block'[c].free
        BY <2>3, <2>5, <2>6, <3>1
      <4>2. c # a /\ c \in DOMAIN block'
        BY <2>3, <2>5, <4>1
      <4>3. block[c].free
        BY <2>5, <4>1, <4>2
      <4>4. b = a \/ c = a
        BY <1>4, <1>5, <2>3, <4>1, <4>3
      <4> QED BY <2>3, <4>4
    <3>2. CASE x # a
      <4>1. /\ x \in DOMAIN block /\ block[x].free /\ block[x].next # Null
            /\ block'[x].next = block[x].next
        BY <2>5, <2>6, <3>2
      <4>2. CASE block[x].next = a
        BY <4>1, <4>2
      <4>3. CASE block[x].next # a
        <5> DEFINE y == block[x].next
        <5>1. y \in DOMAIN block /\ y # b
          <6>1. y = End(x) /\ y \in DOMAIN block /\ block[y].prev = x
            BY <1>1, <4>1, NextFacts DEF Typed, Chain
          <6>2. block[b].prev = a
            BY <1>1, <1>5, NextFacts DEF Typed, Chain
          <6> QED BY <3>2, <6>1, <6>2
        <5>2. y \in DOMAIN block' \ {a}
          BY <2>5, <4>3, <5>1
        <5>3. block[y].free
          BY <2>5, <2>6, <4>1, <5>2
        <5> QED BY <1>4, <3>2, <4>1, <4>3, <5>3
      <4> QED BY <4>2, <4>3
    <3> QED BY <3>1, <3>2
  <2> QED BY <2>2, <2>3, <2>5, <2>6
<1>6. ASSUME ~(b # Null /\ block[b].free)
      PROVE  Kept
  <2>1. block' = block
    BY <1>2, <1>6
  <2>2. HeadersTyped' /\ Chain' /\ Owned'
    BY <1>1, <1>2, <2>1, StaticKeeps
  <2>3. ASSUME NEW x \in DOMAIN block, block[x].free, block[x].next # Null,
               block[block[x].next].free
        PROVE  block[x].next = a
    BY <1>4, <1>6, <2>3
  <2> QED BY <1>2, <2>1, <2>2, <2>3
<1>7. Kept
  BY <1>5, <1>6
<1>8. Typed'
  BY <1>1, <1>2, <1>7 DEF Typed
<1>9. FreeNeighbours' /\ MergeFree'
  BY <1>2, <1>7 DEF FreeNeighbours, MergeFree
<1>10. Scanned' /\ Enough' /\ Rest' /\ Emptied'
  BY <1>1, <1>2 DEF Scanned, Enough, Rest, Emptied
<1> QED BY <1>1, <1>2, <1>7, <1>8, <1>9, <1>10 DEF HeapInv

\* After the block before has absorbed the block freed, no two neighbours are
\* free.
LEMMA FreeMergesPrevKeeps ==
    ASSUME HeapInv, FreeMergesPrev
    PROVE  HeapInv'
<1> PICK b \in DOMAIN block : b = cursor
  BY DEF HeapInv, Typed
<1> DEFINE a == block[b].prev
<1>1. /\ Typed /\ Chain /\ Owned /\ FreeNeighbours /\ MergeFree /\ Rest /\ failure = "none"
  BY DEF HeapInv
<1>2. /\ pc = "merge prev" /\ pc' = "shorten" /\ cursor' = 0 /\ block[b].free
      /\ block' = IF a # Null /\ block[a].free THEN Absorb(a, b) ELSE block
      /\ UNCHANGED <<pages, n, need, extended, area, failure>>
  BY <1>1 DEF FreeMergesPrev, At, MergeFree
<1>3. \A x \in DOMAIN block : block[x].next # Null => block[x].next \in DOMAIN block
  BY <1>1, NextFacts DEF Typed, Chain
<1>4. ASSUME NEW x \in DOMAIN block, block[x].free, block[x].next # Null,
             block[block[x].next].free
      PROVE  block[x].next = b
  BY <1>1, <1>2, <1>4 DEF FreeNeighbours
<1>5. \A x \in DOMAIN block : block[x].next = b => x = a
  <2> SUFFICES ASSUME NEW x \in DOMAIN block, block[x].next = b PROVE x = a
    OBVIOUS
  <2>1. b # Null
    <3>1. b \in Nat
      BY <1>1 DEF Typed, HeadersTyped
    <3> QED BY <3>1 DEF Null
  <2> QED BY <1>1, <2>1, NextFacts DEF Typed, Chain
<1> DEFINE Kept ==
        /\ HeadersTyped' /\ Chain' /\ Owned'
        /\ \A x \in DOMAIN block' :
               block'[x].free /\ block'[x].next # Null => ~block'[block'[x].next].free
<1>6. ASSUME a # Null, block[a].free
      PROVE  Kept
  <2>1. block' = Absorb(a, b)
    BY <1>2, <1>6
  <2>2. a \in DOMAIN block /\ block[a].next = b
    <3>1. b # 0
      BY <1>1, <1>6 DEF Chain, Tiled
    <3> QED BY <1>1, <3>1 DEF Chain, Linked
  <2>3. /\ b # Null /\ b # a /\ block[b].next # a /\ block[b].next # b
        /\ block[b].next # Null => block[b].next \in DOMAIN block
    <3>1. /\ HeadersTyped /\ Tiled /\ b \in Nat
      BY <1>1, Fields DEF Typed, Chain
    <3>2. b # Null
      BY <3>1 DEF Null
    <3>3. /\ a < b
          /\ block[b].next # Null => block[b].next \in DOMAIN block /\ b < block[b].next
      BY <2>2, <3>1, <3>2, NextFacts
    <3>4. a \in Nat /\ (block[b].next # Null => block[b].next \in Nat)
      BY <2>2, <3>1, <3>3, Fields
    <3> QED BY <3>1, <3>2, <3>3, <3>4 DEF Null
  <2> HIDE DEF a
  <2>4. HeadersTyped' /\ Chain' /\ Owned'
    BY <1>1, <1>2, <1>6, <2>1, <2>2, <2>3, AbsorbKeeps
  <2>5. Absorbed(a, b)
    BY <1>1, <2>1, <2>2, <2>3, AbsorbFields DEF Typed
  <2>6. /\ DOMAIN block' = DOMAIN block \ {b}
        /\ block'[a].free /\ block'[a].next = block[b].next
        /\ \A x \in DOMAIN block' \ {a} :
               block'[x].next = block[x].next /\ block'[x].free = block[x].free
    BY <1>6, <2>5 DEF Absorbed
  <2>7. ASSUME NEW x \in DOMAIN block', block'[x].free, block'[x].next # Null,
               block'[block'[x].next].free
        PROVE  FALSE
    <3>1. CASE x = a
      <4> DEFINE c == block[b].next
      <4>1. c # Null /\ c \in DOMAIN block /\ block'[c].free
        BY <2>3, <2>6, <2>7, <3>1
      <4>2. c # a /\ c \in DOMAIN block'
        BY <2>3, <2>6, <4>1
      <4>3. block[c].free
        BY <2>6, <4>1, <4>2
      <4>4. c = b
        BY <1>2, <1>4, <4>1, <4>3
      <4> QED BY <2>3, <4>4
    <3>2. CASE x # a
      <4>1. /\ x \in DOMAIN block /\ block[x].free /\ block[x].next # Null
            /\ block'[x].next = block[x].next
        BY <2>6, <2>7, <3>2
      <4> DEFINE y == block[x].next
      <4>2. y \in DOMAIN block /\ y # b
        BY <1>3, <1>5, <3>2, <4>1
      <4>3. block[y].free
        BY <1>6, <2>2, <2>6, <2>7, <4>1, <4>2
      <4> QED BY <1>4, <4>1, <4>2, <4>3
    <3> QED BY <3>1, <3>2
  <2> QED BY <2>4, <2>7
<1>7. ASSUME ~(a # Null /\ block[a].free)
      PROVE  Kept
  <2>1. block' = block
    BY <1>2, <1>7
  <2>2. HeadersTyped' /\ Chain' /\ Owned'
    BY <1>1, <1>2, <2>1, StaticKeeps
  <2>3. ASSUME NEW x \in DOMAIN block, block[x].free, block[x].next # Null,
               block[block[x].next].free
        PROVE  FALSE
    <3>1. x = a /\ x # Null
      <4>1. x = a
        BY <1>4, <1>5, <2>3
      <4>2. x \in Nat
        BY <1>1 DEF Typed, HeadersTyped
      <4> QED BY <4>1, <4>2 DEF Null
    <3> QED BY <1>7, <2>3, <3>1
  <2> QED BY <2>1, <2>2, <2>3
<1>8. Kept
  BY <1>6, <1>7
<1>9. Typed'
  <2>1. cursor' \in DOMAIN block'
    BY <1>2, <1>8 DEF Chain, Tiled
  <2> QED BY <1>1, <1>2, <1>8, <2>1 DEF Typed
<1>10. FreeNeighbours'
  BY <1>8 DEF FreeNeighbours
<1>11. MergeFree' /\ Scanned' /\ Enough' /\ Rest' /\ Emptied'
  BY <1>1, <1>2 DEF MergeFree, Scanned, Enough, Rest, Emptied
<1> QED BY <1>1, <1>2, <1>8, <1>9, <1>10, <1>11 DEF HeapInv

\* A page less; what the last block loses was free.
LEMMA ShortenContinuesKeeps ==
    ASSUME HeapInv, ShortenContinues
    PROVE  HeapInv'
<1>1. /\ Typed /\ Chain /\ Owned /\ FreeNeighbours /\ Rest /\ failure = "none"
  BY DEF HeapInv
<1>2. /\ pc = "shorten" /\ block[cursor].next # Null
      /\ cursor' = block[cursor].next
      /\ UNCHANGED <<block, pages, pc, n, need, extended, area, failure>>
  BY DEF ShortenContinues, At
<1>3. HeadersTyped' /\ Chain' /\ Owned'
  BY <1>1, <1>2, StaticKeeps
<1>4. cursor' \in DOMAIN block
  BY <1>1, <1>2, NextFacts DEF Typed, Chain
<1>5. Typed'
  BY <1>1, <1>2, <1>3, <1>4 DEF Typed
<1>6. FreeNeighbours'
  BY <1>1, <1>2 DEF FreeNeighbours
<1>7. MergeFree' /\ Scanned' /\ Enough' /\ Rest' /\ Emptied'
  BY <1>1, <1>2 DEF MergeFree, Scanned, Enough, Rest, Emptied
<1> QED BY <1>1, <1>2, <1>3, <1>5, <1>6, <1>7 DEF HeapInv

\* The page unmapped is memory of the last block, which is free.
LEMMA ShortenKeeps ==
    ASSUME HeapInv, Shorten
    PROVE  /\ HeapInv'
           /\ \A p \in DOMAIN area : p + area[p] <= HeapEnd'
<1> PICK a \in DOMAIN block : a = cursor
  BY DEF HeapInv, Typed
<1>1. /\ Typed /\ Chain /\ Owned /\ FreeNeighbours /\ Rest /\ failure = "none"
  BY DEF HeapInv
<1> DEFINE v == LastPage - (a + Header)
<1>2. /\ pc = "shorten" /\ pages > 1 /\ block[a].next = Null /\ block[a].free
      /\ a + Header <= LastPage
      /\ block' = WithBytes(block, a, v)
      /\ pages' = pages - 1 /\ cursor' = 0
      /\ UNCHANGED <<pc, n, need, extended, area, failure>>
  BY DEF Shorten, Shortens, At, WithBytes
<1>3. /\ Header \in Nat \ {0} /\ a \in Nat /\ LastPage \in Nat /\ pages \in Nat
  BY <1>1, HeapAssumption, HeapEndFacts, Fields DEF Typed
<1>4. HeapEnd' = LastPage
  BY <1>2 DEF HeapEnd, LastPage
<1>5. v \in Nat /\ HeapEnd' = a + Header + v
  BY <1>2, <1>3, <1>4
<1> HIDE DEF v
<1>6. HeadersTyped' /\ Chain' /\ Resized(a, v)
  BY <1>1, <1>2, <1>5, ResizeKeepsChain
<1>7. /\ DOMAIN block' = DOMAIN block
      /\ \A x \in DOMAIN block : block'[x].next = block[x].next /\ block'[x].free = block[x].free
      /\ \A x \in DOMAIN block \ {a} : block'[x].bytes = block[x].bytes
  BY <1>6 DEF Resized
<1>8. ASSUME NEW p \in DOMAIN area
      PROVE  /\ p \in Nat /\ p - Header \in DOMAIN block \ {a}
             /\ ~block[p - Header].free /\ area[p] <= block[p - Header].bytes
  BY <1>1, <1>2 DEF Owned
<1>9. Owned'
  <2>1. \A x \in DOMAIN block : ~block'[x].free => x + Header \in DOMAIN area'
    BY <1>1, <1>2, <1>7 DEF Owned
  <2> QED BY <1>2, <1>7, <1>8, <2>1 DEF Owned
<1>10. ASSUME NEW p \in DOMAIN area
       PROVE  p + area[p] <= HeapEnd'
  <2> DEFINE b == p - Header
  <2>1. b \in DOMAIN block \ {a} /\ area[p] <= block[b].bytes /\ p \in Nat /\ area[p] \in Nat
    BY <1>1, <1>8 DEF Typed
  <2>2. End(b) <= a
    BY <1>1, <1>2, <2>1, LastFacts
  <2>3. End(b) = b + Header + block[b].bytes /\ b \in Nat /\ block[b].bytes \in Nat
    BY <1>1, <2>1, Fields DEF Typed
  <2> QED BY <1>2, <1>3, <1>4, <2>1, <2>2, <2>3
<1>11. FreeNeighbours'
  <2>1. ASSUME NEW x \in DOMAIN block, block[x].free, block[x].next # Null
        PROVE  block[x].next \in DOMAIN block /\ ~block[block[x].next].free
    <3>1. block[x].next \in DOMAIN block
      BY <1>1, <2>1, NextFacts DEF Typed, Chain
    <3> QED BY <1>1, <1>2, <2>1, <3>1 DEF FreeNeighbours
  <2> QED BY <1>7, <2>1 DEF FreeNeighbours
<1>12. Typed'
  <2>1. cursor' \in DOMAIN block'
    BY <1>2, <1>6 DEF Chain, Tiled
  <2>2. pages' \in Nat \ {0}
    BY <1>2, <1>3
  <2> QED BY <1>1, <1>2, <1>6, <2>1, <2>2 DEF Typed
<1>13. MergeFree' /\ Scanned' /\ Enough' /\ Rest' /\ Emptied'
  BY <1>1, <1>2 DEF MergeFree, Scanned, Enough, Rest, Emptied
<1> QED BY <1>1, <1>2, <1>6, <1>9, <1>10, <1>11, <1>12, <1>13 DEF HeapInv

\* When the last area has been given back, the merges have left one block, and
\* the shortening one page.
LEMMA FreeReturnsKeeps ==
    ASSUME HeapInv, FreeReturns
    PROVE  HeapInv'
<1>1. /\ Typed /\ Chain /\ Owned /\ FreeNeighbours /\ failure = "none"
  BY DEF HeapInv
<1>2. /\ pc = "shorten" /\ Return
      /\ \/ pages = 1
         \/ Keeps(cursor)
         \/ block[cursor].next = Null /\ ~Shortens
      /\ UNCHANGED <<block, pages, area, failure>>
  BY DEF FreeReturns, At
<1>3. HeadersTyped' /\ Chain' /\ Owned'
  BY <1>1, <1>2, StaticKeeps
<1>4. ASSUME NEW x \in DOMAIN block, block[x].free, block[x].next # Null
      PROVE  block[x].next \in DOMAIN block /\ ~block[block[x].next].free
  <2>1. block[x].next \in DOMAIN block
    BY <1>1, <1>4, NextFacts DEF Typed, Chain
  <2> QED BY <1>1, <1>2, <1>4, <2>1 DEF FreeNeighbours
<1>5. ASSUME DOMAIN area = {}
      PROVE  pages = 1 /\ DOMAIN block = {0}
  <2>1. \A x \in DOMAIN block : block[x].free
    BY <1>1, <1>5 DEF Owned
  <2>2. 0 \in DOMAIN block
    BY <1>1 DEF Chain, Tiled
  <2>3. block[0].next = Null
    BY <1>4, <2>1, <2>2
  <2>4. DOMAIN block = {0}
    <3>1. \A x \in DOMAIN block : x <= 0 /\ x \in Nat
      BY <1>1, <2>2, <2>3, LastFacts DEF Typed, HeadersTyped
    <3> QED BY <2>2, <3>1
  <2>5. cursor = 0
    BY <1>1, <2>4 DEF Typed
  <2>6. ~Keeps(cursor)
    BY <2>1, <2>2, <2>5 DEF Keeps
  <2>7. ASSUME pages # 1
        PROVE  FALSE
    <3>1. pages > 1
      <4>1. pages \in Nat \ {0}
        BY <1>1 DEF Typed
      <4> QED BY <2>7, <4>1
    <3>2. Page <= LastPage /\ LastPage \in Nat
      BY <1>1, <3>1, HeapEndFacts
    <3>3. 0 + Header <= LastPage
      <4>1. Header \in Nat /\ Align \in Nat /\ Page \in Nat /\ Header + Align <= Page
        BY HeapAssumption
      <4> QED BY <3>2, <4>1
    <3>4. Shortens
      BY <2>1, <2>2, <2>5, <3>3 DEF Shortens
    <3> QED BY <1>2, <2>6, <2>7, <3>4
  <2> QED BY <2>4, <2>7
<1>6. Emptied'
  BY <1>2, <1>5 DEF Emptied
<1>7. pages' \in Nat \ {0} /\ area' \in [DOMAIN area' -> Nat]
  BY <1>1, <1>2 DEF Typed
<1> QED BY <1>1, <1>2, <1>3, <1>4, <1>6, <1>7, ReturnKeeps

\* A step that changes nothing.
LEMMA StutterKeeps ==
    ASSUME HeapInv, UNCHANGED vars
    PROVE  HeapInv'
<1>1. /\ UNCHANGED <<block, pages, cursor, pc, n, need, extended, area, failure>>
  BY DEF vars, call
<1>2. HeadersTyped' /\ Chain' /\ Owned'
  BY <1>1, StaticKeeps DEF HeapInv
<1>3. Typed'
  BY <1>1, <1>2 DEF HeapInv, Typed
<1>4. FreeNeighbours' /\ MergeFree' /\ Scanned' /\ Enough' /\ Rest' /\ Emptied'
  BY <1>1 DEF HeapInv, FreeNeighbours, MergeFree, Scanned, Fits, Enough, Rest, Emptied
<1> QED BY <1>1, <1>2, <1>3, <1>4 DEF HeapInv

-----------------------------------------------------------------------------
(* The theorems.                                                           *)

\* The invariant is inductive.
LEMMA NextKeeps == HeapInv /\ [Next]_vars => HeapInv'
<1> SUFFICES ASSUME HeapInv, [Next]_vars PROVE HeapInv'
  OBVIOUS
<1>1. ASSUME NEW size \in Sizes, AllocateStarts(size) PROVE HeapInv'
  BY <1>1, AllocateStartsKeeps
<1>2. ASSUME NEW p \in DOMAIN area, FreeStarts(p) PROVE HeapInv'
  BY <1>2, FreeStartsKeeps
<1>3. ASSUME Inside PROVE HeapInv'
  BY <1>3, FindContinuesKeeps, FindEndsKeeps, ExtendContinuesKeeps, ExtendKeeps,
     AllocateReturnsKeeps, FreeMergesNextKeeps, FreeMergesPrevKeeps,
     ShortenContinuesKeeps, ShortenKeeps, FreeReturnsKeeps DEF Inside
<1>4. CASE UNCHANGED vars
  BY <1>4, StutterKeeps
<1> QED BY <1>1, <1>2, <1>3, <1>4 DEF Next

\* The invariant holds in every state of the heap: at every step of allocate()
\* and free(), not only between the calls.
THEOREM HeapInvariant == Spec => []HeapInv
BY InitKeeps, NextKeeps, PTL DEF Spec

\* Splitting, extending, merging and shortening keep the list of blocks a tiling
\* of the mapped pages (heap.hpp).
THEOREM HeapIsTiled == Spec => []Tiled
<1>1. HeapInv => Tiled
  BY DEF HeapInv, Chain
<1> QED BY <1>1, HeapInvariant, PTL

\* free() leaves no two free neighbours and gives back what the heap does not
\* need, so that a heap that is not in use is one page and one block.
THEOREM HeapIsCoalesced == Spec => []Coalesced
<1>1. HeapInv => Coalesced
  BY DEF HeapInv, FreeNeighbours, Emptied, Coalesced
<1> QED BY <1>1, HeapInvariant, PTL

\* The pages that allocate() maps are enough, so that it does not return
\* nullptr, and free() does not panic for an area that a caller holds.
THEOREM HeapCallsSucceed == Spec => []CallsSucceed
<1>1. HeapInv => CallsSucceed
  BY DEF HeapInv, CallsSucceed
<1> QED BY <1>1, HeapInvariant, PTL

\* The area handed out is aligned, mapped and apart from all the others.
LEMMA AllocateReturnsTakes ==
    ASSUME HeapInv, AllocateReturns
    PROVE  Memory!Next
<1> PICK a \in DOMAIN block : a = cursor
  BY DEF HeapInv, Typed
<1> DEFINE p == a + Header
<1>1. Typed /\ Chain /\ Owned
  BY DEF HeapInv
<1>2. /\ block[a].free /\ block[a].bytes >= n
      /\ area' = [q \in DOMAIN area \cup {p} |-> IF q = p THEN n ELSE area[q]]
      /\ pages' = pages
  BY DEF AllocateReturns, Fits
<1>3. /\ Header \in Nat \ {0} /\ Align \in Nat \ {0} /\ n \in Nat
      /\ a \in Nat /\ block[a].bytes \in Nat /\ End(a) = a + Header + block[a].bytes
      /\ HeapEnd \in Nat
  BY <1>1, HeapAssumption, Fields, HeapEndFacts DEF Typed
<1>4. p % Align = 0
  <2>1. a % Align = 0 /\ Header % Align = 0
    BY <1>1, HeapAssumption DEF Chain, Aligned
  <2>2. a \in Int /\ Header \in Int /\ Align \in Nat \ {0}
    BY <1>3
  <2>3. (a + Header) % Align = 0
    BY <2>1, <2>2, MultipleSum
  <2> QED BY <2>3
<1>5. p + n <= HeapEnd
  <2>1. End(a) <= HeapEnd
    BY <1>1 DEF Chain, Ordered
  <2> QED BY <1>2, <1>3, <2>1
<1>6. ASSUME NEW q \in DOMAIN area
      PROVE  p # q /\ (p + n <= q \/ q + area[q] <= p)
  <2> DEFINE b == q - Header
  <2>1. b \in DOMAIN block /\ ~block[b].free /\ area[q] <= block[b].bytes
        /\ q \in Nat /\ area[q] \in Nat
    BY <1>1 DEF Owned, Typed
  <2>2. b # a
    BY <1>2, <2>1
  <2>3. b \in Nat /\ block[b].bytes \in Nat /\ End(b) = b + Header + block[b].bytes
    BY <1>1, <2>1, Fields DEF Typed
  <2>4. (a < b => End(a) <= b) /\ (b < a => End(b) <= a)
    BY <1>1, <2>1 DEF Chain, Ordered
  <2> QED BY <1>2, <1>3, <2>1, <2>2, <2>3, <2>4
<1>7. HeapEnd' = HeapEnd
  BY <1>2 DEF HeapEnd
<1>8. p \in DOMAIN area' /\ area'[p] = n
  BY <1>2
<1> HIDE DEF p
<1>9. Memory!Take(p, area'[p])
  BY <1>2, <1>4, <1>5, <1>6, <1>7, <1>8 DEF Memory!Take, Memory!Apart
<1> QED BY <1>8, <1>9 DEF Memory!Next

\* allocate() and free() implement what a heap promises (Arena): no two areas
\* overlap, they lie in mapped memory, and extend() and shorten() leave them be.
THEOREM HeapImplementsArena == Spec => ImplementsArena
<1>1. Init => Memory!Init
  <2> SUFFICES ASSUME Init PROVE Memory!Init
    OBVIOUS
  <2>1. HeapEnd \in Nat
    BY InitKeeps, HeapEndFacts DEF HeapInv
  <2> QED BY <2>1 DEF Init, Memory!Init
<1>2. HeapInv /\ [Next]_vars => [Memory!Next]_<<area, HeapEnd>>
  <2> SUFFICES ASSUME HeapInv, [Next]_vars
               PROVE  Memory!Next \/ UNCHANGED <<area, HeapEnd>>
    OBVIOUS
  <2>1. ASSUME UNCHANGED <<pages, area>>
        PROVE  UNCHANGED <<area, HeapEnd>>
    BY <2>1 DEF HeapEnd
  <2>2. ASSUME NEW size \in Sizes, AllocateStarts(size)
        PROVE  UNCHANGED <<pages, area>>
    BY <2>2 DEF AllocateStarts
  <2>3. ASSUME NEW p \in DOMAIN area, FreeStarts(p)
        PROVE  Memory!Next
    <3>1. area' = [q \in DOMAIN area \ {p} |-> area[q]] /\ HeapEnd' = HeapEnd
      BY <2>3 DEF FreeStarts, HeapEnd
    <3> QED BY <3>1 DEF Memory!Next, Memory!GiveBack
  <2>4. ASSUME FindContinues \/ FindEnds \/ ExtendContinues \/ FreeMergesNext
               \/ FreeMergesPrev \/ ShortenContinues \/ FreeReturns
        PROVE  UNCHANGED <<pages, area>>
    BY <2>4 DEF FindContinues, FindEnds, ExtendContinues, FreeMergesNext,
                FreeMergesPrev, ShortenContinues, FreeReturns
  <2>5. ASSUME Extend
        PROVE  Memory!Next
    <3>1. HeapEnd' = HeapEnd + Page /\ area' = area
      BY <2>5, ExtendKeeps DEF Extend
    <3>2. ASSUME NEW q \in DOMAIN area
          PROVE  q + area[q] <= HeapEnd'
      <4> DEFINE b == q - Header
      <4>1. b \in DOMAIN block /\ area[q] <= block[b].bytes /\ q \in Nat /\ area[q] \in Nat
        BY DEF HeapInv, Owned, Typed
      <4>2. End(b) <= HeapEnd
        BY <4>1 DEF HeapInv, Chain, Ordered
      <4>3. b \in Nat /\ block[b].bytes \in Nat /\ End(b) = b + Header + block[b].bytes
            /\ Header \in Nat
        BY <4>1, Fields, HeapAssumption DEF HeapInv, Typed
      <4>4. HeapEnd \in Nat /\ Page \in Nat
        BY HeapEndFacts, HeapAssumption DEF HeapInv
      <4> QED BY <3>1, <4>1, <4>2, <4>3, <4>4
    <3> QED BY <3>1, <3>2 DEF Memory!Next, Memory!Map
  <2>6. ASSUME AllocateReturns
        PROVE  Memory!Next
    BY <2>6, AllocateReturnsTakes
  <2>7. ASSUME Shorten
        PROVE  Memory!Next
    <3>1. (\A q \in DOMAIN area : q + area[q] <= HeapEnd') /\ area' = area
      BY <2>7, ShortenKeeps DEF Shorten
    <3> QED BY <3>1 DEF Memory!Next, Memory!Map
  <2>8. CASE UNCHANGED vars
    BY <2>1, <2>8 DEF vars
  <2> QED BY <2>1, <2>2, <2>3, <2>4, <2>5, <2>6, <2>7, <2>8 DEF Next, Inside
<1> QED BY <1>1, <1>2, HeapInvariant, PTL DEF Spec, ImplementsArena, Memory!Spec

=============================================================================
