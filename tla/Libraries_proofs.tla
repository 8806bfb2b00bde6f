-------------------------- MODULE Libraries_proofs --------------------------
(***************************************************************************)
(* Theorems about the parts of the libraries that keep state from call to  *)
(* call: the heap of a program (UserHeap) and the vectors (Vectors).       *)
(***************************************************************************)
EXTENDS UserHeap, Vectors, SequenceTheorems, FiniteSetTheorems, WellFoundedInduction, TLAPS

-----------------------------------------------------------------------------
(* Facts about numbers and sequences.                                      *)

\* A set of naturals that is not empty has a least member.
LEMMA Smallest ==
    ASSUME NEW T, T \subseteq Nat, T # {}
    PROVE  \E x \in T : \A y \in T : x <= y
<1> DEFINE R == OpToRel(<, Nat)
<1>1. \A x, y \in Nat : y < x => <<y, x>> \in R
  BY DEF OpToRel
<1>2. IsWellFoundedOn(R, Nat)
  BY NatLessThanWellFounded
<1> HIDE DEF R
<1>3. \E x \in T : \A y \in T : ~ (<<y, x>> \in R)
  BY <1>2, WFMin
<1>4. PICK x \in T : \A y \in T : ~ (<<y, x>> \in R)
  BY <1>3
<1>5. ASSUME NEW y \in T PROVE x <= y
  <2>1. x \in Nat /\ y \in Nat /\ ~(y < x)
    BY <1>1, <1>4
  <2> QED
    BY <2>1
<1> QED
  BY <1>5

\* The items from i on up to j, which is left, are replaced by those of w.
Spliced(s, w, i, j) == SubSeq(s, 1, i - 1) \o w \o SubSeq(s, j, Len(s))

Replaces(s, w, i, j, m) ==
    /\ Len(m) = (i - 1) + Len(w) + (Len(s) - j + 1)
    /\ \A k \in 1 .. Len(m) :
         m[k] = IF k < i THEN s[k]
                ELSE IF k < i + Len(w) THEN w[k - i + 1] ELSE s[k - i - Len(w) + j]

\* What the items of the replaced sequence are.
LEMMA Splice ==
    ASSUME NEW S, NEW s \in Seq(S), NEW w \in Seq(S),
           NEW i \in 1 .. Len(s), NEW j \in i .. Len(s) + 1
    PROVE  Spliced(s, w, i, j) \in Seq(S) /\ Replaces(s, w, i, j, Spliced(s, w, i, j))
<1> DEFINE m == Spliced(s, w, i, j)
<1> SUFFICES m \in Seq(S) /\ Replaces(s, w, i, j, m)
  OBVIOUS
<1>1. Len(s) \in Nat /\ Len(w) \in Nat /\ \A k \in 1 .. Len(s) : s[k] \in S
  OBVIOUS
<1> DEFINE a == SubSeq(s, 1, i - 1)
           c == SubSeq(s, j, Len(s))
           b == a \o w
<1>2. a \in Seq(S) /\ Len(a) = i - 1 /\ \A k \in 1 .. i - 1 : a[k] = s[k]
  <2>1. \A k \in 1 .. i - 1 : s[k] \in S
    BY <1>1
  <2>2. /\ a \in Seq(S) /\ Len(a) = IF 1 <= i - 1 THEN i - 1 - 1 + 1 ELSE 0
        /\ \A k \in 1 .. (i - 1) - 1 + 1 : a[k] = s[1 + k - 1]
    <3>1. 1 \in Int /\ i - 1 \in Int
      OBVIOUS
    <3> QED
      BY <2>1, <3>1, SubSeqProperties
  <2> QED
    BY <2>2
<1>3. c \in Seq(S) /\ Len(c) = Len(s) - j + 1 /\ \A k \in 1 .. Len(s) - j + 1 : c[k] = s[j + k - 1]
  <2>1. \A k \in j .. Len(s) : s[k] \in S
    BY <1>1
  <2>2. /\ c \in Seq(S) /\ Len(c) = IF j <= Len(s) THEN Len(s) - j + 1 ELSE 0
        /\ \A k \in 1 .. Len(s) - j + 1 : c[k] = s[j + k - 1]
    <3>1. j \in Int /\ Len(s) \in Int
      BY <1>1
    <3> QED
      BY <2>1, <3>1, SubSeqProperties
  <2> QED
    BY <1>1, <2>2
<1> HIDE DEF a, c
<1>4. /\ b \in Seq(S) /\ Len(b) = Len(a) + Len(w)
      /\ \A k \in 1 .. Len(a) + Len(w) : b[k] = IF k <= Len(a) THEN a[k] ELSE w[k - Len(a)]
  BY <1>2, ConcatProperties
<1> HIDE DEF b, m
<1>5. /\ m \in Seq(S) /\ Len(m) = Len(b) + Len(c)
      /\ \A k \in 1 .. Len(b) + Len(c) : m[k] = IF k <= Len(b) THEN b[k] ELSE c[k - Len(b)]
  <2>1. m = b \o c
    BY DEF a, b, c, m, Spliced
  <2>2. /\ b \o c \in Seq(S) /\ Len(b \o c) = Len(b) + Len(c)
        /\ \A k \in 1 .. Len(b) + Len(c) :
             (b \o c)[k] = IF k <= Len(b) THEN b[k] ELSE c[k - Len(b)]
    <3>1. b \in Seq(S) /\ c \in Seq(S)
      BY <1>3, <1>4
    <3> QED
      BY <3>1, ConcatProperties
  <2> QED
    BY <2>1, <2>2
<1>6. Len(m) = (i - 1) + Len(w) + (Len(s) - j + 1)
  BY <1>1, <1>2, <1>3, <1>4, <1>5
<1> DEFINE lb == Len(b)
           lc == Len(c)
           lw == Len(w)
           ls == Len(s)
<1>8. /\ lw \in Nat /\ ls \in Nat /\ lb = i - 1 + lw /\ lc = ls - j + 1 /\ Len(m) = lb + lc
      /\ i \in 1 .. ls /\ j \in i .. ls + 1
  BY <1>1, <1>2, <1>3, <1>4, <1>5
<1> HIDE DEF lb, lc, lw, ls
<1>7. ASSUME NEW k \in 1 .. Len(m)
      PROVE  m[k] = IF k < i THEN s[k]
                    ELSE IF k < i + Len(w) THEN w[k - i + 1] ELSE s[k - i - Len(w) + j]
  <2>1. CASE k < i
    <3>1. k \in 1 .. i - 1 /\ k \in 1 .. i - 1 + lw /\ k \in 1 .. lb + lc /\ k <= lb
      BY <1>8, <2>1
    <3>2. m[k] = b[k]
      BY <1>5, <3>1 DEF lb, lc
    <3>3. b[k] = a[k] /\ a[k] = s[k]
      <4>1. k \in 1 .. Len(a) + Len(w) /\ k <= Len(a)
        BY <1>2, <3>1 DEF lw
      <4> QED
        BY <1>2, <1>4, <3>1, <4>1
    <3> QED
      BY <2>1, <3>2, <3>3
  <2>2. CASE ~(k < i) /\ k < i + Len(w)
    <3>1. m[k] = b[k] /\ b[k] = w[k - (i - 1)]
      BY <1>1, <1>2, <1>3, <1>4, <1>5, <2>2
    <3>2. k - (i - 1) = k - i + 1
      BY <1>1, <1>5
    <3> QED
      BY <2>2, <3>1, <3>2
  <2>3. CASE ~(k < i + Len(w))
    <3>0. ~(k < i)
      BY <1>1, <1>5, <2>3
    <3>1. k - lb \in 1 .. ls - j + 1 /\ k \in 1 .. lb + lc /\ ~(k <= lb)
      <4>1. k \in 1 .. lb + lc /\ ~(k < i + lw)
        BY <1>8, <2>3 DEF lw
      <4> QED
        BY <1>8, <4>1
    <3>2. m[k] = c[k - Len(b)] /\ c[k - Len(b)] = s[j + (k - Len(b)) - 1]
      BY <1>3, <1>5, <3>1 DEF lb, lc, ls
    <3>3. j + (k - Len(b)) - 1 = k - i - Len(w) + j
      BY <1>1, <1>2, <1>4, <1>5
    <3> QED
      BY <2>3, <3>0, <3>2, <3>3
  <2> QED
    BY <2>1, <2>2, <2>3
<1> QED
  BY <1>5, <1>6, <1>7 DEF Replaces

-----------------------------------------------------------------------------
(* The list of blocks of a program's heap.                                 *)

Blocks == [at : Nat, size : Nat, is_free : BOOLEAN]

\* Words of n pages, and words that the last of the blocks l claims behind them.
Words(n) == n * PageWords
Over(l, n) == IF Len(l) = 0 THEN 0 ELSE EndOf(l[Len(l)]) - Words(n)

\* Each block begins where the one before it ends, but for the last one.
Linked(l, n) ==
    \A k \in 1 .. Len(l) :
        l[k].at = (IF k = 1 THEN 0 ELSE EndOf(l[k - 1])) + (IF k = Len(l) THEN Over(l, n) ELSE 0)

\* No block begins before another one in front of it has ended.
Sorted(l) == \A j, k \in 1 .. Len(l) : j < k => EndOf(l[j]) <= l[k].at

\* Only a used block of several pages, the last one, ends behind the heap.
Overhang(l, n) ==
    /\ Over(l, n) \in Nat
    /\ Over(l, n) # 0 =>
           /\ Len(l) # 0 /\ ~l[Len(l)].is_free
           /\ Over(l, n) = HeaderWords + l[Len(l)].size - PageWords
    /\ Len(l) = 0 => n = 0

\* The blocks l are those of a heap of n pages.
Tiles(l, n) ==
    /\ l \in Seq(Blocks) /\ n \in Nat
    /\ Linked(l, n)
    /\ Sorted(l)
    /\ Overhang(l, n)

\* The blocks in use.
Used(l) == {l[k] : k \in {j \in 1 .. Len(l) : ~l[j].is_free}}

\* A block ends behind its beginning.
LEMMA BlockEnds ==
    \A b \in Blocks : /\ EndOf(b) \in Nat /\ b.at \in Nat /\ b.size \in Nat
                      /\ b.is_free \in BOOLEAN
                      /\ b.at < AreaAt(b) /\ AreaAt(b) <= EndOf(b) /\ AreaAt(b) \in Nat
                      /\ EndOf(b) = AreaAt(b) + b.size
  BY UserHeapAssumption DEF Blocks, EndOf, AreaAt

\* Blocks at the same address are the same block of the list.
LEMMA SortedApart ==
    ASSUME NEW l \in Seq(Blocks), Sorted(l)
    PROVE  /\ \A j, k \in 1 .. Len(l) : l[j].at = l[k].at => j = k
           /\ \A j, k \in 1 .. Len(l) :
                j # k => EndOf(l[j]) <= l[k].at \/ EndOf(l[k]) <= l[j].at
<1>1. ASSUME NEW j \in 1 .. Len(l), NEW k \in 1 .. Len(l), j # k
      PROVE  /\ EndOf(l[j]) <= l[k].at \/ EndOf(l[k]) <= l[j].at
             /\ l[j].at # l[k].at
  <2>1. l[j] \in Blocks /\ l[k] \in Blocks
    OBVIOUS
  <2>2. j < k \/ k < j
    BY <1>1
  <2>3. EndOf(l[j]) <= l[k].at \/ EndOf(l[k]) <= l[j].at
    BY <2>2 DEF Sorted
  <2>4. /\ EndOf(l[j]) \in Nat /\ l[j].at \in Nat /\ l[j].at < EndOf(l[j])
        /\ EndOf(l[k]) \in Nat /\ l[k].at \in Nat /\ l[k].at < EndOf(l[k])
    <3>1. \A b \in Blocks : EndOf(b) \in Nat /\ b.at \in Nat /\ b.at < EndOf(b)
      BY UserHeapAssumption DEF Blocks, EndOf
    <3> QED
      BY <2>1, <3>1
  <2> QED
    BY <2>3, <2>4
<1> QED
  BY <1>1

\* The block i of l is divided into b and c, which makes the list m.
Divides(l, i, b, c, m) ==
    /\ l \in Seq(Blocks) /\ i \in 1 .. Len(l) /\ b \in Blocks /\ c \in Blocks
    /\ m \in Seq(Blocks) /\ Len(m) = Len(l) + 1
    /\ \A k \in 1 .. Len(l) + 1 : k < i => m[k] = l[k]
    /\ m[i] = b /\ m[i + 1] = c
    /\ \A k \in 1 .. Len(l) + 1 : k > i + 1 => m[k] = l[k - 1]

\* That is what split_block() makes of the list.
LEMMA SplitDivides ==
    ASSUME NEW l \in Seq(Blocks), NEW i \in 1 .. Len(l), NEW b \in Blocks, NEW c \in Blocks
    PROVE  Divides(l, i, b, c, SubSeq(l, 1, i - 1) \o <<b, c>> \o SubSeq(l, i + 1, Len(l)))
<1> DEFINE w == <<b, c>>
           N == Len(l)
           m == SubSeq(l, 1, i - 1) \o w \o SubSeq(l, i + 1, N)
<1>1. N \in Nat /\ i \in 1 .. N
  OBVIOUS
<1>2. w \in Seq(Blocks) /\ Len(w) = 2 /\ w[1] = b /\ w[2] = c
  OBVIOUS
<1> HIDE DEF w, m
<1>3. /\ m \in Seq(Blocks) /\ Len(m) = (i - 1) + Len(w) + (N - (i + 1) + 1)
      /\ \A k \in 1 .. Len(m) :
           m[k] = IF k < i THEN l[k]
                  ELSE IF k < i + Len(w) THEN w[k - i + 1] ELSE l[k - i - Len(w) + (i + 1)]
  <2>1. i + 1 \in i .. Len(l) + 1
    BY <1>1
  <2>2. m = Spliced(l, w, i, i + 1)
    BY DEF m, Spliced
  <2>3. m \in Seq(Blocks) /\ Replaces(l, w, i, i + 1, m)
    BY <1>2, <2>1, <2>2, Splice
  <2> QED
    BY <2>3 DEF Replaces
<1> HIDE DEF N
<1>4. Len(m) = N + 1
  BY <1>1, <1>2, <1>3
<1>5. ASSUME NEW k \in 1 .. N + 1
      PROVE  m[k] = IF k < i THEN l[k]
                    ELSE IF k < i + 2 THEN w[k - i + 1] ELSE l[k - i - 2 + (i + 1)]
  BY <1>2, <1>3, <1>4
<1>6. \A k \in 1 .. N + 1 : k < i => m[k] = l[k]
  BY <1>1, <1>5
<1>7. m[i] = b
  <2>1. i \in 1 .. N + 1 /\ ~(i < i) /\ i < i + 2 /\ i - i + 1 = 1
    BY <1>1
  <2> QED
    BY <1>2, <1>5, <2>1
<1>8. m[i + 1] = c
  <2>1. i + 1 \in 1 .. N + 1 /\ ~(i + 1 < i) /\ i + 1 < i + 2 /\ (i + 1) - i + 1 = 2
    BY <1>1
  <2> QED
    BY <1>2, <1>5, <2>1
<1>9. ASSUME NEW k \in 1 .. N + 1, k > i + 1 PROVE m[k] = l[k - 1]
  <2>1. ~(k < i) /\ ~(k < i + 2) /\ k - i - 2 + (i + 1) = k - 1
    BY <1>1, <1>9
  <2> QED
    BY <1>5, <2>1
<1>10. Divides(l, i, b, c, m)
  BY <1>1, <1>3, <1>4, <1>6, <1>7, <1>8, <1>9 DEF Divides, N
<1> QED
  BY <1>10 DEF m, w, N

\* The last block, and the blocks in use, of a list with a block that is divided.
LEMMA DividesEnd ==
    ASSUME NEW l, NEW i, NEW b, NEW c, NEW m, Divides(l, i, b, c, m)
    PROVE  m[Len(m)] = IF i = Len(l) THEN c ELSE l[Len(l)]
<1> DEFINE N == Len(l)
<1>1. N \in Nat /\ i \in 1 .. N /\ Len(m) = N + 1 /\ m[i + 1] = c
  BY DEF Divides
<1>2. \A k \in 1 .. N + 1 : k > i + 1 => m[k] = l[k - 1]
  BY DEF Divides
<1> HIDE DEF N
<1>3. CASE i = N
  BY <1>1, <1>3 DEF N
<1>4. CASE i # N
  <2>1. N + 1 \in 1 .. N + 1 /\ N + 1 > i + 1 /\ (N + 1) - 1 = N
    BY <1>1, <1>4
  <2>2. m[N + 1] = l[N]
    BY <1>2, <2>1
  <2> QED
    BY <1>1, <1>4, <2>2 DEF N
<1> QED
  BY <1>3, <1>4

\* The blocks in use are the same but for the two and the one.
LEMMA DividesUsed ==
    ASSUME NEW l, NEW i, NEW b, NEW c, NEW m, Divides(l, i, b, c, m), l[i].is_free, c.is_free
    PROVE  Used(m) = IF b.is_free THEN Used(l) ELSE Used(l) \cup {b}
<1> DEFINE N == Len(l)
<1>1. N \in Nat /\ i \in 1 .. N /\ Len(m) = N + 1 /\ m[i] = b /\ m[i + 1] = c
  BY DEF Divides
<1>2. /\ \A k \in 1 .. N + 1 : k < i => m[k] = l[k]
      /\ \A k \in 1 .. N + 1 : k > i + 1 => m[k] = l[k - 1]
  BY DEF Divides
<1> HIDE DEF N
<1>3. Used(m) = {m[k] : k \in {j \in 1 .. N + 1 : ~m[j].is_free}}
  BY <1>1 DEF Used
<1>4. Used(l) = {l[k] : k \in {j \in 1 .. N : ~l[j].is_free}}
  BY DEF Used, N
<1>5. ASSUME NEW x \in Used(m), x # b \/ b.is_free PROVE x \in Used(l)
  <2>1. PICK k \in 1 .. N + 1 : ~m[k].is_free /\ x = m[k]
    BY <1>3, <1>5
  <2>2. k # i /\ k # i + 1
    BY <1>1, <1>5, <2>1
  <2>3. CASE k < i
    <3>1. k \in 1 .. N /\ m[k] = l[k]
      BY <1>1, <1>2, <2>3
    <3> QED
      BY <1>4, <2>1, <3>1
  <2>4. CASE k > i + 1
    <3>1. k - 1 \in 1 .. N /\ m[k] = l[k - 1]
      BY <1>1, <1>2, <2>4
    <3> QED
      BY <1>4, <2>1, <3>1
  <2> QED
    BY <1>1, <2>2, <2>3, <2>4
<1>6. ASSUME NEW x \in Used(l) PROVE x \in Used(m)
  <2>1. PICK k \in 1 .. N : ~l[k].is_free /\ x = l[k]
    BY <1>4
  <2>2. k # i
    BY <2>1
  <2>3. CASE k < i
    <3>1. k \in 1 .. N + 1 /\ m[k] = l[k]
      BY <1>1, <1>2, <2>3
    <3> QED
      BY <1>3, <2>1, <3>1
  <2>4. CASE k > i
    <3>1. k + 1 \in 1 .. N + 1 /\ k + 1 > i + 1 /\ (k + 1) - 1 = k
      BY <1>1, <2>4
    <3>2. m[k + 1] = l[k]
      BY <1>2, <3>1
    <3> QED
      BY <1>3, <2>1, <3>1, <3>2
  <2> QED
    BY <1>1, <2>2, <2>3, <2>4
<1>7. ~b.is_free => b \in Used(m)
  <2>1. i \in 1 .. N + 1
    BY <1>1
  <2> QED
    BY <1>1, <1>3, <2>1
<1> QED
  BY <1>5, <1>6, <1>7

\* Where the block before the k-th ends.
Before(l, k) == IF k = 1 THEN 0 ELSE EndOf(l[k - 1])

\* Dividing a block moves no end of another one.
LEMMA DividesBefore ==
    ASSUME NEW l, NEW i, NEW b, NEW c, NEW m, Divides(l, i, b, c, m), EndOf(c) = EndOf(l[i])
    PROVE  /\ \A k \in 1 .. Len(l) : k <= i => Before(m, k) = Before(l, k)
           /\ Before(m, i + 1) = EndOf(b)
           /\ \A k \in 1 .. Len(l) + 1 : k > i + 1 => Before(m, k) = Before(l, k - 1)
<1> DEFINE N == Len(l)
<1>1. N \in Nat /\ i \in 1 .. N /\ Len(m) = N + 1 /\ m[i] = b /\ m[i + 1] = c
  BY DEF Divides
<1>2. /\ \A k \in 1 .. N + 1 : k < i => m[k] = l[k]
      /\ \A k \in 1 .. N + 1 : k > i + 1 => m[k] = l[k - 1]
  BY DEF Divides
<1> HIDE DEF N
<1>3. ASSUME NEW k \in 1 .. N, k <= i PROVE Before(m, k) = Before(l, k)
  <2>1. CASE k = 1
    BY <2>1 DEF Before
  <2>2. CASE k # 1
    <3>1. k - 1 \in 1 .. N + 1 /\ k - 1 < i
      BY <1>1, <1>3, <2>2
    <3>2. m[k - 1] = l[k - 1]
      BY <1>2, <3>1
    <3> QED
      BY <3>2 DEF Before
  <2> QED
    BY <2>1, <2>2
<1>4. Before(m, i + 1) = EndOf(b)
  <2>1. i + 1 # 1 /\ (i + 1) - 1 = i
    BY <1>1
  <2> QED
    BY <1>1, <2>1 DEF Before
<1>5. ASSUME NEW k \in 1 .. N + 1, k > i + 1 PROVE Before(m, k) = Before(l, k - 1)
  <2>0. k # 1 /\ k - 1 # 1
    BY <1>1, <1>5
  <2>1. Before(m, k) = EndOf(m[k - 1]) /\ Before(l, k - 1) = EndOf(l[(k - 1) - 1])
    BY <2>0 DEF Before
  <2>2. CASE k - 1 = i + 1
    <3>1. (k - 1) - 1 = i
      BY <1>1, <2>2
    <3> QED
      BY <1>1, <2>1, <2>2, <3>1
  <2>3. CASE k - 1 # i + 1
    <3>1. k - 1 \in 1 .. N + 1 /\ k - 1 > i + 1
      BY <1>1, <1>5, <2>3
    <3>2. m[k - 1] = l[(k - 1) - 1]
      BY <1>2, <3>1
    <3> QED
      BY <2>1, <3>2
  <2> QED
    BY <2>2, <2>3
<1> QED
  BY <1>3, <1>4, <1>5 DEF N

\* A free block that is divided where the first part ends leaves no gap.
LEMMA SplitTiles ==
    ASSUME NEW l, NEW n, Tiles(l, n), Over(l, n) = 0,
           NEW i, NEW b, NEW c, NEW m, Divides(l, i, b, c, m),
           b.at = l[i].at, EndOf(b) = c.at, EndOf(c) = EndOf(l[i])
    PROVE  Tiles(m, n) /\ Over(m, n) = 0
<1> DEFINE N == Len(l)
<1>1. /\ N \in Nat /\ i \in 1 .. N /\ Len(m) = N + 1 /\ m[i] = b /\ m[i + 1] = c
      /\ l \in Seq(Blocks) /\ m \in Seq(Blocks) /\ b \in Blocks /\ c \in Blocks
  BY DEF Divides
<1>2. /\ \A k \in 1 .. N + 1 : k < i => m[k] = l[k]
      /\ \A k \in 1 .. N + 1 : k > i + 1 => m[k] = l[k - 1]
  BY DEF Divides
<1>3. /\ \A k \in 1 .. N : k <= i => Before(m, k) = Before(l, k)
      /\ Before(m, i + 1) = EndOf(b)
      /\ \A k \in 1 .. N + 1 : k > i + 1 => Before(m, k) = Before(l, k - 1)
  BY DividesBefore
<1>4. EndOf(m[Len(m)]) = EndOf(l[N])
  BY DividesEnd
<1>5. \A k \in 1 .. N : /\ l[k] \in Blocks /\ l[k].at \in Nat /\ EndOf(l[k]) \in Nat
                        /\ l[k].at < EndOf(l[k])
  <2>1. \A k \in 1 .. N : l[k] \in Blocks
    BY <1>1
  <2>2. \A x \in Blocks : x.at \in Nat /\ EndOf(x) \in Nat /\ x.at < EndOf(x)
    BY UserHeapAssumption DEF Blocks, EndOf
  <2> QED
    BY <2>1, <2>2
<1>6. /\ b.at \in Nat /\ EndOf(b) \in Nat /\ b.at < EndOf(b)
      /\ c.at \in Nat /\ EndOf(c) \in Nat /\ c.at < EndOf(c)
  <2>1. \A x \in Blocks : x.at \in Nat /\ EndOf(x) \in Nat /\ x.at < EndOf(x)
    BY UserHeapAssumption DEF Blocks, EndOf
  <2> QED
    BY <1>1, <2>1
<1>7. \A k \in 1 .. N : l[k].at = Before(l, k)
  <2>1. ASSUME NEW k \in 1 .. N PROVE l[k].at = Before(l, k)
    <3>1. l[k].at = Before(l, k) + 0
      BY DEF Tiles, Linked, Before
    <3>2. Before(l, k) \in Nat
      <4>1. k # 1 => k - 1 \in 1 .. N
        BY <1>1
      <4> QED
        BY <1>5, <4>1 DEF Before
    <3> QED
      BY <3>1, <3>2
  <2> QED
    BY <2>1
<1>8. \A j, k \in 1 .. N : j < k => EndOf(l[j]) <= l[k].at
  BY DEF Tiles, Sorted
<1>9. Over(m, n) = 0
  <2>1. Len(m) # 0 /\ Len(l) # 0
    BY <1>1
  <2> QED
    BY <1>4, <2>1 DEF Over
<1> HIDE DEF N
<1>10. \A k \in 1 .. N + 1 : m[k].at = Before(m, k) /\ m[k].at \in Nat
  <2>1. ASSUME NEW k \in 1 .. N + 1 PROVE m[k].at = Before(m, k) /\ m[k].at \in Nat
    <3>1. CASE k < i
      <4>1. m[k] = l[k] /\ k \in 1 .. N /\ k <= i
        BY <1>1, <1>2, <3>1
      <4> QED
        BY <1>3, <1>5, <1>7, <4>1
    <3>2. CASE k = i
      BY <1>1, <1>3, <1>6, <1>7, <3>2
    <3>3. CASE k = i + 1
      BY <1>1, <1>3, <1>6, <3>3
    <3>4. CASE k > i + 1
      <4>1. m[k] = l[k - 1] /\ k - 1 \in 1 .. N
        BY <1>1, <1>2, <3>4
      <4> QED
        BY <1>3, <1>5, <1>7, <3>4, <4>1
    <3> QED
      BY <1>1, <3>1, <3>2, <3>3, <3>4
  <2> QED
    BY <2>1
<1>11. Linked(m, n)
  <2>1. ASSUME NEW k \in 1 .. N + 1
        PROVE  m[k].at = (IF k = 1 THEN 0 ELSE EndOf(m[k - 1]))
                           + (IF k = Len(m) THEN Over(m, n) ELSE 0)
    <3>1. m[k].at = (IF k = 1 THEN 0 ELSE EndOf(m[k - 1])) /\ m[k].at \in Nat
      BY <1>10 DEF Before
    <3> QED
      BY <1>9, <3>1
  <2> QED
    BY <1>1, <2>1 DEF Linked
\* The block of l that the k-th one of m is, or is a part of.
<1> DEFINE of(k) == IF k <= i THEN k ELSE k - 1
<1>12. ASSUME NEW k \in 1 .. N + 1
       PROVE  /\ of(k) \in 1 .. N
              /\ EndOf(m[k]) <= EndOf(l[of(k)]) /\ l[of(k)].at <= m[k].at
              /\ EndOf(m[k]) \in Nat
  <2>1. CASE k < i
    <3>1. m[k] = l[k] /\ k \in 1 .. N /\ of(k) = k
      BY <1>1, <1>2, <2>1
    <3> QED
      BY <1>5, <3>1
  <2>2. CASE k = i
    <3>1. of(k) = i
      BY <1>1, <2>2
    <3> QED
      BY <1>1, <1>5, <1>6, <2>2, <3>1
  <2>3. CASE k = i + 1
    <3>1. of(k) = i
      BY <1>1, <2>3
    <3> QED
      BY <1>1, <1>5, <1>6, <2>3, <3>1
  <2>4. CASE k > i + 1
    <3>1. m[k] = l[k - 1] /\ k - 1 \in 1 .. N /\ of(k) = k - 1
      BY <1>1, <1>2, <2>4
    <3> QED
      BY <1>5, <3>1
  <2> QED
    BY <1>1, <2>1, <2>2, <2>3, <2>4
<1>13. Sorted(m)
  <2>1. ASSUME NEW j \in 1 .. N + 1, NEW k \in 1 .. N + 1, j < k
        PROVE  EndOf(m[j]) <= m[k].at
    <3>1. CASE j = i /\ k = i + 1
      BY <1>1, <1>6, <3>1
    <3>2. CASE ~(j = i /\ k = i + 1)
      <4>1. of(j) < of(k)
        BY <1>1, <2>1, <3>2
      <4>2. EndOf(l[of(j)]) <= l[of(k)].at
        BY <1>8, <1>12, <4>1 DEF N
      <4>3. EndOf(m[j]) <= EndOf(l[of(j)]) /\ EndOf(m[j]) \in Nat /\ of(j) \in 1 .. N
        BY <1>12
      <4>4. l[of(k)].at <= m[k].at /\ m[k].at \in Nat /\ of(k) \in 1 .. N
        BY <1>10, <1>12
      <4>5. EndOf(l[of(j)]) \in Nat /\ l[of(k)].at \in Nat
        BY <1>5, <4>3, <4>4 DEF N
      <4> HIDE DEF of
      <4> QED
        BY <4>2, <4>3, <4>4, <4>5
    <3> QED
      BY <3>1, <3>2
  <2> QED
    BY <1>1, <2>1 DEF Sorted
<1>14. Overhang(m, n)
  BY <1>1, <1>9 DEF Overhang
<1> QED
  BY <1>1, <1>9, <1>11, <1>13, <1>14 DEF Tiles

\* Two blocks that become one leave no gap.
LEMMA JoinTiles ==
    ASSUME NEW l, NEW n, NEW i, NEW b, NEW c, NEW m, Tiles(m, n), Divides(l, i, b, c, m),
           l[i].at = b.at, EndOf(l[i]) = EndOf(c), c.is_free
    PROVE  Tiles(l, n) /\ Over(l, n) = Over(m, n)
<1> DEFINE N == Len(l)
<1>1. /\ N \in Nat /\ i \in 1 .. N /\ Len(m) = N + 1 /\ m[i] = b /\ m[i + 1] = c
      /\ l \in Seq(Blocks) /\ m \in Seq(Blocks) /\ b \in Blocks /\ c \in Blocks
  BY DEF Divides
<1>2. /\ \A k \in 1 .. N + 1 : k < i => m[k] = l[k]
      /\ \A k \in 1 .. N + 1 : k > i + 1 => m[k] = l[k - 1]
  BY DEF Divides
<1>3. /\ \A k \in 1 .. N : k <= i => Before(m, k) = Before(l, k)
      /\ \A k \in 1 .. N + 1 : k > i + 1 => Before(m, k) = Before(l, k - 1)
  BY DividesBefore
<1>4. m[Len(m)] = IF i = N THEN c ELSE l[N]
  BY DividesEnd
<1>5. /\ n \in Nat /\ Overhang(m, n)
      /\ \A k \in 1 .. N + 1 :
           m[k].at = Before(m, k) + (IF k = N + 1 THEN Over(m, n) ELSE 0)
      /\ \A j, k \in 1 .. N + 1 : j < k => EndOf(m[j]) <= m[k].at
  BY <1>1 DEF Tiles, Linked, Sorted, Before
<1>6. Over(l, n) = Over(m, n)
  <2>1. EndOf(m[Len(m)]) = EndOf(l[N]) /\ Len(m) # 0 /\ Len(l) # 0
    BY <1>1, <1>4
  <2> QED
    BY <2>1 DEF Over
<1>7. i = N => Over(m, n) = 0
  <2>1. ASSUME i = N PROVE Len(m) # 0 /\ m[Len(m)].is_free
    BY <1>1, <1>4, <2>1
  <2> QED
    BY <1>5, <2>1 DEF Overhang
<1> HIDE DEF N
<1>8. ASSUME NEW k \in 1 .. N
      PROVE  l[k].at = Before(l, k) + (IF k = N THEN Over(m, n) ELSE 0)
  <2>1. CASE k < i
    <3>1. m[k] = l[k] /\ k <= i /\ k \in 1 .. N + 1 /\ k # N + 1 /\ k # N
      BY <1>1, <1>2, <2>1
    <3> QED
      BY <1>3, <1>5, <3>1
  <2>2. CASE k = i
    <3>1. k \in 1 .. N + 1 /\ k # N + 1 /\ k <= i
      BY <1>1, <2>2
    <3>2. l[k].at = Before(l, k) + 0
      BY <1>1, <1>3, <1>5, <2>2, <3>1
    <3> QED
      BY <1>7, <2>2, <3>2
  <2>3. CASE k > i
    <3>1. k + 1 \in 1 .. N + 1 /\ k + 1 > i + 1 /\ (k + 1) - 1 = k /\ (k + 1 = N + 1 <=> k = N)
      BY <1>1, <2>3
    <3>2. m[k + 1] = l[k] /\ Before(m, k + 1) = Before(l, k)
      BY <1>2, <1>3, <3>1
    <3> QED
      BY <1>5, <3>1, <3>2
  <2> QED
    BY <1>1, <2>1, <2>2, <2>3
<1>9. Linked(l, n)
  BY <1>6, <1>8 DEF Linked, Before, N
<1>10. ASSUME NEW j \in 1 .. N, NEW k \in 1 .. N, j < k
       PROVE  EndOf(l[j]) <= l[k].at
  <2>1. \E x \in 1 .. N + 1 : EndOf(m[x]) = EndOf(l[j]) /\ x = IF j < i THEN j ELSE j + 1
    <3>1. CASE j < i
      BY <1>1, <1>2, <3>1
    <3>2. CASE j = i
      <4>1. i + 1 \in 1 .. N + 1
        BY <1>1
      <4> QED
        BY <1>1, <3>2, <4>1
    <3>3. CASE j > i
      <4>1. j + 1 \in 1 .. N + 1 /\ j + 1 > i + 1 /\ (j + 1) - 1 = j /\ ~(j < i)
        BY <1>1, <3>3
      <4>2. m[j + 1] = l[j]
        BY <1>2, <4>1
      <4> QED
        BY <4>1, <4>2
    <3> QED
      BY <1>1, <3>1, <3>2, <3>3
  <2>2. \E y \in 1 .. N + 1 : m[y].at = l[k].at /\ y = IF k <= i THEN k ELSE k + 1
    <3>1. CASE k < i
      BY <1>1, <1>2, <3>1
    <3>2. CASE k = i
      BY <1>1, <3>2
    <3>3. CASE k > i
      <4>1. k + 1 \in 1 .. N + 1 /\ k + 1 > i + 1 /\ (k + 1) - 1 = k /\ ~(k <= i)
        BY <1>1, <3>3
      <4>2. m[k + 1] = l[k]
        BY <1>2, <4>1
      <4> QED
        BY <4>1, <4>2
    <3> QED
      BY <1>1, <3>1, <3>2, <3>3
  <2>3. PICK x \in 1 .. N + 1 : EndOf(m[x]) = EndOf(l[j]) /\ x = IF j < i THEN j ELSE j + 1
    BY <2>1
  <2>4. PICK y \in 1 .. N + 1 : m[y].at = l[k].at /\ y = IF k <= i THEN k ELSE k + 1
    BY <2>2
  <2>5. x < y
    BY <1>1, <1>10, <2>3, <2>4
  <2> QED
    BY <1>5, <2>3, <2>4, <2>5
<1>11. Sorted(l)
  BY <1>10 DEF Sorted, N
<1>12. Overhang(l, n)
  <2>1. /\ Over(l, n) \in Nat /\ Len(l) # 0 /\ Len(m) # 0
        /\ Over(m, n) # 0 => ~m[Len(m)].is_free /\ Over(m, n) = HeaderWords + m[Len(m)].size - PageWords
    BY <1>1, <1>5, <1>6 DEF Overhang, N
  <2>2. Over(l, n) # 0 => m[Len(m)] = l[Len(l)]
    BY <1>4, <1>6, <1>7 DEF N
  <2> QED
    BY <1>6, <2>1, <2>2 DEF Overhang
<1> QED
  BY <1>1, <1>5, <1>6, <1>9, <1>11, <1>12 DEF Tiles

\* A block changes hands.
Marked(l, i, f) == [l EXCEPT ![i].is_free = f]

HasMarked(l, n, i, f, m) ==
    /\ Tiles(m, n) /\ Over(m, n) = Over(l, n) /\ Len(m) = Len(l)
    /\ m[i] = [l[i] EXCEPT !.is_free = f]
    /\ \A k \in 1 .. Len(l) : k # i => m[k] = l[k]
    /\ \A k \in 1 .. Len(l) : m[k].at = l[k].at /\ EndOf(m[k]) = EndOf(l[k])

\* The heap stays whole when a block changes hands.
LEMMA MarkTiles ==
    ASSUME NEW l, NEW n, Tiles(l, n), NEW i \in 1 .. Len(l), NEW f \in BOOLEAN,
           f = FALSE \/ i # Len(l) \/ Over(l, n) = 0
    PROVE  HasMarked(l, n, i, f, Marked(l, i, f))
<1> DEFINE m == Marked(l, i, f)
<1> SUFFICES HasMarked(l, n, i, f, m)
  OBVIOUS
<1> DEFINE e == [l[i] EXCEPT !.is_free = f]
           N == Len(l)
<1>1. l \in Seq(Blocks) /\ N \in Nat /\ i \in 1 .. N /\ n \in Nat
  BY DEF Tiles
<1>2. l[i] \in Blocks
  BY <1>1
<1>3. e \in Blocks /\ e.at = l[i].at /\ e.size = l[i].size /\ e.is_free = f /\ EndOf(e) = EndOf(l[i])
  BY <1>2 DEF Blocks, EndOf
<1>4. m = [l EXCEPT ![i] = e]
  BY <1>1 DEF Marked
<1>5. /\ m \in Seq(Blocks) /\ Len(m) = N
      /\ \A k \in 1 .. N : m[k] = IF k = i THEN e ELSE l[k]
  <2>1. /\ [l EXCEPT ![i] = e] \in Seq(Blocks) /\ Len([l EXCEPT ![i] = e]) = Len(l)
        /\ \A k \in 1 .. Len(l) : [l EXCEPT ![i] = e][k] = IF k = i THEN e ELSE l[k]
    BY <1>1, <1>3, ExceptSeq
  <2> QED
    BY <1>4, <2>1
<1> HIDE DEF m, e, N
<1>6. \A k \in 1 .. N : m[k].at = l[k].at /\ EndOf(m[k]) = EndOf(l[k]) /\ m[k].size = l[k].size
  BY <1>3, <1>5
<1>7. Over(m, n) = Over(l, n)
  <2>1. N # 0 => N \in 1 .. N
    BY <1>1
  <2> QED
    BY <1>5, <1>6, <2>1 DEF Over, N
<1>8. Linked(m, n)
  <2>1. ASSUME NEW k \in 1 .. N
        PROVE  m[k].at = (IF k = 1 THEN 0 ELSE EndOf(m[k - 1])) + (IF k = N THEN Over(m, n) ELSE 0)
    <3>1. l[k].at = (IF k = 1 THEN 0 ELSE EndOf(l[k - 1])) + (IF k = N THEN Over(l, n) ELSE 0)
      BY DEF Tiles, Linked, N
    <3>2. k # 1 => k - 1 \in 1 .. N
      BY <1>1
    <3> QED
      BY <1>6, <1>7, <3>1, <3>2
  <2> QED
    BY <1>5, <2>1 DEF Linked
<1>9. Sorted(m)
  BY <1>5, <1>6 DEF Tiles, Sorted, N
<1>10. Overhang(m, n)
  <2>1. N \in 1 .. N
    BY <1>1
  <2>2. /\ Over(l, n) \in Nat
        /\ Over(l, n) # 0 => ~l[N].is_free /\ Over(l, n) = HeaderWords + l[N].size - PageWords
    BY DEF Tiles, Overhang, N
  <2>3. Over(l, n) # 0 => ~m[N].is_free
    BY <1>3, <1>5, <2>1, <2>2 DEF N
  <2>4. N # 0
    BY <1>1
  <2> QED
    BY <1>5, <1>6, <1>7, <2>1, <2>2, <2>3, <2>4 DEF Overhang
<1>11. Tiles(m, n)
  BY <1>1, <1>5, <1>8, <1>9, <1>10 DEF Tiles
<1> QED
  BY <1>5, <1>6, <1>7, <1>11 DEF HasMarked, m, e, N

\* Freeing a block takes it from those in use, taking one adds it.
LEMMA MarkUsed ==
    ASSUME NEW l \in Seq(Blocks), Sorted(l), NEW i \in 1 .. Len(l), NEW f \in BOOLEAN,
           NEW m \in Seq(Blocks), Len(m) = Len(l),
           m[i] = [l[i] EXCEPT !.is_free = f],
           \A k \in 1 .. Len(l) : k # i => m[k] = l[k],
           l[i].is_free # f
    PROVE  /\ m[i].is_free = f
           /\ Used(m) = IF f THEN Used(l) \ {l[i]} ELSE Used(l) \cup {m[i]}
<1> DEFINE N == Len(l)
<1>1. N \in Nat /\ i \in 1 .. N /\ Len(m) = N /\ l[i] \in Blocks
  OBVIOUS
<1>2. m[i].is_free = f
  BY <1>1 DEF Blocks
<1>3. \A k \in 1 .. N : k # i => m[k] = l[k] /\ l[k] # l[i]
  <2>1. \A k \in 1 .. N : l[k].at = l[i].at => k = i
    BY SortedApart
  <2> QED
    BY <2>1
<1> HIDE DEF N
<1>4. ASSUME NEW x \in Used(m) PROVE x \in IF f THEN Used(l) \ {l[i]} ELSE Used(l) \cup {m[i]}
  <2>1. PICK k \in 1 .. N : ~m[k].is_free /\ x = m[k]
    BY <1>1, <1>4 DEF Used
  <2>2. CASE k = i
    BY <1>2, <2>1, <2>2
  <2>3. CASE k # i
    <3>1. x = l[k] /\ ~l[k].is_free /\ x # l[i]
      BY <1>3, <2>1, <2>3
    <3>2. x \in Used(l)
      BY <3>1 DEF Used, N
    <3> QED
      BY <3>1, <3>2
  <2> QED
    BY <2>2, <2>3
<1>5. ASSUME NEW x \in IF f THEN Used(l) \ {l[i]} ELSE Used(l) \cup {m[i]} PROVE x \in Used(m)
  <2>1. CASE ~f /\ x = m[i]
    BY <1>1, <1>2, <2>1 DEF Used
  <2>2. CASE x \in Used(l) /\ (f => x # l[i])
    <3>1. PICK k \in 1 .. N : ~l[k].is_free /\ x = l[k]
      BY <2>2 DEF Used, N
    <3>2. k # i
      <4>1. ~f => l[i].is_free
        BY <1>1 DEF Blocks
      <4> QED
        BY <2>2, <3>1, <4>1
    <3>3. m[k] = x /\ ~m[k].is_free
      BY <1>3, <3>1, <3>2
    <3> QED
      BY <1>1, <3>3 DEF Used
  <2> QED
    BY <1>5, <2>1, <2>2
<1> QED
  BY <1>2, <1>4, <1>5

\* Where the blocks of a begin, some block of l begins.
StartsIn(a, l) == \A k \in 1 .. Len(a) : \E j \in 1 .. Len(l) : a[k].at = l[j].at

\* Absorbing the follower keeps the heap whole and the blocks in use.
LEMMA AbsorbedTiles ==
    ASSUME NEW l, NEW n, Tiles(l, n), NEW i \in 1 .. Len(l)
    PROVE  /\ Tiles(Absorbed(l, i), n) /\ Over(Absorbed(l, i), n) = Over(l, n)
           /\ Used(Absorbed(l, i)) = Used(l)
           /\ i <= Len(Absorbed(l, i))
           /\ StartsIn(Absorbed(l, i), l)
<1> DEFINE N == Len(l)
           a == Absorbed(l, i)
<1>1. l \in Seq(Blocks) /\ N \in Nat /\ i \in 1 .. N /\ n \in Nat /\ Linked(l, n) /\ Overhang(l, n)
  BY DEF Tiles
<1>2. CASE ~(i < N /\ l[i].is_free /\ l[i + 1].is_free)
  <2>1. a = l
    BY <1>2 DEF Absorbed
  <2>2. StartsIn(l, l)
    BY DEF StartsIn
  <2> QED
    BY <1>1, <2>1, <2>2
<1>3. CASE i < N /\ l[i].is_free /\ l[i + 1].is_free
  <2> DEFINE b == l[i]
             c == l[i + 1]
             size == b.size + HeaderWords + c.size
             d == [b EXCEPT !.size = size]
             w == <<d>>
  <2>1. b \in Blocks /\ c \in Blocks /\ i + 1 \in 1 .. N
    <3>1. i + 1 \in 1 .. N
      BY <1>1, <1>3
    <3> QED
      BY <1>1, <3>1
  <2>2. size \in Nat
    BY <2>1, UserHeapAssumption DEF Blocks
  <2>3. d \in Blocks /\ d.at = b.at /\ d.size = size /\ d.is_free = b.is_free
    <3> HIDE DEF b, size
    <3> QED
      BY <2>1, <2>2 DEF Blocks
  <2>4. w \in Seq(Blocks) /\ Len(w) = 1 /\ w[1] = d
    BY <2>3
  <2>5. a = Spliced(l, w, i, i + 2)
    BY <1>3 DEF Absorbed, Spliced
  <2> HIDE DEF a, w, d
  <2>6. a \in Seq(Blocks) /\ Replaces(l, w, i, i + 2, a)
    <3>1. i + 2 \in i .. Len(l) + 1
      BY <1>1, <1>3
    <3> QED
      BY <1>1, <2>4, <2>5, <3>1, Splice
  <2> DEFINE A == Len(a)
  <2>7. A = N - 1
    BY <1>1, <2>4, <2>6 DEF Replaces
  <2>8. ASSUME NEW k \in 1 .. A
        PROVE  a[k] = IF k < i THEN l[k] ELSE IF k < i + 1 THEN w[k - i + 1] ELSE l[k - i - 1 + (i + 2)]
    BY <2>4, <2>6 DEF Replaces
  <2> HIDE DEF N, A, b, c, size
  <2>9. i \in 1 .. A
    BY <1>1, <1>3, <2>7
  <2>10. a[i] = d
    <3>1. ~(i < i) /\ i < i + 1 /\ i - i + 1 = 1
      BY <1>1
    <3> QED
      BY <2>4, <2>8, <2>9, <3>1
  <2>11. \A k \in 1 .. A : k < i => a[k] = l[k]
    BY <2>8
  <2>12. ASSUME NEW k \in 1 .. A, k > i PROVE a[k] = l[k + 1] /\ k + 1 \in 1 .. N
    <3>1. ~(k < i) /\ ~(k < i + 1) /\ k - i - 1 + (i + 2) = k + 1 /\ k + 1 \in 1 .. N
      BY <1>1, <2>7, <2>12
    <3> QED
      BY <2>8, <3>1
  <2>13. Divides(a, i, b, c, l)
    <3>1. Len(l) = Len(a) + 1 /\ i \in 1 .. Len(a)
      BY <1>1, <2>7, <2>9 DEF N, A
    <3>2. ASSUME NEW k \in 1 .. A + 1, k < i PROVE l[k] = a[k]
      <4>1. k \in 1 .. A
        BY <1>1, <2>7, <2>9, <3>2
      <4> QED
        BY <2>11, <3>2, <4>1
    <3>3. ASSUME NEW k \in 1 .. A + 1, k > i + 1 PROVE l[k] = a[k - 1]
      <4>1. k - 1 \in 1 .. A /\ k - 1 > i /\ (k - 1) + 1 = k
        BY <1>1, <2>7, <2>9, <3>3
      <4> QED
        BY <2>12, <4>1
    <3> QED
      BY <1>1, <2>1, <2>6, <3>1, <3>2, <3>3 DEF Divides, A, b, c
  <2>14. a[i].at = b.at /\ c.is_free /\ b.is_free /\ a[i].is_free
    BY <1>3, <2>3, <2>10 DEF b, c, N
  <2>15. EndOf(a[i]) = EndOf(c)
    <3>1. c.at = EndOf(b) + (IF i + 1 = N THEN Over(l, n) ELSE 0)
      <4>1. i + 1 # 1 /\ (i + 1) - 1 = i /\ i + 1 \in 1 .. Len(l)
        BY <1>1, <2>1 DEF N
      <4>2. l[i + 1].at = (IF i + 1 = 1 THEN 0 ELSE EndOf(l[(i + 1) - 1]))
                            + (IF i + 1 = Len(l) THEN Over(l, n) ELSE 0)
        BY <1>1, <4>1 DEF Linked
      <4> QED
        BY <4>1, <4>2 DEF b, c, N
    <3>2. i + 1 = N => Over(l, n) = 0
      BY <1>1, <2>14 DEF Overhang, c, N
    <3>3. EndOf(b) \in Nat
      BY <2>1, BlockEnds
    <3>4. c.at = EndOf(b)
      BY <3>1, <3>2, <3>3
    <3> QED
      BY <2>1, <2>3, <2>10, <3>4, UserHeapAssumption DEF EndOf, Blocks, size
  <2>16. Tiles(a, n) /\ Over(a, n) = Over(l, n)
    BY <2>13, <2>14, <2>15, JoinTiles
  <2>17. Used(a) = Used(l)
    BY <2>13, <2>14, DividesUsed
  <2>18. StartsIn(a, l)
    <3>1. ASSUME NEW k \in 1 .. A PROVE \E j \in 1 .. N : a[k].at = l[j].at
      <4>1. CASE k < i
        <5>1. k \in 1 .. N
          BY <1>1, <2>7
        <5> QED
          BY <2>11, <4>1, <5>1
      <4>2. CASE k = i
        BY <1>1, <2>14, <4>2 DEF b
      <4>3. CASE k > i
        BY <2>12, <4>3
      <4> QED
        BY <1>1, <2>7, <4>1, <4>2, <4>3
    <3> QED
      BY <3>1 DEF StartsIn, A, N
  <2>19. i <= Len(a)
    BY <1>1, <2>9 DEF A
  <2> QED
    BY <2>16, <2>17, <2>18, <2>19 DEF a
<1> QED
  BY <1>2, <1>3

\* free() of the used block i: its neighbours may be absorbed, nothing else changes.
LEMMA CoalesceTiles ==
    ASSUME NEW l, NEW n, Tiles(l, n), NEW i \in 1 .. Len(l), ~l[i].is_free,
           i # Len(l) \/ Over(l, n) = 0
    PROVE  LET m == coalesce_blocks(l, i) IN
           /\ Tiles(m, n) /\ Over(m, n) = Over(l, n) /\ Len(m) # 0
           /\ Used(m) = Used(l) \ {l[i]}
           /\ StartsIn(m, l)
<1> DEFINE k == Marked(l, i, TRUE)
           once == Absorbed(k, i)
           m == coalesce_blocks(l, i)
<1>1. l \in Seq(Blocks) /\ Len(l) \in Nat /\ Sorted(l) /\ l[i] \in Blocks
  BY DEF Tiles
<1>2. /\ Tiles(k, n) /\ Over(k, n) = Over(l, n) /\ Len(k) = Len(l)
      /\ k[i] = [l[i] EXCEPT !.is_free = TRUE]
      /\ \A j \in 1 .. Len(l) : j # i => k[j] = l[j]
      /\ \A j \in 1 .. Len(l) : k[j].at = l[j].at
  <2>1. HasMarked(l, n, i, TRUE, k)
    <3>1. TRUE \in BOOLEAN
      OBVIOUS
    <3> QED
      BY <3>1, MarkTiles
  <2> QED
    BY <2>1 DEF HasMarked
<1> HIDE DEF k
<1>3. Used(k) = Used(l) \ {l[i]}
  <2>1. k \in Seq(Blocks) /\ l[i].is_free # TRUE
    BY <1>2 DEF Tiles
  <2>2. Used(k) = IF TRUE THEN Used(l) \ {l[i]} ELSE Used(l) \cup {k[i]}
    BY <1>1, <1>2, <2>1, MarkUsed
  <2> QED
    BY <2>2
<1>4. /\ Tiles(once, n) /\ Over(once, n) = Over(k, n) /\ Used(once) = Used(k)
      /\ i <= Len(once) /\ StartsIn(once, k)
  BY <1>2, AbsorbedTiles
<1>5. m = IF i = 1 THEN once ELSE Absorbed(once, i - 1)
  BY DEF coalesce_blocks, k, Marked
<1> HIDE DEF once, m
<1>6. once \in Seq(Blocks) /\ Len(once) \in Nat
  BY <1>4 DEF Tiles
<1>7. /\ Tiles(m, n) /\ Over(m, n) = Over(once, n) /\ Used(m) = Used(once) /\ Len(m) # 0
      /\ StartsIn(m, once)
  <2>1. CASE i = 1
    <3>1. StartsIn(once, once)
      BY DEF StartsIn
    <3> QED
      BY <1>4, <1>5, <1>6, <2>1, <3>1
  <2>2. CASE i # 1
    <3>1. i - 1 \in 1 .. Len(once)
      BY <1>4, <1>6, <2>2
    <3>2. /\ Tiles(m, n) /\ Over(m, n) = Over(once, n) /\ Used(m) = Used(once)
          /\ i - 1 <= Len(m) /\ StartsIn(m, once)
      BY <1>4, <1>5, <2>2, <3>1, AbsorbedTiles
    <3>3. Len(m) # 0
      <4>1. Len(m) \in Nat
        BY <3>2 DEF Tiles
      <4> QED
        BY <3>1, <3>2, <4>1
    <3> QED
      BY <3>2, <3>3
  <2> QED
    BY <2>1, <2>2
<1>8. StartsIn(m, l)
  <2>1. ASSUME NEW x \in 1 .. Len(m) PROVE \E j \in 1 .. Len(l) : m[x].at = l[j].at
    <3>1. PICK y \in 1 .. Len(once) : m[x].at = once[y].at
      BY <1>7 DEF StartsIn
    <3>2. PICK z \in 1 .. Len(k) : once[y].at = k[z].at
      BY <1>4 DEF StartsIn
    <3> QED
      BY <1>2, <3>1, <3>2
  <2> QED
    BY <2>1 DEF StartsIn
<1> QED
  BY <1>2, <1>3, <1>4, <1>7, <1>8 DEF m

\* The pages requested hold the header and the size asked for.
LEMMA PagesSuffice ==
    ASSUME NEW size \in Nat
    PROVE  /\ PagesFor(size) \in Nat /\ PagesFor(size) >= 1
           /\ Words(PagesFor(size)) >= HeaderWords + size
<1> DEFINE P == PageWords
           x == HeaderWords + size + PageWords - 1
           q == x \div P
<1>1. P \in Nat \ {0} /\ x \in Nat /\ x + 1 - P = HeaderWords + size /\ HeaderWords + size >= 1
  BY UserHeapAssumption
<1>2. PagesFor(size) = q /\ Words(q) = q * P
  BY DEF PagesFor, Words
<1> HIDE DEF P, x
<1>3. q \in Int /\ x % P \in 0 .. P - 1 /\ x = P * q + (x % P)
  BY <1>1
<1> DEFINE r == x % P
<1> HIDE DEF q, r
<1>4. r \in 0 .. P - 1 /\ x = P * q + r
  BY <1>3 DEF r
<1>5. P * q = q * P /\ q * P \in Int
  BY <1>1, <1>3
<1> DEFINE y == q * P
<1>6. y = x - r /\ y \in Int
  BY <1>1, <1>4, <1>5
<1>7. q >= 1
  <2>1. y > 0
    <3> HIDE DEF y
    <3> QED
      BY <1>1, <1>4, <1>6
  <2> QED
    BY <1>1, <1>3, <2>1
<1>8. y >= HeaderWords + size
  <2>1. HeaderWords + size \in Int
    BY UserHeapAssumption
  <2> HIDE DEF y
  <2> QED
    BY <1>1, <1>4, <1>6, <2>1
<1> QED
  BY <1>2, <1>3, <1>7, <1>8

\* Sums of pages.
LEMMA WordsSum ==
    ASSUME NEW m \in Nat, NEW n \in Nat
    PROVE  /\ Words(m) \in Nat /\ Words(n) \in Nat
           /\ Words(m + n) = Words(m) + Words(n)
           /\ Words(0) = 0
           /\ n >= 1 => /\ Words(m + n - 1) = Words(m) + Words(n) - PageWords
                        /\ Words(n) >= PageWords
<1>1. PageWords \in Nat \ {0}
  BY UserHeapAssumption
<1> QED
  BY <1>1 DEF Words

\* New pages behind the last block make a used block that ends behind the heap
\* by all of them but one.
LEMMA RequestTiles ==
    ASSUME NEW l, NEW n, Tiles(l, n), Over(l, n) = 0, NEW p \in Nat, p >= 1,
           NEW b \in Blocks, b.at = Words(n + p - 1), b.size = Words(p) - HeaderWords, ~b.is_free
    PROVE  /\ Tiles(Append(l, b), n + p)
           /\ Used(Append(l, b)) = Used(l) \cup {b}
           /\ Len(Append(l, b)) = Len(l) + 1 /\ Append(l, b)[Len(l) + 1] = b
<1> DEFINE N == Len(l)
           m == Append(l, b)
<1>1. l \in Seq(Blocks) /\ N \in Nat /\ n \in Nat
  BY DEF Tiles
<1>2. /\ m \in Seq(Blocks) /\ Len(m) = N + 1 /\ m[N + 1] = b
      /\ \A k \in 1 .. N : m[k] = l[k]
  BY <1>1, AppendProperties
<1> HIDE DEF m
<1>3. /\ Words(n) \in Nat /\ Words(p) \in Nat /\ PageWords \in Nat /\ HeaderWords \in Nat
      /\ Words(n + p) = Words(n) + Words(p) /\ Words(0) = 0 /\ Words(p) >= PageWords
      /\ b.at = Words(n) + Words(p) - PageWords /\ b.at \in Nat
      /\ EndOf(b) = b.at + Words(p)
  <2>1. PageWords \in Nat /\ HeaderWords \in Nat
    BY UserHeapAssumption
  <2>2. /\ Words(n) \in Nat /\ Words(p) \in Nat /\ Words(n + p) = Words(n) + Words(p)
        /\ Words(0) = 0 /\ Words(p) >= PageWords /\ Words(n + p - 1) = Words(n) + Words(p) - PageWords
    BY <1>1, WordsSum
  <2>3. b.at \in Nat
    BY DEF Blocks
  <2> QED
    BY <2>1, <2>2, <2>3 DEF EndOf
<1>4. \A k \in 1 .. N : /\ l[k].at \in Nat /\ EndOf(l[k]) \in Nat /\ l[k].at < EndOf(l[k])
                        /\ l[k].at = IF k = 1 THEN 0 ELSE EndOf(l[k - 1])
  <2>1. ASSUME NEW k \in 1 .. N
        PROVE  l[k].at \in Nat /\ EndOf(l[k]) \in Nat /\ l[k].at < EndOf(l[k])
    <3>1. l[k] \in Blocks
      BY <1>1
    <3> QED
      BY <3>1, UserHeapAssumption DEF Blocks, EndOf
  <2>2. ASSUME NEW k \in 1 .. N PROVE l[k].at = IF k = 1 THEN 0 ELSE EndOf(l[k - 1])
    <3>1. l[k].at = (IF k = 1 THEN 0 ELSE EndOf(l[k - 1])) + 0
      BY DEF Tiles, Linked
    <3>2. k # 1 => k - 1 \in 1 .. N
      BY <1>1
    <3> QED
      BY <2>1, <3>1, <3>2
  <2> QED
    BY <2>1, <2>2
<1>5. (IF N = 0 THEN 0 ELSE EndOf(l[N])) = Words(n)
  <2>1. CASE N = 0
    BY <1>3, <2>1 DEF Tiles, Overhang
  <2>2. CASE N # 0
    <3>1. EndOf(l[N]) - Words(n) = 0 /\ EndOf(l[N]) \in Nat
      BY <1>1, <1>4, <2>2 DEF Over
    <3> QED
      BY <1>3, <2>2, <3>1
  <2> QED
    BY <2>1, <2>2
<1>6. Over(m, n + p) = Words(p) - PageWords
  <2>1. Len(m) # 0 /\ m[Len(m)] = b
    BY <1>1, <1>2
  <2> QED
    BY <1>3, <2>1 DEF Over
<1>7. \A j, k \in 1 .. N : j < k => EndOf(l[j]) <= l[k].at
  BY DEF Tiles, Sorted
<1> HIDE DEF N
<1>8. Linked(m, n + p)
  <2>1. ASSUME NEW k \in 1 .. N + 1
        PROVE  m[k].at = (IF k = 1 THEN 0 ELSE EndOf(m[k - 1]))
                           + (IF k = N + 1 THEN Over(m, n + p) ELSE 0)
    <3>1. CASE k = N + 1
      <4>1. (IF k = 1 THEN 0 ELSE EndOf(m[k - 1])) = Words(n)
        <5>1. k # 1 => k - 1 = N /\ N \in 1 .. N /\ N # 0
          BY <1>1, <3>1
        <5> QED
          BY <1>1, <1>2, <1>5, <3>1, <5>1
      <4> QED
        BY <1>2, <1>3, <1>6, <3>1, <4>1
    <3>2. CASE k # N + 1
      <4>1. k \in 1 .. N /\ (k # 1 => k - 1 \in 1 .. N)
        BY <1>1, <3>2
      <4> QED
        BY <1>2, <1>4, <3>2, <4>1
    <3> QED
      BY <3>1, <3>2
  <2> QED
    BY <1>2, <2>1 DEF Linked
<1>9. Sorted(m)
  <2>1. ASSUME NEW j \in 1 .. N + 1, NEW k \in 1 .. N + 1, j < k
        PROVE  EndOf(m[j]) <= m[k].at
    <3>1. CASE k = N + 1
      <4>1. j \in 1 .. N /\ N \in 1 .. N /\ N # 0 /\ (j = N \/ j < N)
        BY <1>1, <2>1, <3>1
      <4>2. EndOf(l[j]) <= Words(n) /\ EndOf(l[j]) \in Nat
        <5>1. EndOf(l[N]) = Words(n)
          BY <1>5, <4>1
        <5>2. j < N => EndOf(l[j]) <= l[N].at
          BY <1>7, <4>1
        <5> QED
          BY <1>3, <1>4, <4>1, <5>1, <5>2
      <4> QED
        BY <1>2, <1>3, <3>1, <4>1, <4>2
    <3>2. CASE k # N + 1
      <4>1. k \in 1 .. N /\ j \in 1 .. N
        BY <1>1, <2>1, <3>2
      <4> QED
        BY <1>2, <1>7, <2>1, <4>1
    <3> QED
      BY <3>1, <3>2
  <2> QED
    BY <1>2, <2>1 DEF Sorted
<1>10. Overhang(m, n + p)
  <2>1. Over(m, n + p) \in Nat
    BY <1>3, <1>6
  <2>2. Len(m) # 0 /\ m[Len(m)] = b
    BY <1>1, <1>2
  <2>3. Over(m, n + p) = HeaderWords + b.size - PageWords
    BY <1>3, <1>6
  <2> QED
    BY <2>1, <2>2, <2>3 DEF Overhang
<1>11. Used(m) = Used(l) \cup {b}
  <2>1. ASSUME NEW x \in Used(m) PROVE x \in Used(l) \cup {b}
    <3>1. PICK k \in 1 .. N + 1 : ~m[k].is_free /\ x = m[k]
      BY <1>2, <2>1 DEF Used
    <3>2. CASE k = N + 1
      BY <1>2, <3>1, <3>2
    <3>3. CASE k # N + 1
      <4>1. k \in 1 .. N
        BY <1>1, <3>3
      <4> QED
        BY <1>2, <3>1, <4>1 DEF Used, N
    <3> QED
      BY <3>2, <3>3
  <2>2. ASSUME NEW x \in Used(l) PROVE x \in Used(m)
    <3>1. PICK k \in 1 .. N : ~l[k].is_free /\ x = l[k]
      BY <2>2 DEF Used, N
    <3>2. k \in 1 .. N + 1 /\ m[k] = l[k]
      BY <1>1, <1>2, <3>1
    <3> QED
      BY <1>2, <3>1, <3>2 DEF Used
  <2>3. b \in Used(m)
    <3>1. N + 1 \in 1 .. N + 1
      BY <1>1
    <3> QED
      BY <1>2, <3>1 DEF Used
  <2> QED
    BY <2>1, <2>2, <2>3
<1>12. n + p \in Nat
  BY <1>1
<1> QED
  BY <1>2, <1>8, <1>9, <1>10, <1>11, <1>12 DEF Tiles, m, N

-----------------------------------------------------------------------------
(* The areas handed out, and the used blocks they lie in.                  *)

Areas == [size : Nat, aligned : BOOLEAN, short : BOOLEAN]

\* The area a at p lies within the block b.
Lies(b, p, a) ==
    /\ AreaAt(b) <= p
    /\ p + (IF a.short THEN 0 ELSE a.size) <= EndOf(b)

\* The used blocks U and the areas A, one for the other.
Match(U, A) ==
    /\ A \in [DOMAIN A -> Areas] /\ DOMAIN A \subseteq Nat
    /\ \A p \in DOMAIN A : \E b \in U : Lies(b, p, A[p]) /\ (A[p].aligned \/ p = AreaAt(b))
    /\ \A b \in U : \E p \in DOMAIN A : Lies(b, p, A[p])
    /\ \A b \in U : \A p, q \in DOMAIN A : Lies(b, p, A[p]) /\ Lies(b, q, A[q]) => p = q

Separate(U) ==
    /\ U \subseteq Blocks
    /\ \A b, c \in U : b = c \/ EndOf(b) <= c.at \/ EndOf(c) <= b.at

\* The blocks of a heap are separate.
LEMMA UsedSeparate ==
    ASSUME NEW l, NEW n, Tiles(l, n) PROVE Separate(Used(l))
<1>1. l \in Seq(Blocks) /\ Sorted(l)
  BY DEF Tiles
<1>2. \A j, k \in 1 .. Len(l) : j # k => EndOf(l[j]) <= l[k].at \/ EndOf(l[k]) <= l[j].at
  BY <1>1, SortedApart
<1>3. Used(l) \subseteq Blocks
  BY <1>1 DEF Used
<1>4. ASSUME NEW b \in Used(l), NEW c \in Used(l)
      PROVE  b = c \/ EndOf(b) <= c.at \/ EndOf(c) <= b.at
  <2>1. PICK j \in 1 .. Len(l) : b = l[j]
    BY DEF Used
  <2>2. PICK k \in 1 .. Len(l) : c = l[k]
    BY DEF Used
  <2> QED
    BY <1>2, <2>1, <2>2
<1> QED
  BY <1>3, <1>4 DEF Separate

\* No two blocks have the same area.
LEMMA OneBlock ==
    ASSUME NEW U, Separate(U), NEW b \in U, NEW c \in U, NEW p \in Nat,
           NEW a \in Areas, NEW d \in Areas, Lies(b, p, a), Lies(c, p, d)
    PROVE  b = c
<1>1. b \in Blocks /\ c \in Blocks
  BY DEF Separate
<1>2. AreaAt(b) <= p /\ p <= EndOf(b) /\ AreaAt(c) <= p /\ p <= EndOf(c)
  <2>1. /\ (IF a.short THEN 0 ELSE a.size) \in Nat
        /\ (IF d.short THEN 0 ELSE d.size) \in Nat
    BY DEF Areas
  <2>2. EndOf(b) \in Nat /\ EndOf(c) \in Nat
    BY <1>1, BlockEnds
  <2> QED
    BY <2>1, <2>2 DEF Lies
<1>3. /\ EndOf(b) \in Nat /\ EndOf(c) \in Nat /\ b.at \in Nat /\ c.at \in Nat
      /\ AreaAt(b) \in Nat /\ AreaAt(c) \in Nat /\ b.at < AreaAt(b) /\ c.at < AreaAt(c)
  BY <1>1, BlockEnds
<1>4. ~(EndOf(b) <= c.at) /\ ~(EndOf(c) <= b.at)
  BY <1>2, <1>3
<1> QED
  BY <1>4 DEF Separate

\* An area taken in a block that was not in use joins the others.
LEMMA MatchTakes ==
    ASSUME NEW U, NEW A, NEW b, NEW p \in Nat, NEW a \in Areas,
           Match(U, A), Separate(U \cup {b}), b \notin U,
           Lies(b, p, a), a.aligned \/ p = AreaAt(b)
    PROVE  /\ p \notin DOMAIN A
           /\ Match(U \cup {b}, [q \in DOMAIN A \cup {p} |-> IF q = p THEN a ELSE A[q]])
<1> DEFINE V == U \cup {b}
           D == DOMAIN A
           B == [q \in D \cup {p} |-> IF q = p THEN a ELSE A[q]]
<1>1. /\ D \subseteq Nat /\ \A q \in D : A[q] \in Areas
      /\ \A q \in D : \E c \in U : Lies(c, q, A[q]) /\ (A[q].aligned \/ q = AreaAt(c))
      /\ \A c \in U : \E q \in D : Lies(c, q, A[q])
      /\ \A c \in U : \A q, r \in D : Lies(c, q, A[q]) /\ Lies(c, r, A[r]) => q = r
  BY DEF Match
<1>2. \A c, d \in V : \A q \in Nat : \A x, y \in Areas : Lies(c, q, x) /\ Lies(d, q, y) => c = d
  BY OneBlock
<1>3. p \notin D
  <2>1. SUFFICES ASSUME p \in D PROVE FALSE
    OBVIOUS
  <2>2. PICK c \in U : Lies(c, p, A[p])
    BY <1>1, <2>1
  <2>3. c = b
    BY <1>1, <1>2, <2>1, <2>2
  <2> QED
    BY <2>3
<1>4. \A q \in D : ~Lies(b, q, A[q])
  <2>1. SUFFICES ASSUME NEW q \in D, Lies(b, q, A[q]) PROVE FALSE
    OBVIOUS
  <2>2. PICK c \in U : Lies(c, q, A[q])
    BY <1>1
  <2>3. c = b
    BY <1>1, <1>2, <2>1, <2>2
  <2> QED
    BY <2>3
<1>5. \A c \in U : ~Lies(c, p, a)
  BY <1>2
<1>6. DOMAIN B = D \cup {p} /\ B[p] = a /\ \A q \in D : B[q] = A[q]
  BY <1>3
<1>7. B \in [DOMAIN B -> Areas] /\ DOMAIN B \subseteq Nat
  BY <1>1
<1> HIDE DEF B, V, D
<1>8. \A q \in DOMAIN B : \E c \in V : Lies(c, q, B[q]) /\ (B[q].aligned \/ q = AreaAt(c))
  BY <1>1, <1>6 DEF V
<1>9. \A c \in V : \E q \in DOMAIN B : Lies(c, q, B[q])
  BY <1>1, <1>6 DEF V
<1>10. ASSUME NEW c \in V, NEW q \in DOMAIN B, NEW r \in DOMAIN B,
              Lies(c, q, B[q]), Lies(c, r, B[r])
       PROVE  q = r
  <2>1. CASE c = b
    <3>1. q \notin D /\ r \notin D
      BY <1>4, <1>6, <1>10, <2>1
    <3> QED
      BY <1>6, <3>1
  <2>2. CASE c \in U
    <3>1. q # p /\ r # p
      BY <1>5, <1>6, <1>10, <2>2
    <3>2. q \in D /\ r \in D /\ Lies(c, q, A[q]) /\ Lies(c, r, A[r])
      BY <1>6, <1>10, <3>1
    <3> QED
      BY <1>1, <2>2, <3>2
  <2> QED
    BY <2>1, <2>2 DEF V
<1>11. Match(V, B)
  BY <1>7, <1>8, <1>9, <1>10 DEF Match
<1> QED
  BY <1>3, <1>11 DEF V, B, D

\* An area that is freed leaves with its block.
LEMMA MatchFrees ==
    ASSUME NEW U, NEW A, NEW b \in U, NEW p \in DOMAIN A,
           Match(U, A), Separate(U), Lies(b, p, A[p])
    PROVE  Match(U \ {b}, [q \in DOMAIN A \ {p} |-> A[q]])
<1> DEFINE V == U \ {b}
           D == DOMAIN A
           B == [q \in D \ {p} |-> A[q]]
<1>1. /\ D \subseteq Nat /\ \A q \in D : A[q] \in Areas
      /\ \A q \in D : \E c \in U : Lies(c, q, A[q]) /\ (A[q].aligned \/ q = AreaAt(c))
      /\ \A c \in U : \E q \in D : Lies(c, q, A[q])
      /\ \A c \in U : \A q, r \in D : Lies(c, q, A[q]) /\ Lies(c, r, A[r]) => q = r
  BY DEF Match
<1>2. \A c, d \in U : \A q \in Nat : \A x, y \in Areas : Lies(c, q, x) /\ Lies(d, q, y) => c = d
  BY OneBlock
<1>3. DOMAIN B = D \ {p} /\ \A q \in D \ {p} : B[q] = A[q]
  OBVIOUS
<1>4. B \in [DOMAIN B -> Areas] /\ DOMAIN B \subseteq Nat
  BY <1>1
<1>5. p \in D
  OBVIOUS
<1> HIDE DEF B, V, D
<1>6. ASSUME NEW q \in DOMAIN B
      PROVE  \E c \in V : Lies(c, q, B[q]) /\ (B[q].aligned \/ q = AreaAt(c))
  <2>1. q \in D /\ q # p /\ B[q] = A[q]
    BY <1>3
  <2>2. PICK c \in U : Lies(c, q, A[q]) /\ (A[q].aligned \/ q = AreaAt(c))
    BY <1>1, <2>1
  <2>3. c # b
    BY <1>1, <1>5, <2>1, <2>2 DEF D
  <2> QED
    BY <2>1, <2>2, <2>3 DEF V
<1>7. ASSUME NEW c \in V PROVE \E q \in DOMAIN B : Lies(c, q, B[q])
  <2>1. c \in U /\ c # b
    BY DEF V
  <2>2. PICK q \in D : Lies(c, q, A[q])
    BY <1>1, <2>1
  <2>3. q # p
    BY <1>1, <1>2, <1>5, <2>1, <2>2 DEF D
  <2> QED
    BY <1>3, <2>2, <2>3
<1>8. \A c \in V : \A q, r \in DOMAIN B : Lies(c, q, B[q]) /\ Lies(c, r, B[r]) => q = r
  BY <1>1, <1>3 DEF V
<1>9. Match(V, B)
  BY <1>4, <1>6, <1>7, <1>8 DEF Match
<1> QED
  BY <1>9 DEF V, B, D

\* An area that stays where it is may change its size within its block.
LEMMA MatchResizes ==
    ASSUME NEW U, NEW A, NEW b \in U, NEW p \in DOMAIN A, NEW a \in Areas,
           Match(U, A), Separate(U), Lies(b, p, A[p]), Lies(b, p, a), p = AreaAt(b)
    PROVE  Match(U, [q \in DOMAIN A \cup {p} |-> IF q = p THEN a ELSE A[q]])
<1> DEFINE D == DOMAIN A
           B == [q \in D \cup {p} |-> IF q = p THEN a ELSE A[q]]
<1>1. /\ D \subseteq Nat /\ \A q \in D : A[q] \in Areas
      /\ \A q \in D : \E c \in U : Lies(c, q, A[q]) /\ (A[q].aligned \/ q = AreaAt(c))
      /\ \A c \in U : \E q \in D : Lies(c, q, A[q])
      /\ \A c \in U : \A q, r \in D : Lies(c, q, A[q]) /\ Lies(c, r, A[r]) => q = r
  BY DEF Match
<1>2. \A c, d \in U : \A q \in Nat : \A x, y \in Areas : Lies(c, q, x) /\ Lies(d, q, y) => c = d
  BY OneBlock
<1>3. p \in D /\ p \in Nat
  BY <1>1
<1>4. DOMAIN B = D /\ B[p] = a /\ \A q \in D : q # p => B[q] = A[q]
  BY <1>3
<1>5. B \in [DOMAIN B -> Areas] /\ DOMAIN B \subseteq Nat
  BY <1>1
<1>6. A[p] \in Areas
  BY <1>1, <1>3
<1>7. Lies(b, p, A[p]) /\ Lies(b, p, a)
  OBVIOUS
<1> HIDE DEF B, D
<1>8. \A c \in U : \A q \in D : Lies(c, q, B[q]) <=> Lies(c, q, A[q])
  <2>1. ASSUME NEW c \in U PROVE Lies(c, p, B[p]) <=> Lies(c, p, A[p])
    <3>1. Lies(c, p, a) => c = b
      BY <1>2, <1>3, <1>6, <1>7
    <3>2. Lies(c, p, A[p]) => c = b
      BY <1>2, <1>3, <1>6, <1>7
    <3> QED
      BY <1>4, <1>7, <3>1, <3>2
  <2> QED
    BY <1>4, <2>1
<1>9. \A q \in D : \E c \in U : Lies(c, q, B[q]) /\ (B[q].aligned \/ q = AreaAt(c))
  <2>1. Lies(b, p, B[p]) /\ p = AreaAt(b)
    BY <1>4, <1>7
  <2> QED
    BY <1>1, <1>4, <2>1
<1>10. Match(U, B)
  <2>1. \A c \in U : \E q \in D : Lies(c, q, B[q])
    BY <1>1, <1>8
  <2>2. \A c \in U : \A q, r \in D : Lies(c, q, B[q]) /\ Lies(c, r, B[r]) => q = r
    BY <1>1, <1>8
  <2>3. \A q \in DOMAIN B : \E c \in U : Lies(c, q, B[q]) /\ (B[q].aligned \/ q = AreaAt(c))
    BY <1>4, <1>9
  <2>4. \A c \in U : \E q \in DOMAIN B : Lies(c, q, B[q])
    BY <1>4, <2>1
  <2>5. \A c \in U : \A q, r \in DOMAIN B : Lies(c, q, B[q]) /\ Lies(c, r, B[r]) => q = r
    BY <1>4, <2>2
  <2> QED
    BY <1>5, <2>3, <2>4, <2>5 DEF Match
<1> QED
  BY <1>10 DEF B, D

-----------------------------------------------------------------------------
(* The operations of the heap.                                             *)

\* The block b, which holds size words, is taken: it makes m, of k pages, of the blocks l,
\* and none but b ends behind them.
Takes(l, b, size, m, k) ==
    /\ Tiles(m, k) /\ Len(m) # 0
    /\ b \in Blocks /\ b \notin Used(l) /\ Used(m) = Used(l) \cup {b}
    /\ b.size >= size
    /\ b = m[Len(m)] \/ Over(m, k) = 0

\* The blocks tile the heap, and the used ones and the areas are one for the other.
UserHeapInv ==
    /\ Tiles(list, lastPage)
    /\ Match(Used(list), areas)
    /\ Len(list) # 0 => tail = list[Len(list)].at

\* The first block that fits is a free block with room for the size.
LEMMA FirstFits ==
    ASSUME NEW size \in Nat, Tiles(list, lastPage), Fits(size) # {}
    PROVE  /\ find_free_block(size) \in 1 .. Len(list)
           /\ list[find_free_block(size)] \in Blocks
           /\ list[find_free_block(size)].is_free
           /\ list[find_free_block(size)].size >= size
<1>1. list \in Seq(Blocks)
  BY DEF Tiles
<1>2. Fits(size) \subseteq Nat /\ DOMAIN list = 1 .. Len(list)
  BY <1>1 DEF Fits
<1>3. \E i \in Fits(size) : \A j \in Fits(size) : i <= j
  BY <1>2, Smallest
<1>4. find_free_block(size) \in Fits(size)
  BY <1>3 DEF find_free_block
<1>5. find_free_block(size) \in 1 .. Len(list)
  BY <1>2, <1>4 DEF Fits
<1> QED
  BY <1>1, <1>4, <1>5 DEF Fits

\* split_block() takes the block from its beginning on, and the tail stays with the last block.
LEMMA SplitTakes ==
    ASSUME UserHeapInv, Over(list, lastPage) = 0, NEW size \in Nat,
           NEW i \in 1 .. Len(list), list[i].is_free, list[i].size >= size
    PROVE  /\ \E b : /\ Takes(list, b, size, split_block(i, size), lastPage)
                     /\ AreaAt(b) = AreaAt(list[i])
           /\ TailOf(split_block(i, size), i)
                = split_block(i, size)[Len(split_block(i, size))].at
<1> DEFINE m == split_block(i, size)
           N == Len(list)
<1>1. /\ list \in Seq(Blocks) /\ N \in Nat /\ i \in 1 .. N /\ N \in 1 .. N /\ lastPage \in Nat
      /\ Sorted(list) /\ Tiles(list, lastPage) /\ tail = list[N].at
  BY DEF UserHeapInv, Tiles
<1>2. list[i] \in Blocks
  BY <1>1
<1>3. /\ list[i].at \in Nat /\ list[i].size \in Nat
      /\ HeaderWords \in Nat \ {0} /\ SlackWords \in Nat
  BY <1>2, UserHeapAssumption DEF Blocks
<1>4. \A j \in 1 .. N : list[j].at = list[i].at => j = i
  BY <1>1, SortedApart
<1>5. ASSUME NEW b \in Blocks, b.at = list[i].at PROVE b \notin Used(list)
  <2>1. SUFFICES ASSUME b \in Used(list) PROVE FALSE
    OBVIOUS
  <2>2. PICK j \in 1 .. N : b = list[j] /\ ~list[j].is_free
    BY <2>1 DEF Used
  <2> QED
    BY <1>4, <1>5, <2>2
<1>6. CASE list[i].size - size > HeaderWords + SlackWords
  <2> DEFINE b == [list[i] EXCEPT !.size = size, !.is_free = FALSE]
             c == Block(EndOf([list[i] EXCEPT !.size = size]), list[i].size - size - HeaderWords, TRUE)
  <2>1. /\ b \in Blocks /\ b.at = list[i].at /\ b.size = size /\ b.is_free = FALSE
    BY <1>2 DEF Blocks
  <2>2. EndOf([list[i] EXCEPT !.size = size]) = list[i].at + HeaderWords + size
    BY <1>2 DEF Blocks, EndOf
  <2>3. /\ c.at = list[i].at + HeaderWords + size /\ c.is_free = TRUE
        /\ c.size = list[i].size - size - HeaderWords
    BY <2>2 DEF Block
  <2>4. c \in Blocks
    <3>1. list[i].at + HeaderWords + size \in Nat /\ list[i].size - size - HeaderWords \in Nat
      BY <1>3, <1>6
    <3> QED
      BY <2>2, <3>1 DEF Block, Blocks
  <2>5. m = SubSeq(list, 1, i - 1) \o <<b, c>> \o SubSeq(list, i + 1, Len(list))
    BY <1>6 DEF split_block
  <2> HIDE DEF b, c, m
  <2>6. EndOf(b) = c.at /\ EndOf(c) = EndOf(list[i])
    BY <1>3, <2>1, <2>3 DEF EndOf
  <2>7. Divides(list, i, b, c, m)
    BY <1>1, <2>1, <2>4, <2>5, SplitDivides
  <2>8. Tiles(m, lastPage) /\ Over(m, lastPage) = 0
    BY <1>1, <2>1, <2>6, <2>7, SplitTiles
  <2>9. Used(m) = Used(list) \cup {b}
    BY <2>1, <2>3, <2>7, DividesUsed
  <2>10. m[Len(m)] = IF i = N THEN c ELSE list[N]
    BY <2>7, DividesEnd
  <2>11. Len(m) = N + 1 /\ m[i + 1] = c
    BY <2>7 DEF Divides
  <2>12. Takes(list, b, size, m, lastPage)
    BY <1>1, <1>5, <2>1, <2>8, <2>9, <2>11 DEF Takes
  <2>13. AreaAt(b) = AreaAt(list[i])
    BY <2>1 DEF AreaAt
  <2>14. TailOf(m, i) = m[Len(m)].at
    <3>1. tail = list[i].at <=> i = N
      BY <1>1, <1>4
    <3>2. Len(m) > Len(list)
      BY <1>1, <2>11
    <3> QED
      BY <1>1, <2>10, <2>11, <3>1, <3>2 DEF TailOf
  <2> QED
    BY <2>12, <2>13, <2>14 DEF m
<1>7. CASE ~(list[i].size - size > HeaderWords + SlackWords)
  <2> DEFINE b == [list[i] EXCEPT !.is_free = FALSE]
  <2>1. b \in Blocks /\ b.at = list[i].at /\ b.size = list[i].size /\ b.is_free = FALSE
    BY <1>2 DEF Blocks
  <2>2. m = Marked(list, i, FALSE)
    BY <1>7 DEF split_block, Marked
  <2> HIDE DEF m
  <2>3. HasMarked(list, lastPage, i, FALSE, m)
    BY <1>1, <2>2, MarkTiles
  <2>4. /\ Tiles(m, lastPage) /\ Over(m, lastPage) = 0 /\ Len(m) = N /\ m[i] = b
        /\ \A k \in 1 .. N : k # i => m[k] = list[k]
        /\ \A k \in 1 .. N : m[k].at = list[k].at
    BY <2>3 DEF HasMarked
  <2>5. m \in Seq(Blocks)
    BY <2>4 DEF Tiles
  <2>6. Used(m) = Used(list) \cup {b}
    <3>1. list[i].is_free # FALSE
      OBVIOUS
    <3>2. Used(m) = IF FALSE THEN Used(list) \ {list[i]} ELSE Used(list) \cup {m[i]}
      BY <1>1, <2>4, <2>5, <3>1, MarkUsed
    <3> QED
      BY <2>4, <3>2
  <2> HIDE DEF b
  <2>7. Takes(list, b, size, m, lastPage)
    BY <1>1, <1>5, <2>1, <2>4, <2>6 DEF Takes
  <2>8. AreaAt(b) = AreaAt(list[i])
    BY <2>1 DEF AreaAt
  <2>9. TailOf(m, i) = m[Len(m)].at
    BY <1>1, <2>4 DEF TailOf
  <2> QED
    BY <2>7, <2>8, <2>9 DEF m
<1> QED
  BY <1>6, <1>7

\* request_memory() takes a new block, the last one.
LEMMA RequestTakes ==
    ASSUME UserHeapInv, Over(list, lastPage) = 0, NEW size \in Nat
    PROVE  LET m == Requested(size) IN
           /\ Takes(list, m[Len(m)], size, m, lastPage + PagesFor(size))
           /\ lastPage + PagesFor(size) \in Nat
<1> DEFINE m == Requested(size)
           P == PagesFor(size)
           N == Len(list)
           b == Block(Lastpg(P), P * PageWords - HeaderWords, FALSE)
<1>1. list \in Seq(Blocks) /\ N \in Nat /\ lastPage \in Nat /\ Tiles(list, lastPage)
  BY DEF UserHeapInv, Tiles
<1>2. P \in Nat /\ P >= 1 /\ Words(P) >= HeaderWords + size
  BY PagesSuffice
<1>3. m = Append(list, b)
  BY DEF Requested
<1>4. HeaderWords \in Nat
  BY UserHeapAssumption
<1> HIDE DEF m, P
<1>5. b.at = Words(lastPage + P - 1) /\ b.size = Words(P) - HeaderWords /\ b.is_free = FALSE
  BY DEF Block, Lastpg, Words
<1>6. b \in Blocks /\ b.size >= size
  <2>1. Words(P) \in Nat /\ Words(lastPage + P - 1) \in Nat
    <3>1. lastPage + P - 1 \in Nat
      BY <1>1, <1>2
    <3> QED
      BY <1>2, <3>1, WordsSum
  <2>2. Words(P) - HeaderWords \in Nat /\ Words(P) - HeaderWords >= size
    BY <1>2, <1>4, <2>1
  <2>3. b = [at |-> Words(lastPage + P - 1), size |-> Words(P) - HeaderWords, is_free |-> FALSE]
    BY DEF Block, Lastpg, Words
  <2> QED
    BY <1>5, <2>1, <2>2, <2>3 DEF Blocks
<1> HIDE DEF b
<1>7. /\ Tiles(m, lastPage + P) /\ Used(m) = Used(list) \cup {b}
      /\ Len(m) = N + 1 /\ m[N + 1] = b
  <2>1. ~b.is_free
    BY <1>5
  <2> QED
    BY <1>1, <1>2, <1>3, <1>5, <1>6, <2>1, RequestTiles
<1>8. b \notin Used(list)
  <2>1. \A k \in 1 .. N : m[k] = list[k]
    BY <1>1, <1>3, <1>6, AppendProperties
  <2>2. m \in Seq(Blocks) /\ Sorted(m)
    BY <1>7 DEF Tiles
  <2>3. \A j, k \in 1 .. N + 1 : m[j].at = m[k].at => j = k
    BY <1>7, <2>2, SortedApart
  <2>4. SUFFICES ASSUME b \in Used(list) PROVE FALSE
    OBVIOUS
  <2>5. PICK j \in 1 .. N : b = list[j]
    BY <2>4 DEF Used
  <2>6. m[j].at = m[N + 1].at /\ j \in 1 .. N + 1 /\ N + 1 \in 1 .. N + 1 /\ j # N + 1
    BY <1>1, <1>7, <2>1, <2>5
  <2> QED
    BY <2>3, <2>6
<1>9. m[Len(m)] = b /\ Len(m) # 0
  BY <1>1, <1>7
<1> QED
  BY <1>1, <1>2, <1>6, <1>7, <1>8, <1>9 DEF Takes, m, P

\* An empty list claims nothing behind the heap.
LEMMA BehindIsOver ==
    ASSUME Tiles(list, lastPage) PROVE Behind = Over(list, lastPage)
<1>1. list \in Seq(Blocks)
  BY DEF Tiles
<1>2. list = <<>> <=> Len(list) = 0
  BY <1>1, EmptySeq
<1> QED
  BY <1>2 DEF Behind, Over, Words

\* What is handed out of a taken block is a new area of its own.
LEMMA HandsOut ==
    ASSUME NEW m, NEW k, NEW b, NEW size \in Nat, NEW asked \in Nat, NEW alignment,
           Match(Used(list), areas), Takes(list, b, size, m, k),
           (alignment = 0 /\ size = asked) \/ (alignment = 2 /\ size = asked + 3)
    PROVE  /\ Match(Used(m), Handed(AreaAt(b), asked, alignment))
           /\ alignment = 0 => AreaAt(b) \notin DOMAIN areas
<1>1. /\ b \in Blocks /\ b \notin Used(list) /\ Used(m) = Used(list) \cup {b} /\ b.size >= size
      /\ Separate(Used(list) \cup {b})
  BY UsedSeparate DEF Takes
<1>2. AreaAt(b) \in Nat /\ EndOf(b) = AreaAt(b) + b.size /\ EndOf(b) \in Nat /\ b.size \in Nat
  BY <1>1, BlockEnds
<1> DEFINE At(p, a) == [q \in DOMAIN areas \cup {p} |-> IF q = p THEN a ELSE areas[q]]
<1>3. ASSUME NEW p \in Nat, NEW a \in Areas, a.short = FALSE, a.size = asked,
             AreaAt(b) <= p, p + asked <= EndOf(b), a.aligned \/ p = AreaAt(b)
      PROVE  p \notin DOMAIN areas /\ Match(Used(m), At(p, a))
  <2>1. Lies(b, p, a)
    BY <1>3 DEF Lies
  <2>2. Match(Used(list), areas) /\ (a.aligned \/ p = AreaAt(b))
    BY <1>3
  <2> QED
    BY <1>1, <1>3, <2>1, <2>2, MatchTakes
<1>4. CASE alignment = 0 /\ size = asked
  <2> DEFINE a == [size |-> asked, aligned |-> FALSE, short |-> FALSE]
  <2>1. Handed(AreaAt(b), asked, alignment) = At(AreaAt(b), a)
    BY <1>4 DEF Handed, NewArea
  <2>2. a \in Areas /\ a.short = FALSE /\ a.size = asked
    BY DEF Areas
  <2>3. AreaAt(b) + asked <= EndOf(b)
    BY <1>1, <1>2, <1>4
  <2> HIDE DEF a, At
  <2>4. AreaAt(b) <= AreaAt(b)
    BY <1>2
  <2>5. AreaAt(b) \notin DOMAIN areas /\ Match(Used(m), At(AreaAt(b), a))
    BY <1>2, <1>3, <2>2, <2>3, <2>4
  <2> QED
    BY <2>1, <2>5
<1>5. CASE alignment = 2 /\ size = asked + 3
  <2> DEFINE a == [size |-> asked, aligned |-> TRUE, short |-> FALSE]
             p == ((AreaAt(b) + 2) \div 2) * 2
  <2>1. Handed(AreaAt(b), asked, alignment) = At(p, a)
    BY <1>5 DEF Handed, NewArea
  <2>2. a \in Areas /\ a.short = FALSE /\ a.size = asked /\ a.aligned
    BY DEF Areas
  <2>3. p \in Nat /\ AreaAt(b) <= p /\ p <= AreaAt(b) + 2
    BY <1>2
  <2>4. p + asked <= EndOf(b)
    BY <1>1, <1>2, <1>5, <2>3
  <2> HIDE DEF a, At, p
  <2>5. Match(Used(m), At(p, a))
    BY <1>3, <2>2, <2>3, <2>4
  <2> QED
    BY <1>5, <2>1, <2>5
<1> QED
  BY <1>4, <1>5

\* The block whose area begins at p is the only one, and free() finds it.
LEMMA FindsBlock ==
    ASSUME NEW l \in Seq(Blocks), Sorted(l), NEW b \in Used(l)
    PROVE  LET i == CHOOSE k \in DOMAIN l : AreaAt(l[k]) = AreaAt(b) IN
           i \in 1 .. Len(l) /\ l[i] = b /\ ~l[i].is_free
<1> DEFINE i == CHOOSE k \in DOMAIN l : AreaAt(l[k]) = AreaAt(b)
<1>1. DOMAIN l = 1 .. Len(l) /\ \A k \in 1 .. Len(l) : l[k] \in Blocks
  OBVIOUS
<1>2. PICK j \in 1 .. Len(l) : b = l[j] /\ ~l[j].is_free
  BY DEF Used
<1>3. i \in DOMAIN l /\ AreaAt(l[i]) = AreaAt(b)
  BY <1>1, <1>2
<1> HIDE DEF i
<1>4. l[i].at = l[j].at
  <2>1. l[i] \in Blocks /\ l[j] \in Blocks
    BY <1>1, <1>3
  <2>2. l[i].at \in Nat /\ l[j].at \in Nat
    BY <2>1, BlockEnds
  <2> QED
    BY <1>2, <1>3, <2>2, UserHeapAssumption DEF AreaAt
<1>5. i = j
  BY <1>1, <1>3, <1>4, SortedApart
<1> QED
  BY <1>2, <1>5 DEF i

\* The block of an area that free() is given.
LEMMA FreeAreaBlock ==
    ASSUME UserHeapInv, NEW p \in FreeAreas
    PROVE  /\ p \in DOMAIN areas /\ p \in Nat /\ areas[p] \in Areas
           /\ \E b \in Used(list) : Lies(b, p, areas[p]) /\ p = AreaAt(b)
<1>1. p \in DOMAIN areas /\ ~areas[p].aligned
  BY DEF FreeAreas
<1> QED
  BY <1>1 DEF UserHeapInv, Match

\* No block begins behind the last one.
LEMMA LastStarts ==
    ASSUME NEW l \in Seq(Blocks), Sorted(l), NEW j \in 1 .. Len(l)
    PROVE  l[j].at <= l[Len(l)].at
<1> DEFINE N == Len(l)
<1>1. N \in Nat /\ j \in 1 .. N /\ N \in 1 .. N /\ l[j] \in Blocks /\ l[N] \in Blocks
  OBVIOUS
<1>2. l[j].at \in Nat /\ l[j].at <= EndOf(l[j]) /\ EndOf(l[j]) \in Nat /\ l[N].at \in Nat
  BY <1>1, BlockEnds
<1>3. j < N => EndOf(l[j]) <= l[N].at
  BY <1>1 DEF Sorted
<1> HIDE DEF N
<1>4. j < N \/ j = N
  BY <1>1
<1>5. l[j].at <= l[N].at
  BY <1>2, <1>3, <1>4
<1> QED
  BY <1>5 DEF N

\* The tail after free() is the last block: no block begins behind the last one.
LEMMA TailLast ==
    ASSUME UserHeapInv, Len(list) # 0, NEW m, NEW k, Tiles(m, k), Len(m) # 0, StartsIn(m, list)
    PROVE  TailAfter(m) = m[Len(m)].at
<1> DEFINE N == Len(list)
           M == Len(m)
<1>1. /\ list \in Seq(Blocks) /\ N \in Nat /\ N \in 1 .. N /\ Sorted(list) /\ tail = list[N].at
      /\ m \in Seq(Blocks) /\ M \in Nat /\ M \in 1 .. M /\ Sorted(m) /\ DOMAIN m = 1 .. M
  BY DEF UserHeapInv, Tiles
<1>2. \A j \in 1 .. N : list[j].at <= list[N].at
  BY <1>1, LastStarts DEF N
<1>3. \A j \in 1 .. M : m[j].at <= m[M].at
  BY <1>1, LastStarts DEF M
<1>4. \A j \in 1 .. M : m[j].at \in Nat
  BY <1>1, BlockEnds
<1>6. m[M].at <= tail
  <2>1. PICK j \in 1 .. N : m[M].at = list[j].at
    BY <1>1 DEF StartsIn
  <2> QED
    BY <1>1, <1>2, <2>1
<1> HIDE DEF N, M
<1>7. CASE \E j \in DOMAIN m : m[j].at = tail
  <2>1. PICK j \in 1 .. M : m[j].at = tail
    BY <1>1, <1>7
  <2>2. m[M].at = tail
    <3>1. m[j].at <= m[M].at /\ m[M].at \in Nat /\ m[j].at \in Nat
      BY <1>1, <1>3, <1>4
    <3>2. tail \in Nat
      BY <1>4, <2>1
    <3> QED
      BY <3>2, <1>6, <2>1, <3>1
  <2> QED
    BY <1>7, <2>2 DEF TailAfter, M
<1>8. CASE ~ \E j \in DOMAIN m : m[j].at = tail
  BY <1>8 DEF TailAfter
<1> QED
  BY <1>7, <1>8

\* A call that allocates keeps the invariant, whether it finds, requests or returns NULL.
LEMMA AllocatesKeeps ==
    ASSUME UserHeapInv, Over(list, lastPage) = 0, NEW size \in Nat, NEW asked \in Nat,
           NEW alignment, (alignment = 0 /\ size = asked) \/ (alignment = 2 /\ size = asked + 3),
           Allocates(size, asked, alignment)
    PROVE  UserHeapInv'
<1>1. CASE size # 0 /\ Fits(size) # {}
  <2> DEFINE i == find_free_block(size)
             m == split_block(i, size)
  <2>1. /\ list' = m /\ tail' = TailOf(m, i) /\ lastPage' = lastPage
        /\ areas' = Handed(AreaAt(list[i]), asked, alignment)
    BY <1>1 DEF Allocates
  <2>2. i \in 1 .. Len(list) /\ list[i].is_free /\ list[i].size >= size
    BY <1>1, FirstFits DEF UserHeapInv
  <2> HIDE DEF i
  <2>3. /\ \E b : Takes(list, b, size, m, lastPage) /\ AreaAt(b) = AreaAt(list[i])
        /\ TailOf(m, i) = m[Len(m)].at
    BY <2>2, SplitTakes
  <2> HIDE DEF m
  <2>4. PICK b : Takes(list, b, size, m, lastPage) /\ AreaAt(b) = AreaAt(list[i])
    BY <2>3
  <2>5. Match(Used(m), Handed(AreaAt(b), asked, alignment))
    BY <2>4, HandsOut DEF UserHeapInv
  <2>6. Tiles(m, lastPage)
    BY <2>4 DEF Takes
  <2>7. Tiles(list', lastPage')
    BY <2>1, <2>6
  <2>8. Match(Used(list'), areas')
    BY <2>1, <2>4, <2>5
  <2>9. tail' = list'[Len(list')].at
    BY <2>1, <2>3
  <2> QED
    BY <2>7, <2>8, <2>9 DEF UserHeapInv
<1>2. CASE ~(size # 0 /\ Fits(size) # {}) /\ size # 0 /\ CanExtend(PagesFor(size))
  <2> DEFINE m == Requested(size)
             b == m[Len(m)]
  <2>1. /\ list' = m /\ tail' = list'[Len(list')].at /\ lastPage' = lastPage + PagesFor(size)
        /\ areas' = Handed(AreaAt(list'[Len(list')]), asked, alignment)
    BY <1>2 DEF Allocates
  <2>2. Takes(list, b, size, m, lastPage + PagesFor(size))
    BY RequestTakes
  <2> HIDE DEF m
  <2>3. Match(Used(m), Handed(AreaAt(b), asked, alignment))
    BY <2>2, HandsOut DEF UserHeapInv
  <2>4. Tiles(m, lastPage + PagesFor(size))
    BY <2>2 DEF Takes
  <2>5. Tiles(list', lastPage')
    BY <2>1, <2>4
  <2>6. Match(Used(list'), areas')
    BY <2>1, <2>3
  <2> QED
    BY <2>1, <2>5, <2>6 DEF UserHeapInv
<1>3. CASE UNCHANGED heapVars
  BY <1>3 DEF heapVars, UserHeapInv
<1> QED
  BY <1>1, <1>2, <1>3 DEF Allocates

\* free() gives the block back, and joins it with its free neighbours.
LEMMA FreeKeeps ==
    ASSUME UserHeapInv, Over(list, lastPage) = 0, NEW p \in FreeAreas, free(p)
    PROVE  UserHeapInv'
<1> DEFINE i == CHOOSE k \in DOMAIN list : AreaAt(list[k]) = p
           m == coalesce_blocks(list, i)
<1>1. /\ list' = m /\ tail' = TailAfter(list') /\ lastPage' = lastPage
      /\ areas' = [q \in DOMAIN areas \ {p} |-> areas[q]]
  BY DEF free
<1>2. p \in DOMAIN areas
  BY FreeAreaBlock
<1>3. PICK b \in Used(list) : Lies(b, p, areas[p]) /\ p = AreaAt(b)
  BY FreeAreaBlock
<1>4. list \in Seq(Blocks) /\ Sorted(list) /\ Tiles(list, lastPage) /\ Match(Used(list), areas)
  BY DEF UserHeapInv, Tiles
<1>5. i \in 1 .. Len(list) /\ list[i] = b /\ ~list[i].is_free
  BY <1>3, <1>4, FindsBlock
<1> HIDE DEF i
<1>6. /\ Tiles(m, lastPage) /\ Len(m) # 0 /\ Used(m) = Used(list) \ {b} /\ StartsIn(m, list)
  BY <1>4, <1>5, CoalesceTiles
<1> HIDE DEF m
<1>7. Match(Used(m), [q \in DOMAIN areas \ {p} |-> areas[q]])
  <2>1. Separate(Used(list))
    BY <1>4, UsedSeparate
  <2>2. Match(Used(list) \ {b}, [q \in DOMAIN areas \ {p} |-> areas[q]])
    BY <1>2, <1>3, <1>4, <2>1, MatchFrees
  <2> QED
    BY <1>6, <2>2
<1>8. TailAfter(m) = m[Len(m)].at
  <2>1. Len(list) # 0
    BY <1>4, <1>5
  <2> QED
    BY <1>6, <2>1, TailLast
<1>9. Tiles(list', lastPage')
  BY <1>1, <1>6
<1>10. Match(Used(list'), areas')
  BY <1>1, <1>7
<1>11. tail' = list'[Len(list')].at
  BY <1>1, <1>8
<1> QED
  BY <1>9, <1>10, <1>11 DEF UserHeapInv

\* An area that realloc() leaves in place ends where it did, or is short.
LEMMA ReallocKeepsKeeps ==
    ASSUME UserHeapInv, NEW p \in FreeAreas, ~areas[p].short, NEW size \in Nat, NEW word,
           ReallocKeeps(p, size, word)
    PROVE  UserHeapInv'
<1> DEFINE a == [size |-> size, aligned |-> FALSE, short |-> size > areas[p].size]
           A == [q \in DOMAIN areas \cup {p} |-> IF q = p THEN a ELSE areas[q]]
<1>1. areas' = A /\ list' = list /\ tail' = tail /\ lastPage' = lastPage
  BY DEF ReallocKeeps, NewArea
<1>2. p \in DOMAIN areas /\ p \in Nat /\ areas[p] \in Areas
  BY FreeAreaBlock
<1>3. PICK b \in Used(list) : Lies(b, p, areas[p]) /\ p = AreaAt(b)
  BY FreeAreaBlock
<1>4. Tiles(list, lastPage) /\ Separate(Used(list)) /\ Match(Used(list), areas)
  BY UsedSeparate DEF UserHeapInv
<1>5. a \in Areas /\ a.size = size /\ a.short = (size > areas[p].size)
  BY DEF Areas
<1>6. areas[p].size \in Nat /\ areas[p].short = FALSE
  BY <1>2 DEF Areas
<1> HIDE DEF a
<1>7. Lies(b, p, a)
  <2>1. b \in Blocks
    BY <1>4 DEF Separate
  <2>2. EndOf(b) \in Nat
    BY <2>1, BlockEnds
  <2>3. AreaAt(b) <= p /\ p + areas[p].size <= EndOf(b)
    BY <1>3, <1>6 DEF Lies
  <2>4. p + (IF size > areas[p].size THEN 0 ELSE size) <= EndOf(b)
    BY <1>2, <1>6, <2>2, <2>3
  <2> QED
    BY <1>5, <2>3, <2>4 DEF Lies
<1>8. Match(Used(list), A)
  BY <1>2, <1>3, <1>4, <1>5, <1>7, MatchResizes
<1> HIDE DEF A
<1>9. Match(Used(list'), areas')
  BY <1>1, <1>8
<1> QED
  BY <1>1, <1>4, <1>9 DEF UserHeapInv

\* realloc() that moves an area frees the block the area was in, and no other.
LEMMA ReallocMovesKeeps ==
    ASSUME UserHeapInv, Over(list, lastPage) = 0, NEW p \in FreeAreas, NEW size \in Nat, NEW word,
           ReallocMoves(p, size, word)
    PROVE  UserHeapInv'
<1> DEFINE f == Fits(size) # {}
           i == find_free_block(size)
           t == IF f THEN split_block(i, size) ELSE Requested(size)
           n == IF f THEN lastPage ELSE lastPage + PagesFor(size)
           x == AreaAt(IF f THEN list[i] ELSE t[Len(t)])
           o == CHOOSE k \in DOMAIN t : AreaAt(t[k]) = p
           m == coalesce_blocks(t, o)
           H == Handed(x, size, 0)
<1>1. /\ list' = m /\ tail' = list'[Len(list')].at /\ lastPage' = n
      /\ areas' = [q \in DOMAIN H \ {p} |-> H[q]]
  BY DEF ReallocMoves
<1>2. p \in DOMAIN areas
  BY FreeAreaBlock
<1>3. PICK c \in Used(list) : Lies(c, p, areas[p]) /\ p = AreaAt(c)
  BY FreeAreaBlock
<1>4. Tiles(list, lastPage) /\ Match(Used(list), areas)
  BY DEF UserHeapInv
<1>5. \E b : Takes(list, b, size, t, n) /\ AreaAt(b) = x
  <2>1. CASE f
    <3>1. i \in 1 .. Len(list) /\ list[i].is_free /\ list[i].size >= size
      BY <1>4, <2>1, FirstFits
    <3> HIDE DEF i
    <3>2. \E b : Takes(list, b, size, split_block(i, size), lastPage) /\ AreaAt(b) = AreaAt(list[i])
      BY <3>1, SplitTakes
    <3>3. t = split_block(i, size) /\ n = lastPage /\ x = AreaAt(list[i])
      BY <2>1
    <3> HIDE DEF t, n, x, f
    <3> QED
      BY <3>2, <3>3
  <2>2. CASE ~f
    <3> DEFINE r == Requested(size)
    <3>1. Takes(list, r[Len(r)], size, r, lastPage + PagesFor(size))
      BY RequestTakes
    <3>2. t = r /\ n = lastPage + PagesFor(size) /\ x = AreaAt(r[Len(r)])
      BY <2>2
    <3> HIDE DEF t, n, x, f, r
    <3> QED
      BY <3>1, <3>2
  <2> QED
    BY <2>1, <2>2
<1> HIDE DEF f, i, t, n, x
<1>6. PICK b : Takes(list, b, size, t, n) /\ AreaAt(b) = x
  BY <1>5
<1>7. /\ Tiles(t, n) /\ b \notin Used(list) /\ Used(t) = Used(list) \cup {b}
      /\ b = t[Len(t)] \/ Over(t, n) = 0
      /\ t \in Seq(Blocks) /\ Sorted(t)
  BY <1>6 DEF Takes, Tiles
<1>8. Match(Used(t), H) /\ x \notin DOMAIN areas
  BY <1>4, <1>6, HandsOut
<1>9. c \in Used(t) /\ c # b
  BY <1>3, <1>7
<1>10. o \in 1 .. Len(t) /\ t[o] = c /\ ~t[o].is_free
  <2>1. t \in Seq(Blocks) /\ Sorted(t) /\ c \in Used(t) /\ p = AreaAt(c)
    BY <1>3, <1>7, <1>9
  <2> DEFINE e == CHOOSE k \in DOMAIN t : AreaAt(t[k]) = AreaAt(c)
  <2>2. e \in 1 .. Len(t) /\ t[e] = c /\ ~t[e].is_free
    BY <2>1, FindsBlock
  <2>3. o = e
    BY <2>1
  <2> HIDE DEF e, o
  <2> QED
    BY <2>2, <2>3
<1> HIDE DEF o
<1>11. Tiles(m, n) /\ Len(m) # 0 /\ Used(m) = Used(t) \ {c}
  <2>1. o # Len(t) \/ Over(t, n) = 0
    BY <1>7, <1>9, <1>10
  <2> QED
    BY <1>7, <1>10, <2>1, CoalesceTiles
<1> HIDE DEF m
<1>12. p \in DOMAIN H /\ H[p] = areas[p]
  <2>1. p # x
    BY <1>2, <1>8
  <2> QED
    BY <1>2, <2>1 DEF Handed, NewArea
<1> HIDE DEF H
<1>13. Match(Used(m), [q \in DOMAIN H \ {p} |-> H[q]])
  <2>1. Separate(Used(t))
    BY <1>7, UsedSeparate
  <2>2. Lies(c, p, H[p])
    BY <1>3, <1>12
  <2>3. Match(Used(t) \ {c}, [q \in DOMAIN H \ {p} |-> H[q]])
    BY <1>8, <1>9, <1>12, <2>1, <2>2, MatchFrees
  <2> QED
    BY <1>11, <2>3
<1>14. Tiles(list', lastPage')
  BY <1>1, <1>11
<1>15. Match(Used(list'), areas')
  BY <1>1, <1>13
<1> QED
  BY <1>1, <1>14, <1>15 DEF UserHeapInv

\* A heap is empty at first.
LEMMA UserHeapInvInit == HeapInit => UserHeapInv
<1> SUFFICES ASSUME HeapInit PROVE UserHeapInv
  OBVIOUS
<1>1. list = <<>> /\ lastPage = 0 /\ areas = <<>>
  BY DEF HeapInit
<1>2. Used(list) = {}
  BY <1>1 DEF Used
<1>3. Tiles(list, lastPage)
  BY <1>1 DEF Tiles, Linked, Sorted, Overhang, Over
<1>4. DOMAIN areas = {} /\ areas \in [DOMAIN areas -> Areas]
  BY <1>1
<1>5. Match(Used(list), areas)
  BY <1>2, <1>4 DEF Match
<1>6. Len(list) = 0
  BY <1>1
<1> QED
  BY <1>3, <1>5, <1>6 DEF UserHeapInv

\* Every call to the heap keeps the invariant.
LEMMA UserHeapInvNext ==
    ASSUME UserHeapInv, [HeapNext]_heapVars PROVE UserHeapInv'
<1>1. Tiles(list, lastPage) /\ AreaSizes \subseteq Nat
  BY UserHeapAssumption DEF UserHeapInv
<1>2. ASSUME HeapNext PROVE UserHeapInv'
  <2>1. Over(list, lastPage) = 0
    BY <1>1, <1>2, BehindIsOver DEF HeapNext
  <2>2. \A p \in DOMAIN areas : ~areas[p].short
    BY <1>2 DEF HeapNext
  <2>3. ASSUME NEW size \in AreaSizes, malloc(size) PROVE UserHeapInv'
    BY <1>1, <2>1, <2>3, AllocatesKeeps DEF malloc
  <2>4. ASSUME NEW size \in AreaSizes, calloc(2, size) PROVE UserHeapInv'
    <3>1. 2 * size \in Nat
      BY <1>1
    <3> QED
      BY <2>1, <2>4, <3>1, AllocatesKeeps DEF calloc, malloc
  <2>5. ASSUME NEW size \in AreaSizes, aligned_alloc(2, size) PROVE UserHeapInv'
    <3>1. size \in Nat /\ size + 2 + 1 \in Nat /\ size + 2 + 1 = size + 3
      BY <1>1
    <3>2. Allocates(size + 2 + 1, size, 2)
      BY <2>5 DEF aligned_alloc
    <3> QED
      BY <2>1, <3>1, <3>2, AllocatesKeeps
  <2>6. ASSUME NEW p \in FreeAreas, free(p) PROVE UserHeapInv'
    BY <2>1, <2>6, FreeKeeps
  <2>7. ASSUME NEW p \in FreeAreas, NEW size \in AreaSizes, NEW word \in FirstWords,
               ReallocKeeps(p, size, word)
        PROVE  UserHeapInv'
    <3>1. ~areas[p].short
      BY <2>2 DEF FreeAreas
    <3> QED
      BY <1>1, <2>7, <3>1, ReallocKeepsKeeps
  <2>8. ASSUME NEW p \in FreeAreas, NEW size \in AreaSizes, NEW word \in FirstWords,
               ReallocMoves(p, size, word)
        PROVE  UserHeapInv'
    BY <1>1, <2>1, <2>8, ReallocMovesKeeps
  <2> QED
    BY <1>2, <2>3, <2>4, <2>5, <2>6, <2>7, <2>8 DEF HeapNext
<1>3. ASSUME UNCHANGED heapVars PROVE UserHeapInv'
  BY <1>3 DEF heapVars, UserHeapInv
<1> QED
  BY <1>2, <1>3

\* What the invariant says of each area and block is what malloc promises.
LEMMA UserHeapInvKeeps == UserHeapInv => UserAreasKept
<1> SUFFICES ASSUME UserHeapInv PROVE UserAreasKept
  OBVIOUS
<1> DEFINE N == Len(list)
<1>1. /\ Tiles(list, lastPage) /\ list \in Seq(Blocks) /\ N \in Nat /\ DOMAIN list = 1 .. N
      /\ Linked(list, lastPage) /\ Overhang(list, lastPage) /\ Sorted(list)
      /\ Match(Used(list), areas) /\ Separate(Used(list))
      /\ N # 0 => tail = list[N].at
  BY UsedSeparate DEF UserHeapInv, Tiles
<1>2. Behind = Over(list, lastPage)
  BY <1>1, BehindIsOver
<1>3. \A i \in DOMAIN list :
        list[i].at = (IF i = 1 THEN 0 ELSE EndOf(list[i - 1])) + (IF i = Len(list) THEN Behind ELSE 0)
  BY <1>1, <1>2 DEF Linked
<1>4. list # <<>> => /\ Behind \in {0, HeaderWords + list[Len(list)].size - PageWords}
                     /\ tail = list[Len(list)].at
  <2>1. list # <<>> => N # 0
    BY <1>1, EmptySeq
  <2> QED
    BY <1>1, <1>2, <2>1 DEF Overhang
<1>5. /\ DOMAIN areas \subseteq Nat /\ \A p \in DOMAIN areas : areas[p] \in Areas
      /\ \A p \in DOMAIN areas : \E b \in Used(list) : Lies(b, p, areas[p])
      /\ \A b \in Used(list) : \E p \in DOMAIN areas : Lies(b, p, areas[p])
      /\ \A b \in Used(list) : \A p, q \in DOMAIN areas :
           Lies(b, p, areas[p]) /\ Lies(b, q, areas[q]) => p = q
  BY <1>1 DEF Match
<1>6. \A i \in 1 .. N : ~list[i].is_free => list[i] \in Used(list)
  BY DEF Used
<1>7. \A i \in 1 .. N : \A p \in DOMAIN areas :
        Within(p, list[i]) <=> ~list[i].is_free /\ Lies(list[i], p, areas[p])
  BY DEF Within, Lies
<1>8. ASSUME NEW p \in DOMAIN areas
      PROVE  Cardinality({i \in DOMAIN list : Within(p, list[i])}) = 1
  <2>1. PICK b \in Used(list) : Lies(b, p, areas[p])
    BY <1>5
  <2>2. PICK k \in 1 .. N : b = list[k] /\ ~list[k].is_free
    BY DEF Used
  <2>3. ASSUME NEW i \in 1 .. N, Within(p, list[i]) PROVE i = k
    <3>1. ~list[i].is_free /\ list[i] \in Used(list) /\ Lies(list[i], p, areas[p])
      BY <1>6, <1>7, <2>3
    <3>2. p \in Nat /\ areas[p] \in Areas
      BY <1>5
    <3>3. list[i] = b
      BY <1>1, <2>1, <3>1, <3>2, OneBlock
    <3>4. list[i].at = list[k].at
      BY <2>2, <3>3
    <3> QED
      BY <1>1, <3>4, SortedApart
  <2>4. Within(p, list[k])
    BY <1>7, <2>1, <2>2
  <2>5. {i \in DOMAIN list : Within(p, list[i])} = {k}
    BY <1>1, <2>3, <2>4
  <2> QED
    BY <2>5, FS_Singleton
<1>9. ASSUME NEW i \in DOMAIN list, ~list[i].is_free
      PROVE  Cardinality({p \in DOMAIN areas : Within(p, list[i])}) = 1
  <2>1. i \in 1 .. N /\ list[i] \in Used(list)
    BY <1>1, <1>6, <1>9
  <2>2. PICK p \in DOMAIN areas : Lies(list[i], p, areas[p])
    BY <1>5, <2>1
  <2>3. {q \in DOMAIN areas : Within(q, list[i])} = {p}
    BY <1>5, <1>7, <1>9, <2>1, <2>2
  <2> QED
    BY <2>3, FS_Singleton
<1> QED
  BY <1>3, <1>4, <1>8, <1>9 DEF UserAreasKept

\* Across any calls of malloc, calloc, aligned_alloc, free and realloc (alloc.c), the
\* blocks tile the heap but for what lastpg leaves behind it, the tail is the last of
\* them, and the used blocks and the areas in use are one for the other.
THEOREM UserAreasAlwaysKept == HeapInit /\ [][HeapNext]_heapVars => []UserAreasKept
<1>1. HeapInit => UserHeapInv
  BY UserHeapInvInit
<1>2. UserHeapInv /\ [HeapNext]_heapVars => UserHeapInv'
  BY UserHeapInvNext
<1>3. UserHeapInv => UserAreasKept
  BY UserHeapInvKeeps
<1> QED
  BY <1>1, <1>2, <1>3, PTL

-----------------------------------------------------------------------------
(* Vectors: what the calls make of one vector and the objects it holds.    *)

Slots == Objects \cup {Raw}

\* A vector that counts as many objects as it was given, with its capacity in slots.
Shaped(v, h) ==
    /\ v \in [buf : Seq(Slots), count : Nat, capacity : Nat]
    /\ h \in Seq(Objects)
    /\ v.capacity = Len(v.buf) /\ v.count = Len(h)

\* The vector v has a slot for each of the objects h, and they are in there.
Holds(v, h) ==
    /\ Shaped(v, h)
    /\ v.count <= v.capacity
    /\ \A i \in 1 .. v.count : v.buf[i] = h[i]

\* A vector made of a buffer that begins with the objects holds them.
LEMMA MakeHolds ==
    ASSUME NEW buf \in Seq(Slots), NEW h \in Seq(Objects), NEW count \in Nat, NEW capacity,
           capacity = Len(buf), count = Len(h), count <= Len(buf),
           \A i \in 1 .. count : buf[i] = h[i]
    PROVE  Holds(Vector(buf, count, capacity), h)
<1> DEFINE v == Vector(buf, count, capacity)
<1>1. v.buf = buf /\ v.count = count /\ v.capacity = capacity
  BY DEF Vector
<1>2. v \in [buf : Seq(Slots), count : Nat, capacity : Nat]
  <2>1. capacity \in Nat
    OBVIOUS
  <2> QED
    BY <2>1 DEF Vector
<1> HIDE DEF v
<1>3. Holds(v, h)
  BY <1>1, <1>2 DEF Holds, Shaped
<1> QED
  BY <1>3 DEF v

\* What a vector is made of.
LEMMA HoldsParts ==
    ASSUME NEW v, NEW h, Shaped(v, h)
    PROVE  /\ v.buf \in Seq(Slots) /\ v.count \in Nat /\ v.capacity \in Nat
           /\ Len(v.buf) \in Nat /\ v.capacity = Len(v.buf)
           /\ h \in Seq(Objects) /\ Len(h) = v.count
           /\ \A i \in 1 .. Len(v.buf) : v.buf[i] \in Slots
           /\ \A i \in 1 .. Len(h) : h[i] \in Objects
           /\ v = Vector(v.buf, v.count, v.capacity)
  BY DEF Shaped, Vector

\* A new buffer has its slots raw.
LEMMA AllocateSlots ==
    ASSUME NEW n \in Nat
    PROVE  allocate(n) \in Seq(Slots) /\ Len(allocate(n)) = n
<1>1. allocate(n) \in [1 .. n -> Slots]
  BY DEF allocate, Slots
<1>2. allocate(n) \in Seq(Slots)
  BY <1>1
<1> QED
  BY <1>1, <1>2

\* A new vector, and one that was moved from, hold nothing.
LEMMA EmptyHolds == Holds(Empty, <<>>) /\ Holds(Moved, <<>>)
<1>1. <<>> \in Seq(Slots) /\ <<>> \in Seq(Objects) /\ Len(<<>>) = 0
  OBVIOUS
<1>2. allocate(1) \in Seq(Slots) /\ Len(allocate(1)) = 1
  BY AllocateSlots
<1>3. Holds(Vector(allocate(1), 0, 1), <<>>)
  <2> DEFINE buf == allocate(1)
  <2>1. buf \in Seq(Slots) /\ 1 = Len(buf) /\ 0 <= Len(buf) /\ 0 \in Nat
    BY <1>2
  <2>2. \A i \in 1 .. 0 : buf[i] = <<>>[i]
    OBVIOUS
  <2> HIDE DEF buf
  <2>3. Holds(Vector(buf, 0, 1), <<>>)
    BY <1>1, <2>1, <2>2, MakeHolds
  <2> QED
    BY <2>3 DEF buf
<1>4. Holds(Vector(<<>>, 0, 0), <<>>)
  <2>1. \A i \in 1 .. 0 : <<>>[i] = <<>>[i]
    OBVIOUS
  <2>2. 0 \in Nat /\ 0 <= Len(<<>>)
    OBVIOUS
  <2> QED
    BY <1>1, <2>1, <2>2, MakeHolds
<1> QED
  BY <1>3, <1>4 DEF Empty, Moved

\* Objects that are moved into a larger buffer stay in front of it.
LEMMA RoomHolds ==
    ASSUME NEW v, NEW h, Holds(v, h), NEW capacity \in Nat, v.count <= capacity
    PROVE  Holds(Vector(FirstSlots(v, v.count) \o allocate(capacity - v.count), v.count, capacity), h)
<1> DEFINE a == FirstSlots(v, v.count)
           c == allocate(capacity - v.count)
           N == v.count
           B == Len(v.buf)
<1>1. /\ v.buf \in Seq(Slots) /\ N \in Nat /\ B \in Nat /\ h \in Seq(Objects) /\ Len(h) = N
      /\ N <= B /\ \A i \in 1 .. N : v.buf[i] = h[i]
      /\ \A i \in 1 .. B : v.buf[i] \in Slots
  BY HoldsParts DEF Holds
<1> HIDE DEF B, N
<1>2. a \in Seq(Slots) /\ Len(a) = N /\ \A i \in 1 .. N : a[i] = v.buf[i]
  <2>1. \A i \in 1 .. N : v.buf[i] \in Slots
    BY <1>1
  <2>2. /\ SubSeq(v.buf, 1, N) \in Seq(Slots)
        /\ Len(SubSeq(v.buf, 1, N)) = IF 1 <= N THEN N - 1 + 1 ELSE 0
        /\ \A i \in 1 .. N - 1 + 1 : SubSeq(v.buf, 1, N)[i] = v.buf[1 + i - 1]
    BY <1>1, <2>1, SubSeqProperties
  <2>3. a = SubSeq(v.buf, 1, N)
    BY DEF FirstSlots, N
  <2>4. Len(a) = N
    BY <1>1, <2>2, <2>3
  <2>5. \A i \in 1 .. N : a[i] = v.buf[i]
    <3>1. \A i \in 1 .. N : i \in 1 .. N - 1 + 1 /\ 1 + i - 1 = i
      BY <1>1
    <3> QED
      BY <2>2, <2>3, <3>1
  <2> QED
    BY <2>2, <2>3, <2>4, <2>5
<1>3. c \in Seq(Slots) /\ Len(c) = capacity - N
  <2>1. capacity - N \in Nat
    BY <1>1 DEF N
  <2> QED
    BY <2>1, AllocateSlots DEF N
<1> HIDE DEF a, c
<1>4. /\ a \o c \in Seq(Slots) /\ Len(a \o c) = Len(a) + Len(c)
      /\ \A i \in 1 .. Len(a) + Len(c) : (a \o c)[i] = IF i <= Len(a) THEN a[i] ELSE c[i - Len(a)]
  BY <1>2, <1>3, ConcatProperties
<1> DEFINE m == a \o c
<1> HIDE DEF m
<1>5. m \in Seq(Slots) /\ Len(m) = capacity /\ \A i \in 1 .. N : m[i] = h[i]
  <2>1. Len(m) = capacity
    BY <1>1, <1>2, <1>3, <1>4 DEF m
  <2>2. ASSUME NEW i \in 1 .. N PROVE m[i] = h[i]
    <3>1. i \in 1 .. Len(a) + Len(c) /\ i <= Len(a)
      BY <1>1, <1>2, <1>3, <1>4, <2>1 DEF N, m
    <3>2. m[i] = a[i]
      BY <1>4, <3>1 DEF m
    <3> QED
      BY <1>1, <1>2, <3>2
  <2> QED
    BY <1>4, <2>1, <2>2 DEF m
<1>6. N <= Len(m)
  BY <1>5 DEF N
<1>7. Holds(Vector(m, N, capacity), h)
  BY <1>1, <1>5, <1>6, MakeHolds
<1> QED
  BY <1>7 DEF m, a, c, N

\* A vector that grows holds what it held, and has room unless it has no capacity at all.
LEMMA GrownHolds ==
    ASSUME NEW v, NEW h, Holds(v, h)
    PROVE  /\ Holds(Grown(v), h)
           /\ Grown(v).count < Len(Grown(v).buf) \/ Len(Grown(v).buf) = 0
<1>1. v.count \in Nat /\ v.capacity \in Nat /\ v.count <= v.capacity /\ v.capacity = Len(v.buf)
  BY HoldsParts DEF Holds
<1>2. CASE v.count >= v.capacity
  <2>1. v.count = v.capacity /\ 2 * v.capacity \in Nat /\ v.count <= 2 * v.capacity
    BY <1>1, <1>2
  <2>2. Holds(extend(v), h)
    BY <2>1, RoomHolds DEF extend
  <2>3. extend(v).count = v.count /\ extend(v).capacity = 2 * v.capacity
    BY DEF extend, Vector
  <2>4. Len(extend(v).buf) = 2 * v.capacity
    BY <2>2, <2>3, HoldsParts DEF Holds
  <2>5. Grown(v) = extend(v)
    BY <1>2 DEF Grown
  <2> QED
    BY <1>1, <2>1, <2>2, <2>3, <2>4, <2>5
<1>3. CASE ~(v.count >= v.capacity)
  BY <1>1, <1>3 DEF Grown
<1> QED
  BY <1>2, <1>3

\* construct() and destroy() write one slot.
LEMMA WritesSlot ==
    ASSUME NEW buf \in Seq(Slots), NEW n \in Nat, n < Len(buf), NEW object \in Objects
    PROVE  /\ construct(buf, n, object) \in Seq(Slots) /\ destroy(buf, n) \in Seq(Slots)
           /\ Len(construct(buf, n, object)) = Len(buf) /\ Len(destroy(buf, n)) = Len(buf)
           /\ \A i \in 1 .. Len(buf) :
                /\ construct(buf, n, object)[i] = IF i = n + 1 THEN object ELSE buf[i]
                /\ i # n + 1 => destroy(buf, n)[i] = buf[i]
<1>1. Len(buf) \in Nat /\ n + 1 \in 1 .. Len(buf) /\ ~(n >= Len(buf))
  OBVIOUS
<1>2. object \in Slots /\ Raw \in Slots
  BY DEF Slots
<1>3. /\ construct(buf, n, object) = [buf EXCEPT ![n + 1] = object]
      /\ destroy(buf, n) = [buf EXCEPT ![n + 1] = Raw]
  BY <1>1 DEF construct, destroy
<1>4. /\ [buf EXCEPT ![n + 1] = object] \in Seq(Slots)
      /\ Len([buf EXCEPT ![n + 1] = object]) = Len(buf)
      /\ \A i \in 1 .. Len(buf) :
           [buf EXCEPT ![n + 1] = object][i] = IF i = n + 1 THEN object ELSE buf[i]
  BY <1>1, <1>2, ExceptSeq
<1>5. /\ [buf EXCEPT ![n + 1] = Raw] \in Seq(Slots)
      /\ Len([buf EXCEPT ![n + 1] = Raw]) = Len(buf)
      /\ \A i \in 1 .. Len(buf) :
           [buf EXCEPT ![n + 1] = Raw][i] = IF i = n + 1 THEN Raw ELSE buf[i]
  BY <1>1, <1>2, ExceptSeq
<1> QED
  BY <1>3, <1>4, <1>5

\* The buffer and the count of a vector are assigned.
LEMMA Assigned ==
    ASSUME NEW v, NEW h, Shaped(v, h), NEW buf, NEW n
    PROVE  [v EXCEPT !.buf = buf, !.count = n] = Vector(buf, n, v.capacity)
<1> DEFINE w == [v EXCEPT !.buf = buf]
<1>1. v \in [buf : Seq(Slots), count : Nat, capacity : Nat]
  BY DEF Shaped
<1>2. w \in [buf : {buf}, count : Nat, capacity : Nat] /\ w.buf = buf /\ w.capacity = v.capacity
  BY <1>1
<1>4. [v EXCEPT !.buf = buf, !.count = n] = [w EXCEPT !.count = n]
  BY <1>1
<1> HIDE DEF w
<1>3. [w EXCEPT !.count = n] = [buf |-> w.buf, count |-> n, capacity |-> w.capacity]
  BY <1>2
<1> QED
  BY <1>2, <1>3, <1>4 DEF Vector

Pushed(v, object) == [v EXCEPT !.buf = construct(@, v.count, object), !.count = @ + 1]

\* An object that is pushed into a vector with room is behind those it held.
LEMMA PushedHolds ==
    ASSUME NEW v, NEW h, Holds(v, h), NEW object \in Objects, v.count < Len(v.buf)
    PROVE  Holds(Pushed(v, object), Append(h, object))
<1> DEFINE N == v.count
           B == Len(v.buf)
           m == construct(v.buf, v.count, object)
           g == Append(h, object)
<1>1. /\ v.buf \in Seq(Slots) /\ N \in Nat /\ B \in Nat /\ h \in Seq(Objects) /\ Len(h) = N
      /\ v.capacity = B /\ N < B
      /\ \A i \in 1 .. N : v.buf[i] = h[i]
  BY HoldsParts DEF Holds
<1>2. /\ m \in Seq(Slots) /\ Len(m) = B
      /\ \A i \in 1 .. B : m[i] = IF i = N + 1 THEN object ELSE v.buf[i]
  BY <1>1, WritesSlot
<1>3. /\ g \in Seq(Objects) /\ Len(g) = N + 1
      /\ \A i \in 1 .. N : g[i] = h[i]
      /\ g[N + 1] = object
  BY <1>1, AppendProperties
<1>4. Pushed(v, object) = Vector(m, N + 1, B)
  <2>1. Shaped(v, h)
    BY DEF Holds
  <2>2. Pushed(v, object) = [v EXCEPT !.buf = m, !.count = N + 1]
    BY DEF Pushed
  <2> HIDE DEF m, N, B
  <2>3. [v EXCEPT !.buf = m, !.count = N + 1] = Vector(m, N + 1, v.capacity)
    BY <2>1, Assigned
  <2> QED
    BY <1>1, <2>2, <2>3
<1> HIDE DEF N, B, m, g
<1>5. ASSUME NEW i \in 1 .. N + 1 PROVE m[i] = g[i]
  <2>1. i = N + 1 \/ i \in 1 .. N
    BY <1>1
  <2>2. i \in 1 .. B
    BY <1>1
  <2>3. i \in 1 .. N => i # N + 1
    BY <1>1
  <2> QED
    BY <1>1, <1>2, <1>3, <2>1, <2>2, <2>3
<1>6. N + 1 \in Nat /\ N + 1 <= B
  BY <1>1 DEF N
<1>7. Holds(Vector(m, N + 1, B), g)
  BY <1>2, <1>3, <1>5, <1>6, MakeHolds
<1> QED
  BY <1>4, <1>7 DEF g

\* The first objects of h, and as many of the slots, which their buffer may outnumber.
LEMMA FewerHolds ==
    ASSUME NEW v, NEW h, Holds(v, h), NEW n \in 0 .. v.count, NEW buf \in Seq(Slots),
           n <= Len(buf), \A i \in 1 .. n : buf[i] = v.buf[i]
    PROVE  Holds(Vector(buf, n, Len(buf)), SubSeq(h, 1, n))
<1> DEFINE g == SubSeq(h, 1, n)
<1>1. /\ v.count \in Nat /\ h \in Seq(Objects) /\ Len(h) = v.count
      /\ \A i \in 1 .. v.count : v.buf[i] = h[i] /\ h[i] \in Objects
  BY HoldsParts DEF Holds
<1>2. n \in Nat /\ n \in Int /\ 1 .. n \subseteq 1 .. v.count
  BY <1>1
<1>3. /\ g \in Seq(Objects) /\ Len(g) = IF 1 <= n THEN n - 1 + 1 ELSE 0
      /\ \A i \in 1 .. n - 1 + 1 : g[i] = h[1 + i - 1]
  <2>1. \A i \in 1 .. n : h[i] \in Objects
    BY <1>1, <1>2
  <2> QED
    BY <1>2, <2>1, SubSeqProperties
<1> HIDE DEF g
<1>4. Len(g) = n
  BY <1>2, <1>3
<1>5. ASSUME NEW i \in 1 .. n PROVE buf[i] = g[i]
  <2>1. i \in 1 .. n - 1 + 1 /\ 1 + i - 1 = i /\ i \in 1 .. v.count
    BY <1>2
  <2>2. g[i] = h[i]
    BY <1>3, <2>1
  <2> QED
    BY <1>1, <2>1, <2>2
<1>6. Holds(Vector(buf, n, Len(buf)), g)
  BY <1>2, <1>3, <1>4, <1>5, MakeHolds
<1> QED
  BY <1>6 DEF g

Popped(v) == [v EXCEPT !.buf = destroy(@, v.count - 1), !.count = @ - 1]

\* popBack() takes the last object.
LEMMA PoppedHolds ==
    ASSUME NEW v, NEW h, Holds(v, h), v.count > 0
    PROVE  Holds(Popped(v), SubSeq(h, 1, Len(h) - 1))
<1> DEFINE N == v.count
           m == destroy(v.buf, v.count - 1)
<1>1. /\ v.buf \in Seq(Slots) /\ N \in Nat /\ Len(v.buf) \in Nat /\ Len(h) = N
      /\ v.capacity = Len(v.buf) /\ N <= Len(v.buf)
  BY HoldsParts DEF Holds
<1>2. N - 1 \in Nat /\ N - 1 < Len(v.buf) /\ N - 1 \in 0 .. v.count
  BY <1>1
<1>3. /\ m \in Seq(Slots) /\ Len(m) = Len(v.buf)
      /\ \A i \in 1 .. Len(v.buf) : i # N - 1 + 1 => m[i] = v.buf[i]
  <2>1. ASSUME NEW object \in Objects
        PROVE  /\ m \in Seq(Slots) /\ Len(m) = Len(v.buf)
               /\ \A i \in 1 .. Len(v.buf) : i # N - 1 + 1 => m[i] = v.buf[i]
    BY <1>1, <1>2, WritesSlot
  <2>2. h[1] \in Objects
    <3>1. 1 \in 1 .. Len(h)
      BY <1>1
    <3> QED
      BY <3>1, HoldsParts DEF Holds
  <2> QED
    BY <2>1, <2>2
<1>4. Popped(v) = Vector(m, N - 1, Len(v.buf))
  <2>1. Shaped(v, h)
    BY DEF Holds
  <2>2. Popped(v) = [v EXCEPT !.buf = m, !.count = N - 1]
    BY DEF Popped
  <2> HIDE DEF m, N
  <2>3. [v EXCEPT !.buf = m, !.count = N - 1] = Vector(m, N - 1, v.capacity)
    BY <2>1, Assigned
  <2> QED
    BY <1>1, <2>2, <2>3
<1> HIDE DEF m
<1>5. \A i \in 1 .. N - 1 : m[i] = v.buf[i]
  <2>1. \A i \in 1 .. N - 1 : i \in 1 .. Len(v.buf) /\ i # N - 1 + 1
    BY <1>1
  <2> QED
    BY <1>3, <2>1
<1>6. N - 1 <= Len(m)
  BY <1>2, <1>3
<1> HIDE DEF N
<1>7. Holds(Vector(m, N - 1, Len(m)), SubSeq(h, 1, N - 1))
  BY <1>2, <1>3, <1>5, <1>6, FewerHolds
<1> QED
  BY <1>1, <1>3, <1>4, <1>7

\* resize() of the kernel keeps what the new size has room for.
LEMMA ResizedHolds ==
    ASSUME NEW v, NEW h, Holds(v, h), NEW size \in Nat, NEW n,
           n = IF size < v.count THEN size ELSE v.count
    PROVE  Holds(Vector(resizeBuffer(v.buf, size), n, size), SubSeq(h, 1, n))
<1> DEFINE m == resizeBuffer(v.buf, size)
<1>1. /\ v.buf \in Seq(Slots) /\ v.count \in Nat /\ Len(v.buf) \in Nat /\ v.count <= Len(v.buf)
      /\ \A i \in 1 .. Len(v.buf) : v.buf[i] \in Slots
  BY HoldsParts DEF Holds
<1>2. n \in Nat /\ n \in 0 .. v.count /\ n <= size /\ n <= Len(v.buf)
  BY <1>1
<1>3. m \in [1 .. size -> Slots]
  <2>1. \A i \in 1 .. size : i <= Len(v.buf) => v.buf[i] \in Slots
    BY <1>1
  <2>2. Raw \in Slots
    BY DEF Slots
  <2> QED
    BY <2>1, <2>2 DEF resizeBuffer
<1>4. m \in Seq(Slots) /\ Len(m) = size
  <2>1. m \in Seq(Slots)
    BY <1>3
  <2> QED
    BY <1>3, <2>1
<1>5. \A i \in 1 .. n : m[i] = v.buf[i]
  <2>1. \A i \in 1 .. n : i \in 1 .. size /\ i <= Len(v.buf)
    BY <1>1, <1>2
  <2> QED
    BY <2>1 DEF resizeBuffer
<1> HIDE DEF m
<1>6. Holds(Vector(m, n, Len(m)), SubSeq(h, 1, n))
  BY <1>2, <1>4, <1>5, FewerHolds
<1> QED
  BY <1>4, <1>6 DEF m

\* clear() keeps the slots.
LEMMA ClearedHolds ==
    ASSUME NEW v, NEW h, Shaped(v, h)
    PROVE  Holds(Vector([i \in DOMAIN v.buf |-> IF i <= v.count THEN Raw ELSE v.buf[i]],
                        0, v.capacity), <<>>)
<1> DEFINE m == [i \in DOMAIN v.buf |-> IF i <= v.count THEN Raw ELSE v.buf[i]]
<1>1. /\ v.buf \in Seq(Slots) /\ Len(v.buf) \in Nat /\ v.capacity = Len(v.buf)
      /\ DOMAIN v.buf = 1 .. Len(v.buf)
      /\ \A i \in 1 .. Len(v.buf) : v.buf[i] \in Slots
  BY HoldsParts
<1>2. m \in [1 .. Len(v.buf) -> Slots]
  BY <1>1 DEF Slots
<1>3. m \in Seq(Slots) /\ Len(m) = Len(v.buf)
  <2>1. m \in Seq(Slots)
    BY <1>1, <1>2
  <2> QED
    BY <1>1, <1>2, <2>1
<1> HIDE DEF m
<1>4. <<>> \in Seq(Objects) /\ Len(<<>>) = 0 /\ 0 <= Len(m) /\ \A i \in 1 .. 0 : m[i] = <<>>[i]
  BY <1>1, <1>3
<1>5. Holds(Vector(m, 0, v.capacity), <<>>)
  BY <1>1, <1>3, <1>4, MakeHolds
<1> QED
  BY <1>5 DEF m

Shifted(v, n) == [i \in DOMAIN v.buf |-> IF i > n /\ i < v.count THEN v.buf[i + 1] ELSE v.buf[i]]
Erased(v, n) == Vector(destroy(Shifted(v, n), v.count - 1), v.count - 1, v.capacity)

\* erase() moves the objects behind the one at the index, n, one slot forward.
LEMMA ErasedHolds ==
    ASSUME NEW v, NEW h, Holds(v, h), NEW n \in Nat, n < v.count
    PROVE  Holds(Erased(v, n), SubSeq(h, 1, n) \o SubSeq(h, n + 2, Len(h)))
<1> DEFINE N == v.count
           B == Len(v.buf)
           s == Shifted(v, n)
           m == destroy(s, N - 1)
           a == SubSeq(h, 1, n)
           c == SubSeq(h, n + 2, Len(h))
           g == a \o c
<1>1. /\ v.buf \in Seq(Slots) /\ N \in Nat /\ B \in Nat /\ h \in Seq(Objects) /\ Len(h) = N
      /\ v.capacity = B /\ N <= B /\ DOMAIN v.buf = 1 .. B
      /\ \A i \in 1 .. N : v.buf[i] = h[i]
      /\ \A i \in 1 .. B : v.buf[i] \in Slots
      /\ \A i \in 1 .. N : h[i] \in Objects
  BY HoldsParts DEF Holds
<1>2. n \in Nat /\ n < N /\ N - 1 \in Nat /\ N - 1 < B
  BY <1>1
<1> HIDE DEF N, B
<1>3. /\ s \in Seq(Slots) /\ Len(s) = B
      /\ \A i \in 1 .. B : s[i] = IF i > n /\ i < N THEN v.buf[i + 1] ELSE v.buf[i]
  <2>1. s = [i \in 1 .. B |-> IF i > n /\ i < N THEN v.buf[i + 1] ELSE v.buf[i]]
    BY <1>1 DEF Shifted, N
  <2>2. \A i \in 1 .. B : (IF i > n /\ i < N THEN v.buf[i + 1] ELSE v.buf[i]) \in Slots
    <3>1. \A i \in 1 .. B : i < N => i + 1 \in 1 .. B
      BY <1>1
    <3> QED
      BY <1>1, <3>1
  <2> HIDE DEF s
  <2>3. s \in [1 .. B -> Slots]
    BY <2>1, <2>2
  <2>4. s \in Seq(Slots)
    BY <1>1, <2>3
  <2>5. Len(s) = B
    BY <1>1, <2>3, <2>4
  <2> QED
    BY <2>1, <2>4, <2>5
<1> HIDE DEF s
<1>4. /\ m \in Seq(Slots) /\ Len(m) = B
      /\ \A i \in 1 .. B : i # N - 1 + 1 => m[i] = s[i]
  <2>1. PICK object : object \in Objects
    <3>1. 1 \in 1 .. N
      BY <1>1, <1>2
    <3> QED
      BY <1>1, <3>1
  <2> QED
    BY <1>2, <1>3, <2>1, WritesSlot
<1>5. /\ a \in Seq(Objects) /\ Len(a) = n /\ \A i \in 1 .. n : a[i] = h[i]
  <2>1. \A i \in 1 .. n : h[i] \in Objects
    BY <1>1, <1>2
  <2>2. /\ a \in Seq(Objects) /\ Len(a) = IF 1 <= n THEN n - 1 + 1 ELSE 0
        /\ \A i \in 1 .. n - 1 + 1 : a[i] = h[1 + i - 1]
    BY <1>2, <2>1, SubSeqProperties
  <2> HIDE DEF a
  <2>3. Len(a) = n
    BY <1>2, <2>2
  <2>4. \A i \in 1 .. n : i \in 1 .. n - 1 + 1 /\ 1 + i - 1 = i
    BY <1>2
  <2> QED
    BY <2>2, <2>3, <2>4
<1>6. /\ c \in Seq(Objects) /\ Len(c) = N - 1 - n /\ \A i \in 1 .. N - 1 - n : c[i] = h[n + 1 + i]
  <2> DEFINE k == n + 2
  <2>1. k \in Int /\ N \in Int /\ \A i \in k .. N : h[i] \in Objects
    BY <1>1, <1>2
  <2>2. c = SubSeq(h, k, N)
    BY <1>1
  <2> HIDE DEF c, k
  <2>3. /\ c \in Seq(Objects) /\ Len(c) = IF k <= N THEN N - k + 1 ELSE 0
        /\ \A i \in 1 .. N - k + 1 : c[i] = h[k + i - 1]
    <3>1. /\ SubSeq(h, k, N) \in Seq(Objects) /\ Len(SubSeq(h, k, N)) = IF k <= N THEN N - k + 1 ELSE 0
          /\ \A i \in 1 .. N - k + 1 : SubSeq(h, k, N)[i] = h[k + i - 1]
      BY <2>1, SubSeqProperties
    <3> QED
      BY <2>2, <3>1
  <2>4. Len(c) = N - 1 - n
    BY <1>1, <1>2, <2>3 DEF k
  <2>5. \A i \in 1 .. N - 1 - n : i \in 1 .. N - k + 1 /\ k + i - 1 = n + 1 + i
    BY <1>1, <1>2 DEF k
  <2> QED
    BY <2>3, <2>4, <2>5
<1> HIDE DEF a, c, m
<1>7. /\ g \in Seq(Objects) /\ Len(g) = Len(a) + Len(c)
      /\ \A i \in 1 .. Len(a) + Len(c) : g[i] = IF i <= Len(a) THEN a[i] ELSE c[i - Len(a)]
  BY <1>5, <1>6, ConcatProperties
<1> HIDE DEF g
<1>8. Len(a) + Len(c) = N - 1
  BY <1>1, <1>2, <1>5, <1>6
<1>9. ASSUME NEW i \in 1 .. N - 1 PROVE m[i] = g[i]
  <2>1. i \in 1 .. B /\ i # N - 1 + 1 /\ i < N /\ i \in 1 .. N /\ i + 1 \in 1 .. N
    BY <1>1, <1>2
  <2>2. m[i] = IF i > n THEN v.buf[i + 1] ELSE v.buf[i]
    BY <1>3, <1>4, <2>1
  <2>3. m[i] = IF i > n THEN h[i + 1] ELSE h[i]
    BY <1>1, <2>1, <2>2
  <2>4. g[i] = IF i <= n THEN a[i] ELSE c[i - n]
    BY <1>5, <1>7, <1>8
  <2>5. CASE i <= n
    <3>1. i \in 1 .. n /\ ~(i > n)
      BY <1>2, <2>5
    <3> QED
      BY <1>5, <2>3, <2>4, <2>5, <3>1
  <2>6. CASE ~(i <= n)
    <3>1. i - n \in 1 .. N - 1 - n /\ n + 1 + (i - n) = i + 1 /\ i > n
      BY <1>1, <1>2, <2>6
    <3> QED
      BY <1>6, <2>3, <2>4, <2>6, <3>1
  <2> QED
    BY <2>5, <2>6
<1>10. N - 1 <= Len(m) /\ Len(g) = N - 1
  BY <1>2, <1>4, <1>7, <1>8
<1>11. Holds(Vector(m, N - 1, B), g)
  BY <1>2, <1>4, <1>7, <1>9, <1>10, MakeHolds
<1>12. Erased(v, n) = Vector(m, N - 1, B)
  BY <1>1 DEF Erased, m, N, s
<1> QED
  BY <1>11, <1>12 DEF g, a, c

-----------------------------------------------------------------------------
(* Vectors: the invariants of all of them, and the theorems.               *)

\* A vector that counts objects it has no slot for.
Lost(v, h) == Shaped(v, h) /\ v.capacity = 0

MelonInv ==
    /\ DOMAIN vec = Vecs /\ DOMAIN held = Vecs
    /\ \A a \in Vecs : Holds(vec[a], held[a])

KiwiInv ==
    /\ DOMAIN vec = Vecs /\ DOMAIN held = Vecs
    /\ \A a \in Vecs : Holds(vec[a], held[a]) \/ Lost(vec[a], held[a])

\* A call other than a move changes the vector it is made on, and no other.
Changes(a, v, h) ==
    /\ DOMAIN vec' = DOMAIN vec /\ DOMAIN held' = DOMAIN held
    /\ \A b \in Vecs : /\ vec'[b] = IF b = a THEN v ELSE vec[b]
                       /\ held'[b] = IF b = a THEN h ELSE held[b]

\* What a call that assigns one vector changes.
LEMMA BecomesChanges ==
    ASSUME DOMAIN vec = Vecs, DOMAIN held = Vecs, NEW a \in Vecs, NEW v, NEW h, Becomes(a, v, h)
    PROVE  Changes(a, v, h)
  BY DEF Becomes, Changes

\* A call that leaves its vector whole keeps the invariant of Melon.
LEMMA MelonChanges ==
    ASSUME MelonInv, NEW a \in Vecs, NEW v, NEW h, Becomes(a, v, h), Holds(v, h)
    PROVE  MelonInv'
  BY BecomesChanges DEF MelonInv, Changes

\* The same of Kiwi, whose vector may also be left without slots.
LEMMA KiwiChanges ==
    ASSUME KiwiInv, NEW a \in Vecs, NEW v, NEW h, Becomes(a, v, h), Holds(v, h) \/ Lost(v, h)
    PROVE  KiwiInv'
  BY BecomesChanges DEF KiwiInv, Changes

\* What a move assigns.
LEMMA MovesChange ==
    ASSUME DOMAIN vec = Vecs, DOMAIN held = Vecs, NEW a \in Vecs, NEW other \in Vecs,
           moveAssign(a, other)
    PROVE  /\ DOMAIN vec' = Vecs /\ DOMAIN held' = Vecs
           /\ \A b \in Vecs :
                /\ vec'[b] = IF b = other THEN Moved ELSE IF b = a THEN vec[other] ELSE vec[b]
                /\ held'[b] = IF b = other THEN <<>> ELSE IF b = a THEN held[other] ELSE held[b]
  BY DEF moveAssign

\* A vector that does not panic at its next access holds its objects.
LEMMA NoPanicHolds ==
    ASSUME NEW a \in Vecs, Holds(vec[a], held[a]) \/ Lost(vec[a], held[a]), ~Panics(a)
    PROVE  Holds(vec[a], held[a])
<1>1. CASE Lost(vec[a], held[a])
  <2>1. Shaped(vec[a], held[a]) /\ vec[a].capacity = 0
    BY <1>1 DEF Lost
  <2>2. /\ vec[a].count \in Nat /\ Len(vec[a].buf) \in Nat /\ vec[a].capacity = Len(vec[a].buf)
    BY <2>1, HoldsParts
  <2>3. vec[a].count <= 0
    BY <2>1, <2>2 DEF Panics
  <2>4. vec[a].count <= vec[a].capacity /\ 1 .. vec[a].count = {}
    BY <2>1, <2>2, <2>3
  <2> QED
    BY <2>1, <2>4 DEF Holds
<1> QED
  BY <1>1

\* A vector that holds its objects does not panic.
LEMMA HoldsNoPanic ==
    ASSUME NEW a \in Vecs, Holds(vec[a], held[a])
    PROVE  ~Panics(a) /\ Len(held[a]) = vec[a].count /\ vec[a].count \in Nat
<1>1. /\ vec[a].count \in Nat /\ vec[a].capacity = Len(vec[a].buf) /\ vec[a].count <= vec[a].capacity
      /\ Len(held[a]) = vec[a].count /\ Len(vec[a].buf) \in Nat
  BY HoldsParts DEF Holds
<1> QED
  BY <1>1 DEF Panics

\* The calls both libraries have, on a vector that holds its objects.
CommonCall(a) ==
    \/ popBack(a)
    \/ \E index \in Nat : erase(a, index)
    \/ \E other \in Vecs : copyAssign(a, other)

\* They leave it with the objects they are meant to leave.
LEMMA CommonCallHolds ==
    ASSUME NEW a \in Vecs, \A b \in Vecs : ~Panics(b) => Holds(vec[b], held[b]), CommonCall(a)
    PROVE  \E v, h : Becomes(a, v, h) /\ Holds(v, h)
<1>1. CASE popBack(a)
  <2>1. vec[a].count > 0 /\ ~Panics(a)
    BY <1>1 DEF popBack
  <2>2. Becomes(a, Popped(vec[a]), SubSeq(held[a], 1, Len(held[a]) - 1))
    BY <1>1 DEF popBack, Popped
  <2>3. Holds(Popped(vec[a]), SubSeq(held[a], 1, Len(held[a]) - 1))
    BY <2>1, PoppedHolds
  <2> QED
    BY <2>2, <2>3
<1>2. ASSUME NEW index \in Nat, erase(a, index)
      PROVE  \E v, h : Becomes(a, v, h) /\ Holds(v, h)
  <2>1. index < vec[a].count /\ ~Panics(a)
    BY <1>2 DEF erase
  <2> DEFINE h == SubSeq(held[a], 1, index) \o SubSeq(held[a], index + 2, Len(held[a]))
  <2>2. Becomes(a, Erased(vec[a], index), h)
    BY <1>2 DEF erase, Erased, Shifted
  <2>3. Holds(Erased(vec[a], index), h)
    BY <2>1, ErasedHolds
  <2> HIDE DEF h
  <2> QED
    BY <2>2, <2>3
<1>3. ASSUME NEW other \in Vecs, copyAssign(a, other)
      PROVE  \E v, h : Becomes(a, v, h) /\ Holds(v, h)
  <2>1. ~Panics(other) /\ Becomes(a, Copied(vec[other]), held[other])
    BY <1>3 DEF copyAssign
  <2>2. Holds(vec[other], held[other])
    BY <2>1
  <2>3. vec[other].capacity \in Nat /\ vec[other].count <= vec[other].capacity
    BY <2>2, HoldsParts DEF Holds
  <2>4. Holds(Copied(vec[other]), held[other])
    BY <2>2, <2>3, RoomHolds DEF Copied
  <2> QED
    BY <2>1, <2>4
<1> QED
  BY <1>1, <1>2, <1>3 DEF CommonCall

\* clear() leaves a vector whole, even one without slots.
LEMMA ClearHolds ==
    ASSUME NEW a \in Vecs, Shaped(vec[a], held[a]), clear(a)
    PROVE  \E v, h : Becomes(a, v, h) /\ Holds(v, h)
  BY ClearedHolds DEF clear

\* Every call of Melon keeps the objects of every vector.
LEMMA MelonInvNext ==
    ASSUME MaxCount \in Nat, MelonInv, [MelonNext]_vectorVars PROVE MelonInv'
<1>1. /\ DOMAIN vec = Vecs /\ DOMAIN held = Vecs
      /\ \A a \in Vecs : Holds(vec[a], held[a]) /\ Shaped(vec[a], held[a])
  BY DEF MelonInv, Holds
<1>2. ASSUME NEW a \in Vecs, NEW object \in Objects, pushBack(a, object) PROVE MelonInv'
  <2> DEFINE v == Grown(vec[a])
  <2>1. Holds(v, held[a])
    BY <1>1, GrownHolds
  <2>2. CASE v.count < Len(v.buf)
    <3>1. Becomes(a, Pushed(v, object), Append(held[a], object))
      BY <1>2, <2>2 DEF pushBack, Pushed
    <3>2. Holds(Pushed(v, object), Append(held[a], object))
      BY <2>1, <2>2, PushedHolds
    <3> QED
      BY <3>1, <3>2, MelonChanges
  <2>3. CASE ~(v.count < Len(v.buf))
    <3>1. Becomes(a, v, held[a])
      BY <1>2, <2>3 DEF pushBack
    <3> HIDE DEF v
    <3> QED
      BY <2>1, <3>1, MelonChanges
  <2> QED
    BY <2>2, <2>3
<1>3. ASSUME NEW a \in Vecs, CommonCall(a) PROVE MelonInv'
  <2>1. PICK v, h : Becomes(a, v, h) /\ Holds(v, h)
    BY <1>1, <1>3, CommonCallHolds
  <2> QED
    BY <2>1, MelonChanges
<1>4. ASSUME NEW a \in Vecs, clear(a) PROVE MelonInv'
  <2>1. PICK v, h : Becomes(a, v, h) /\ Holds(v, h)
    BY <1>1, <1>4, ClearHolds
  <2> QED
    BY <2>1, MelonChanges
<1>5. ASSUME NEW a \in Vecs, NEW other \in Vecs, moveAssign(a, other) PROVE MelonInv'
  <2>1. /\ DOMAIN vec' = Vecs /\ DOMAIN held' = Vecs
        /\ \A b \in Vecs :
             /\ vec'[b] = IF b = other THEN Moved ELSE IF b = a THEN vec[other] ELSE vec[b]
             /\ held'[b] = IF b = other THEN <<>> ELSE IF b = a THEN held[other] ELSE held[b]
    BY <1>1, <1>5, MovesChange
  <2> QED
    BY <1>1, <2>1, EmptyHolds DEF MelonInv
<1>6. ASSUME UNCHANGED vectorVars PROVE MelonInv'
  BY <1>6 DEF vectorVars, MelonInv
<1>7. 0 .. MaxCount \subseteq Nat
  OBVIOUS
<1> QED
  BY <1>2, <1>3, <1>4, <1>5, <1>6, <1>7 DEF MelonNext, CommonCall

\* Every call of Kiwi keeps the objects, or their number where there is no slot.
LEMMA KiwiInvNext ==
    ASSUME MaxCount \in Nat, KiwiInv, [KiwiNext]_vectorVars PROVE KiwiInv'
<1>1. /\ DOMAIN vec = Vecs /\ DOMAIN held = Vecs
      /\ \A a \in Vecs : ~Panics(a) => Holds(vec[a], held[a])
      /\ \A a \in Vecs : Shaped(vec[a], held[a])
      /\ \A a \in Vecs : Holds(vec[a], held[a]) \/ Lost(vec[a], held[a])
  BY NoPanicHolds DEF KiwiInv, Holds, Lost
<1>2. ASSUME NEW a \in Vecs, NEW object \in Objects, KiwiPushBack(a, object) PROVE KiwiInv'
  <2> DEFINE v == Grown(vec[a])
             h == Append(held[a], object)
  <2>1. Holds(v, held[a]) /\ (v.count < Len(v.buf) \/ Len(v.buf) = 0)
    BY <1>1, <1>2, GrownHolds DEF KiwiPushBack
  <2>2. Becomes(a, Pushed(v, object), h)
    BY <1>2 DEF KiwiPushBack, Pushed
  <2>3. Holds(Pushed(v, object), h) \/ Lost(Pushed(v, object), h)
    <3>1. CASE v.count < Len(v.buf)
      BY <2>1, <3>1, PushedHolds
    <3>2. CASE Len(v.buf) = 0
      <4>1. /\ Shaped(v, held[a]) /\ v.count \in Nat /\ v.capacity = 0 /\ v.buf \in Seq(Slots)
            /\ held[a] \in Seq(Objects) /\ Len(held[a]) = v.count
        BY <2>1, <3>2, HoldsParts DEF Holds
      <4>2. construct(v.buf, v.count, object) = v.buf
        BY <3>2, <4>1 DEF construct
      <4>3. Pushed(v, object) = Vector(v.buf, v.count + 1, v.capacity)
        <5>1. Pushed(v, object) = [v EXCEPT !.buf = v.buf, !.count = v.count + 1]
          BY <4>2 DEF Pushed
        <5> HIDE DEF v
        <5> QED
          BY <4>1, <5>1, Assigned
      <4>4. h \in Seq(Objects) /\ Len(h) = v.count + 1
        BY <4>1, AppendProperties
      <4> HIDE DEF v, h
      <4>5. Shaped(Vector(v.buf, v.count + 1, v.capacity), h)
        BY <3>2, <4>1, <4>4 DEF Shaped, Vector
      <4>6. Vector(v.buf, v.count + 1, v.capacity).capacity = 0
        BY <4>1 DEF Vector
      <4> QED
        BY <4>3, <4>5, <4>6 DEF Lost
    <3> QED
      BY <2>1, <3>1, <3>2
  <2> HIDE DEF v, h
  <2> QED
    BY <2>2, <2>3, KiwiChanges
<1>3. ASSUME NEW a \in Vecs, CommonCall(a) PROVE KiwiInv'
  <2>1. PICK v, h : Becomes(a, v, h) /\ Holds(v, h)
    BY <1>1, <1>3, CommonCallHolds
  <2> QED
    BY <2>1, KiwiChanges
<1>4. ASSUME NEW a \in Vecs, clear(a) PROVE KiwiInv'
  <2>1. PICK v, h : Becomes(a, v, h) /\ Holds(v, h)
    BY <1>1, <1>4, ClearHolds
  <2> QED
    BY <2>1, KiwiChanges
<1>5. ASSUME NEW a \in Vecs, NEW size \in Nat, resize(a, size) PROVE KiwiInv'
  <2> DEFINE n == IF size < vec[a].count THEN size ELSE vec[a].count
             v == Vector(resizeBuffer(vec[a].buf, size), n, size)
             h == SubSeq(held[a], 1, n)
  <2>1. ~Panics(a) /\ Becomes(a, v, h)
    BY <1>5 DEF resize
  <2>2. Holds(v, h)
    BY <1>1, <2>1, ResizedHolds
  <2> HIDE DEF v, h
  <2> QED
    BY <2>1, <2>2, KiwiChanges
<1>6. ASSUME NEW a \in Vecs, NEW other \in Vecs, moveAssign(a, other) PROVE KiwiInv'
  <2>1. /\ DOMAIN vec' = Vecs /\ DOMAIN held' = Vecs
        /\ \A b \in Vecs :
             /\ vec'[b] = IF b = other THEN Moved ELSE IF b = a THEN vec[other] ELSE vec[b]
             /\ held'[b] = IF b = other THEN <<>> ELSE IF b = a THEN held[other] ELSE held[b]
    BY <1>1, <1>6, MovesChange
  <2> QED
    BY <1>1, <2>1, EmptyHolds DEF KiwiInv
<1>7. ASSUME UNCHANGED vectorVars PROVE KiwiInv'
  BY <1>7 DEF vectorVars, KiwiInv
<1>8. 0 .. MaxCount \subseteq Nat
  OBVIOUS
<1> QED
  BY <1>2, <1>3, <1>4, <1>5, <1>6, <1>7, <1>8 DEF KiwiNext, CommonCall

\* However a vector that holds its objects is looked at, they are what it was given.
LEMMA HoldsKeeps ==
    ASSUME MaxCount \in Nat, NEW a \in Vecs, Holds(vec[a], held[a])
    PROVE  Keeps(a)
<1> DEFINE v == vec[a]
           h == held[a]
           N == v.count
<1>1. /\ N \in Nat /\ h \in Seq(Objects) /\ Len(h) = N /\ DOMAIN h = 1 .. N
      /\ v.count <= v.capacity /\ v.capacity = Len(v.buf)
      /\ \A i \in 1 .. N : v.buf[i] = h[i]
      /\ h = [i \in 1 .. N |-> h[i]]
  <2>1. /\ N \in Nat /\ h \in Seq(Objects) /\ Len(h) = N
        /\ v.count <= v.capacity /\ v.capacity = Len(v.buf)
        /\ \A i \in 1 .. N : v.buf[i] = h[i]
    BY HoldsParts DEF Holds
  <2>2. DOMAIN h = 1 .. N /\ h \in [1 .. N -> Objects]
    BY <2>1
  <2> QED
    BY <2>1, <2>2
<1> HIDE DEF h
<1>2. ASSUME NEW i \in 1 .. N PROVE construct(allocate(N), i - 1, v.buf[i])[i] = h[i]
  <2>1. allocate(N) \in Seq(Slots) /\ Len(allocate(N)) = N
    BY <1>1, AllocateSlots
  <2>2. i - 1 \in Nat /\ i - 1 < N /\ i - 1 + 1 = i /\ ~(i - 1 >= N) /\ i \in 1 .. N
    BY <1>1
  <2>3. construct(allocate(N), i - 1, v.buf[i]) = [allocate(N) EXCEPT ![i] = v.buf[i]]
    BY <2>1, <2>2 DEF construct
  <2>4. DOMAIN allocate(N) = 1 .. N
    BY DEF allocate
  <2> QED
    BY <1>1, <2>3, <2>4
<1>3. toBuffer(v) = h
  <2>1. toBuffer(v) = [i \in 1 .. N |-> construct(allocate(N), i - 1, v.buf[i])[i]]
    BY DEF toBuffer
  <2>2. toBuffer(v) = [i \in 1 .. N |-> h[i]]
    BY <1>2, <2>1
  <2> QED
    BY <1>1, <2>2
<1> HIDE DEF N
<1>4. ASSUME NEW i \in 0 .. MaxCount
      PROVE  Item(v, i) = IF i < Len(h) THEN h[i + 1] ELSE Outside
  <2>1. i \in Nat
    OBVIOUS
  <2>2. CASE i < N
    <3>1. i + 1 \in 1 .. N /\ ~(i >= N)
      BY <1>1, <2>1, <2>2
    <3> QED
      BY <1>1, <2>2, <3>1 DEF Item, N
  <2>3. CASE ~(i < N)
    <3>1. i >= N
      BY <1>1, <2>1, <2>3
    <3> QED
      BY <1>1, <2>3, <3>1 DEF Item, N
  <2> QED
    BY <2>2, <2>3
<1>5. ASSUME NEW object \in Objects
      PROVE  Contains(v, object) = \E i \in DOMAIN h : h[i] = object
  <2>1. Contains(v, object) <=> \E i \in 1 .. N : v.buf[i] = object
    BY DEF Contains, N
  <2>2. Contains(v, object) <=> \E i \in DOMAIN h : h[i] = object
    BY <1>1, <2>1
  <2>3. Contains(v, object) \in BOOLEAN /\ (\E i \in DOMAIN h : h[i] = object) \in BOOLEAN
    BY DEF Contains
  <2> QED
    BY <2>2, <2>3
<1> QED
  BY <1>1, <1>3, <1>4, <1>5 DEF Keeps, h

\* Vectors that hold their objects are the same when the objects are.
LEMMA HoldsSame ==
    ASSUME NEW v, NEW h, Holds(v, h), NEW w, NEW g, Holds(w, g)
    PROVE  Same(v, w) <=> h = g
<1>1. /\ h \in Seq(Objects) /\ Len(h) = v.count /\ \A i \in 1 .. v.count : v.buf[i] = h[i]
      /\ g \in Seq(Objects) /\ Len(g) = w.count /\ \A i \in 1 .. w.count : w.buf[i] = g[i]
  BY HoldsParts DEF Holds
<1>2. ASSUME Same(v, w) PROVE h = g
  <2>1. Len(h) = Len(g) /\ \A i \in 1 .. Len(h) : h[i] = g[i]
    BY <1>1, <1>2 DEF Same
  <2> QED
    BY <1>1, <2>1, SeqEqual
<1>3. ASSUME h = g PROVE Same(v, w)
  BY <1>1, <1>3 DEF Same
<1> QED
  BY <1>2, <1>3

\* Vectors of either library compare as what they were given.
LEMMA KiwiInvCompared ==
    ASSUME KiwiInv PROVE Compared
<1>1. ASSUME NEW a \in Vecs, Keeps(a) PROVE Holds(vec[a], held[a])
  <2>1. Holds(vec[a], held[a]) \/ Lost(vec[a], held[a])
    BY DEF KiwiInv
  <2>2. vec[a].count <= Len(vec[a].buf) /\ vec[a].count \in Nat /\ Len(vec[a].buf) \in Nat
    BY <1>1, <2>1, HoldsParts DEF Keeps, Holds, Lost
  <2>3. ~Panics(a)
    BY <2>2 DEF Panics
  <2> QED
    BY <2>1, <2>3, NoPanicHolds
<1>2. ASSUME NEW a \in Vecs, NEW b \in Vecs, Keeps(a), Keeps(b)
      PROVE  Same(vec[a], vec[b]) <=> held[a] = held[b]
  <2>1. Holds(vec[a], held[a]) /\ Holds(vec[b], held[b])
    BY <1>1, <1>2
  <2> QED
    BY <2>1, HoldsSame
<1> QED
  BY <1>2 DEF Compared

\* Vectors are empty at first.
LEMMA VectorInitHolds == VectorInit => MelonInv /\ KiwiInv
  BY EmptyHolds DEF VectorInit, MelonInv, KiwiInv

\* Across any pushBack, popBack, erase, clear, copy and move (melon vector.hpp), every
\* vector of a program keeps the objects it was given, in order, in slots it has.
THEOREM MelonVectorsKeepObjects ==
    ASSUME MaxCount \in Nat
    PROVE  VectorInit /\ [][MelonNext]_vectorVars => []MelonKeepsObjects
<1>1. VectorInit => MelonInv
  BY VectorInitHolds
<1>2. MelonInv /\ [MelonNext]_vectorVars => MelonInv'
  BY MelonInvNext
<1>3. MelonInv => MelonKeepsObjects
  <2>1. SUFFICES ASSUME MelonInv PROVE MelonKeepsObjects
    OBVIOUS
  <2>2. KiwiInv
    BY <2>1 DEF MelonInv, KiwiInv
  <2> QED
    BY <2>1, <2>2, HoldsKeeps, KiwiInvCompared DEF MelonInv, MelonKeepsObjects
<1> QED
  BY <1>1, <1>2, <1>3, PTL

\* The same of the kernel's vectors (lib/vector.hpp) and their resize, but for those a move
\* or a resize left without any slot, which count what they cannot hold.
THEOREM KiwiVectorsKeepObjects ==
    ASSUME MaxCount \in Nat
    PROVE  VectorInit /\ [][KiwiNext]_vectorVars => []KiwiKeepsObjects
<1>1. VectorInit => KiwiInv
  BY VectorInitHolds
<1>2. KiwiInv /\ [KiwiNext]_vectorVars => KiwiInv'
  BY KiwiInvNext
<1>3. KiwiInv => KiwiKeepsObjects
  <2>1. SUFFICES ASSUME KiwiInv PROVE KiwiKeepsObjects
    OBVIOUS
  <2>2. ASSUME NEW a \in Vecs PROVE Keeps(a) \/ WithoutSlot(a)
    <3>1. CASE Holds(vec[a], held[a])
      BY <3>1, HoldsKeeps
    <3>2. CASE Lost(vec[a], held[a])
      <4>1. vec[a].buf \in Seq(Slots) /\ Len(vec[a].buf) = 0 /\ vec[a].capacity = 0
        BY <3>2, HoldsParts DEF Lost
      <4>2. vec[a].buf = <<>>
        BY <4>1, EmptySeq
      <4> QED
        BY <4>1, <4>2 DEF WithoutSlot
    <3> QED
      BY <2>1, <3>1, <3>2 DEF KiwiInv
  <2> QED
    BY <2>1, <2>2, KiwiInvCompared DEF KiwiKeepsObjects
<1> QED
  BY <1>1, <1>2, <1>3, PTL

=============================================================================
