------------------------- MODULE AddressSpaces_proofs -------------------------
(***************************************************************************)
(* Theorems about AddressSpaces: what its operations on memory do, and the *)
(* invariant that every process is whole and no frame serves twice.        *)
(***************************************************************************)
EXTENDS AddressSpaces, FiniteSetTheorems, SequenceTheorems, WellFoundedInduction, TLAPS

-----------------------------------------------------------------------------
(* Numbers and functions defined step by step.                             *)

\* A set of naturals that is not empty has a least member.
LEMMA LeastMember ==
    ASSUME NEW T, T \subseteq Nat, T # {}
    PROVE  Least(T) \in T /\ \A y \in T : Least(T) <= y
<1> DEFINE R == OpToRel(<, Nat)
<1>1. \A x, y \in Nat : y < x => <<y, x>> \in R
  BY DEF OpToRel
<1>2. IsWellFoundedOn(R, Nat)
  BY NatLessThanWellFounded
<1> HIDE DEF R
<1>3. \E x \in T : \A y \in T : ~ (<<y, x>> \in R)
  BY <1>2, WFMin
<1>4. PICK x \in T : \A y \in T : ~ (<<y, x>> \in R)
  BY <1>3
<1>5. ASSUME NEW y \in T PROVE x <= y
  <2>1. x \in Nat /\ y \in Nat /\ ~(y < x)
    BY <1>1, <1>4
  <2> QED
    BY <2>1
<1> QED
  BY <1>5 DEF Least

\* What holds of 0, and of every number after one of which it holds, holds of all up to n.
LEMMA UpTo ==
    ASSUME NEW n \in Nat, NEW T, 0 \in T,
           \A k \in 1 .. n : k - 1 \in T => k \in T
    PROVE  0 .. n \subseteq T
<1> SUFFICES ASSUME (0 .. n) \ T # {} PROVE FALSE
  OBVIOUS
<1> DEFINE U == (0 .. n) \ T
           k == Least(U)
<1>1. U \subseteq Nat /\ U # {}
  OBVIOUS
<1>2. k \in U /\ \A y \in U : k <= y
  BY <1>1, LeastMember
<1> HIDE DEF k
<1>3. k \in 1 .. n
  BY <1>2
<1>4. k - 1 \in 0 .. n /\ k - 1 \notin U
  BY <1>2, <1>3
<1> QED
  BY <1>2, <1>3, <1>4

\* The values of f, from m on, come one from the other by the steps of G.
Iterates(f, n, S, m, G) ==
    f \in [0 .. n -> S] /\ f[0] = m /\ \A k \in 1 .. n : f[k] = G[k][f[k - 1]]

\* A function is there whose values come one from the other by the steps of G.
LEMMA Iterated ==
    ASSUME NEW n \in Nat, NEW S, NEW m \in S, NEW G \in [1 .. n -> [S -> S]]
    PROVE  \E f : Iterates(f, n, S, m, G)
<1> DEFINE There(j) == \E f : Iterates(f, j, S, m, G)
           T == {j \in 0 .. n : There(j)}
<1>1. There(0)
  <2> DEFINE f == [i \in 0 .. 0 |-> m]
  <2>1. Iterates(f, 0, S, m, G)
    BY DEF Iterates
  <2> QED
    BY <2>1
<1>2. ASSUME NEW k \in 1 .. n, There(k - 1) PROVE There(k)
  <2>1. PICK f : Iterates(f, k - 1, S, m, G)
    BY <1>2
  <2>. f \in [0 .. (k - 1) -> S] /\ f[0] = m /\ \A i \in 1 .. (k - 1) : f[i] = G[i][f[i - 1]]
    BY <2>1 DEF Iterates
  <2> DEFINE g == [i \in 0 .. k |-> IF i = k THEN G[k][f[k - 1]] ELSE f[i]]
  <2>2. f[k - 1] \in S
    BY <2>1
  <2>3. g \in [0 .. k -> S]
    BY <2>1, <2>2
  <2>4. g[0] = m
    BY <2>1
  <2>5. ASSUME NEW i \in 1 .. k PROVE g[i] = G[i][g[i - 1]]
    <3>1. CASE i = k
      <4>1. g[i - 1] = f[k - 1] /\ g[i] = G[k][f[k - 1]]
        BY <3>1
      <4> QED
        BY <4>1, <3>1
    <3>2. CASE i # k
      <4>1. i \in 1 .. (k - 1) /\ g[i] = f[i] /\ g[i - 1] = f[i - 1]
        BY <3>2
      <4> QED
        BY <4>1, <2>1
    <3> QED
      BY <3>1, <3>2
  <2> HIDE DEF g
  <2>6. Iterates(g, k, S, m, G)
    BY <2>3, <2>4, <2>5 DEF Iterates
  <2> QED
    BY <2>6
<1> HIDE DEF There
<1>3. 0 .. n \subseteq T
  <2>1. 0 \in T
    BY <1>1
  <2>2. \A k \in 1 .. n : k - 1 \in T => k \in T
    BY <1>2
  <2> HIDE DEF T
  <2> QED
    BY <2>1, <2>2, UpTo
<1>4. There(n)
  BY <1>3
<1> QED
  BY <1>4 DEF There

-----------------------------------------------------------------------------
(* Memory: the free frames and a space whose entries have frames of their own. *)

Paths == {q \in Seq(Nat) : Len(q) <= 4}
Spaces == UNION {[D -> Frames] : D \in SUBSET Paths}
Memories == [free : SUBSET Frames, last : Nat, space : Spaces]

OwnFrames(s) == \A q, r \in DOMAIN s : s[q] = s[r] => q = r
Apart(m) == m \in Memories /\ OwnFrames(m.space) /\ m.free \intersect FramesOf(m.space) = {}
Known(m) == m.free \union FramesOf(m.space)

\* There are n numbers from one to n.
LEMMA Counted == ASSUME NEW n \in Nat PROVE IsFiniteSet(1 .. n) /\ Cardinality(1 .. n) = n
<1>1. IsFiniteSet(1 .. n) /\ Cardinality(1 .. n) = IF 1 > n THEN 0 ELSE n - 1 + 1
  BY FS_Interval
<1> DEFINE c == Cardinality(1 .. n)
<1>2. c = IF 1 > n THEN 0 ELSE n - 1 + 1
  BY <1>1
<1> HIDE DEF c
<1>3. c = n
  BY <1>2
<1> QED
  BY <1>1, <1>3 DEF c

\* The frames are numbers, finitely many.
LEMMA FramesFinite ==
    ASSUME NEW F \in SUBSET Frames
    PROVE  F \subseteq Nat /\ IsFiniteSet(F) /\ Cardinality(F) \in Nat
<1>1. FrameCount \in Nat
  BY SpacesAssumption
<1>2. IsFiniteSet(Frames) /\ Frames \subseteq Nat
  BY <1>1, FS_Interval DEF Frames
<1> QED
  BY <1>2, FS_Subset, FS_CardinalityType

\* What a function is that is a space.
LEMMA SpaceIs ==
    ASSUME NEW s \in Spaces
    PROVE  /\ DOMAIN s \subseteq Paths /\ s \in [DOMAIN s -> Frames]
           /\ FramesOf(s) \subseteq Frames
<1>1. PICK D \in SUBSET Paths : s \in [D -> Frames]
  BY DEF Spaces
<1> QED
  BY <1>1 DEF FramesOf

\* A function from paths to frames is a space.
LEMMA IsSpace ==
    ASSUME NEW D \in SUBSET Paths, NEW s \in [D -> Frames]
    PROVE  s \in Spaces /\ DOMAIN s = D
  BY DEF Spaces

\* The space that is none.
LEMMA NoSpaceIs == NoSpace \in Spaces /\ FramesOf(NoSpace) = {} /\ OwnFrames(NoSpace)
<1>1. DOMAIN NoSpace = {} /\ NoSpace \in [{} -> Frames] /\ {} \in SUBSET Paths
  BY DEF NoSpace
<1> HIDE DEF NoSpace
<1>2. NoSpace \in Spaces
  BY <1>1, IsSpace
<1>3. FramesOf(NoSpace) = {} /\ OwnFrames(NoSpace)
  BY <1>1 DEF FramesOf, OwnFrames
<1> QED
  BY <1>2, <1>3

\* The fields of a memory.
LEMMA MemoryIs ==
    ASSUME NEW m \in Memories
    PROVE  m.free \in SUBSET Frames /\ m.last \in Nat /\ m.space \in Spaces
  BY DEF Memories

\* allocateFrame takes one of the free frames away and touches nothing else.
LEMMA TakenGives ==
    ASSUME NEW m \in Memories, m.free # {}
    PROVE  LET t == Taken(m)
           IN /\ t \in Memories /\ t.last \in m.free /\ t.free = m.free \ {t.last}
              /\ t.space = m.space
              /\ Cardinality(t.free) = Cardinality(m.free) - 1
<1> DEFINE ahead == {f \in m.free : f >= m.last}
           T == IF ahead = {} THEN m.free ELSE ahead
           f == Least(T)
<1>1. m.free \in SUBSET Frames /\ m.last \in Nat /\ m.space \in Spaces
  BY MemoryIs
<1>2. m.free \subseteq Nat /\ IsFiniteSet(m.free)
  BY <1>1, FramesFinite
<1>3. T \subseteq Nat /\ T # {} /\ T \subseteq m.free
  BY <1>2
<1>4. f \in m.free
  <2> HIDE DEF T
  <2> QED
    BY <1>3, LeastMember
<1>5. Taken(m) = [m EXCEPT !.free = @ \ {f}, !.last = f]
  BY DEF Taken
<1> HIDE DEF f
<1>6. Taken(m) = [free |-> m.free \ {f}, last |-> f, space |-> m.space]
  BY <1>5 DEF Memories
<1>7. Cardinality(m.free \ {f}) = Cardinality(m.free) - 1
  BY <1>2, <1>4, FS_RemoveElement
<1>8. Taken(m) \in Memories
  BY <1>1, <1>2, <1>4, <1>6 DEF Memories
<1> QED
  BY <1>4, <1>6, <1>7, <1>8

\* An entry is added or replaced.
LEMMA WithGives ==
    ASSUME NEW m \in Memories, NEW path \in Paths, NEW frame \in Frames
    PROVE  LET n == With(m, path, frame)
           IN /\ n \in Memories /\ n.free = m.free /\ n.last = m.last
              /\ DOMAIN n.space = DOMAIN m.space \union {path}
              /\ n.space[path] = frame
              /\ \A q \in DOMAIN m.space \ {path} : n.space[q] = m.space[q]
<1> DEFINE s == [q \in DOMAIN m.space \union {path} |-> IF q = path THEN frame ELSE m.space[q]]
<1>1. m.free \in SUBSET Frames /\ m.last \in Nat /\ m.space \in Spaces
  BY MemoryIs
<1>2. DOMAIN m.space \subseteq Paths /\ m.space \in [DOMAIN m.space -> Frames]
  BY <1>1, SpaceIs
<1>3. s \in [DOMAIN m.space \union {path} -> Frames]
  BY <1>2
<1>4. DOMAIN s = DOMAIN m.space \union {path}
      /\ s[path] = frame /\ \A q \in DOMAIN m.space \ {path} : s[q] = m.space[q]
  OBVIOUS
<1>5. With(m, path, frame) = [m EXCEPT !.space = s]
  BY DEF With
<1> HIDE DEF s
<1>6. s \in Spaces
  BY <1>2, <1>3, IsSpace
<1>7. With(m, path, frame) = [free |-> m.free, last |-> m.last, space |-> s]
  BY <1>5 DEF Memories
<1>8. With(m, path, frame) \in Memories
  BY <1>1, <1>6, <1>7 DEF Memories
<1> QED
  BY <1>4, <1>7, <1>8

\* An entry is removed.
Without(s, D) == [q \in DOMAIN s \ D |-> s[q]]
LEMMA WithoutIs ==
    ASSUME NEW s \in Spaces, NEW D
    PROVE  /\ Without(s, D) \in Spaces /\ DOMAIN Without(s, D) = DOMAIN s \ D
           /\ \A q \in DOMAIN s \ D : Without(s, D)[q] = s[q]
<1>1. DOMAIN s \subseteq Paths /\ s \in [DOMAIN s -> Frames]
  BY SpaceIs
<1>2. Without(s, D) \in [DOMAIN s \ D -> Frames]
  BY <1>1 DEF Without
<1> QED
  BY <1>1, <1>2, IsSpace DEF Without

-----------------------------------------------------------------------------
(* Mapping pages.                                                          *)

\* From m to n the entries D are added, with frames that were free, at most k of them.
Grows(m, n, D, k) ==
    /\ Apart(n) /\ Known(n) = Known(m)
    /\ DOMAIN n.space = DOMAIN m.space \union D
    /\ \A q \in DOMAIN m.space : n.space[q] = m.space[q]
    /\ Cardinality(n.free) >= Cardinality(m.free) - k

\* One growth after another is one.
LEMMA GrowsOn ==
    ASSUME NEW m, Apart(m), NEW n, NEW o, NEW D, NEW E, NEW k \in Nat, NEW l \in Nat,
           Grows(m, n, D, k), Grows(n, o, E, l)
    PROVE  Grows(m, o, D \union E, k + l)
<1>1. Apart(m) /\ Apart(n) /\ Apart(o)
  BY DEF Grows
<1>2. Cardinality(m.free) \in Nat /\ Cardinality(n.free) \in Nat /\ Cardinality(o.free) \in Nat
  BY <1>1, MemoryIs, FramesFinite DEF Apart
<1>3. Cardinality(o.free) >= Cardinality(m.free) - (k + l)
  BY <1>2 DEF Grows
<1>4. DOMAIN o.space = DOMAIN m.space \union (D \union E)
  BY DEF Grows
<1>5. \A q \in DOMAIN m.space : o.space[q] = m.space[q]
  BY DEF Grows
<1> QED
  BY <1>1, <1>3, <1>4, <1>5 DEF Grows

\* No growth is one.
LEMMA GrowsNot == ASSUME NEW m, Apart(m), NEW D \in SUBSET DOMAIN m.space PROVE Grows(m, m, D, 0)
<1>1. Cardinality(m.free) \in Nat
  BY MemoryIs, FramesFinite DEF Apart
<1> QED
  BY <1>1 DEF Grows

\* A frame that is known to nobody is given to a new entry.
LEMMA WithApart ==
    ASSUME NEW m, Apart(m), NEW path \in Paths \ DOMAIN m.space, NEW frame \in Frames \ Known(m)
    PROVE  LET n == With(m, path, frame)
           IN Apart(n) /\ n.free = m.free /\ Known(n) = Known(m) \union {frame}
<1> DEFINE n == With(m, path, frame)
<1>1. /\ n \in Memories /\ n.free = m.free
      /\ DOMAIN n.space = DOMAIN m.space \union {path}
      /\ n.space[path] = frame
      /\ \A q \in DOMAIN m.space : n.space[q] = m.space[q]
  BY WithGives DEF Apart
<1> HIDE DEF n
<1>2. FramesOf(n.space) = FramesOf(m.space) \union {frame}
  BY <1>1 DEF FramesOf
<1>3. OwnFrames(n.space)
  <2>1. \A q \in DOMAIN m.space : n.space[q] # frame
    BY <1>1 DEF Known, FramesOf
  <2> QED
    BY <1>1, <2>1 DEF OwnFrames, Apart
<1>4. Apart(n) /\ Known(n) = Known(m) \union {frame}
  BY <1>1, <1>2, <1>3 DEF Apart, Known
<1> QED
  BY <1>1, <1>4 DEF n

\* A frame in hand is known to nobody.
LEMMA TakenApart ==
    ASSUME NEW m, Apart(m), m.free # {}
    PROVE  LET t == Taken(m)
           IN /\ Apart(t) /\ t.last \in Frames \ Known(t) /\ Known(m) = Known(t) \union {t.last}
              /\ t.space = m.space
              /\ Cardinality(t.free) = Cardinality(m.free) - 1
<1> DEFINE t == Taken(m)
<1>1. /\ t \in Memories /\ t.last \in m.free /\ t.free = m.free \ {t.last}
      /\ t.space = m.space
      /\ Cardinality(t.free) = Cardinality(m.free) - 1
  BY TakenGives DEF Apart
<1>2. m.free \in SUBSET Frames
  BY MemoryIs DEF Apart
<1> HIDE DEF t
<1>3. Apart(t) /\ t.last \in Frames \ Known(t) /\ Known(m) = Known(t) \union {t.last}
  BY <1>1, <1>2 DEF Apart, Known
<1> QED
  BY <1>1, <1>3 DEF t

\* A new entry takes a free frame.
LEMMA NewEntry ==
    ASSUME NEW m, Apart(m), m.free # {}, NEW path \in Paths \ DOMAIN m.space
    PROVE  Grows(m, With(Taken(m), path, Taken(m).last), {path}, 1)
<1> DEFINE t == Taken(m)
           n == With(t, path, t.last)
<1>1. /\ Apart(t) /\ t.last \in Frames \ Known(t) /\ Known(m) = Known(t) \union {t.last}
      /\ t.space = m.space
      /\ Cardinality(t.free) = Cardinality(m.free) - 1
  BY TakenApart
<1> HIDE DEF t
<1>2. Apart(n) /\ n.free = t.free /\ Known(n) = Known(t) \union {t.last}
  BY <1>1, WithApart
<1>3. /\ DOMAIN n.space = DOMAIN t.space \union {path}
      /\ \A q \in DOMAIN t.space \ {path} : n.space[q] = t.space[q]
  BY <1>1, WithGives DEF Apart
<1>4. Cardinality(m.free) \in Nat
  BY MemoryIs, FramesFinite DEF Apart
<1> HIDE DEF n
<1>5. Cardinality(n.free) >= Cardinality(m.free) - 1
  BY <1>1, <1>2, <1>4
<1>6. Grows(m, n, {path}, 1)
  BY <1>1, <1>2, <1>3, <1>5 DEF Grows
<1> QED
  BY <1>6 DEF n, t

\* getOrCreateTable finds the table or makes it.
LEMMA TableGrows ==
    ASSUME NEW m, Apart(m), m.free # {}, NEW path \in Paths
    PROVE  Grows(m, getOrCreateTable(m, path), {path}, 1)
<1>1. CASE path \in DOMAIN m.space
  <2>1. Cardinality(m.free) \in Nat
    BY MemoryIs, FramesFinite DEF Apart
  <2> QED
    BY <1>1, <2>1 DEF Grows, getOrCreateTable
<1>2. CASE path \notin DOMAIN m.space
  BY <1>2, NewEntry DEF getOrCreateTable
<1> QED
  BY <1>1, <1>2

\* Growth by at most k leaves frames free where there were more than k.
LEMMA GrowsLeaves ==
    ASSUME NEW m, Apart(m), NEW n, NEW D, NEW k \in Nat, Grows(m, n, D, k),
           Cardinality(m.free) > k
    PROVE  Apart(n) /\ n.free # {}
<1>1. Apart(n) /\ Cardinality(n.free) >= Cardinality(m.free) - k
  BY DEF Grows
<1>2. Cardinality(m.free) \in Nat /\ Cardinality(n.free) \in Nat
  BY <1>1, MemoryIs, FramesFinite DEF Apart
<1>3. Cardinality(n.free) # 0
  BY <1>1, <1>2
<1> QED
  BY <1>1, <1>3, FS_EmptySet

\* The way to a page: the tables that lead to it and the page.
Leaves == {v \in Seq(Nat) : Len(v) = 4}
Way(v) == {SubSeq(v, 1, 1), SubSeq(v, 1, 2), SubSeq(v, 1, 3), v}

\* What the starts of a path are.
LEMMA PathStarts ==
    ASSUME NEW q \in Paths, NEW n \in 0 .. Len(q)
    PROVE  /\ SubSeq(q, 1, n) \in Paths /\ Len(SubSeq(q, 1, n)) = n
           /\ \A k \in 0 .. n : SubSeq(SubSeq(q, 1, n), 1, k) = SubSeq(q, 1, k)
           /\ n = Len(q) => SubSeq(q, 1, n) = q
           /\ n = 0 => SubSeq(q, 1, n) = <<>>
<1>1. q \in Seq(Nat) /\ Len(q) \in Nat /\ Len(q) <= 4
  BY DEF Paths
<1>2. SubSeq(q, 1, n) \in Seq(Nat) /\ Len(SubSeq(q, 1, n)) = n
      /\ \A i \in 1 .. n : SubSeq(q, 1, n)[i] = q[i]
  BY <1>1
<1>3. SubSeq(q, 1, n) \in Paths
  BY <1>1, <1>2 DEF Paths
<1>4. ASSUME NEW k \in 0 .. n PROVE SubSeq(SubSeq(q, 1, n), 1, k) = SubSeq(q, 1, k)
  <2> DEFINE a == SubSeq(q, 1, n)
  <2>1. SubSeq(a, 1, k) \in Seq(Nat) /\ Len(SubSeq(a, 1, k)) = k
        /\ \A i \in 1 .. k : SubSeq(a, 1, k)[i] = a[i]
    BY <1>2
  <2>2. SubSeq(q, 1, k) \in Seq(Nat) /\ Len(SubSeq(q, 1, k)) = k
        /\ \A i \in 1 .. k : SubSeq(q, 1, k)[i] = q[i]
    BY <1>1
  <2>3. \A i \in 1 .. k : a[i] = q[i]
    BY <1>2
  <2> HIDE DEF a
  <2> QED
    BY <2>1, <2>2, <2>3
<1>5. n = Len(q) => SubSeq(q, 1, n) = q
  BY <1>1, <1>2
<1>6. n = 0 => SubSeq(q, 1, n) = <<>>
  BY <1>2
<1> QED
  BY <1>2, <1>3, <1>4, <1>5, <1>6

\* The parts of the way to a page are paths, one of each length.
LEMMA WayIs ==
    ASSUME NEW v \in Leaves
    PROVE  /\ v \in Paths /\ Len(v) = 4 /\ Way(v) \subseteq Paths
           /\ \A n \in 1 .. 3 : SubSeq(v, 1, n) \in Paths /\ Len(SubSeq(v, 1, n)) = n
           /\ \A q \in Way(v) : Len(q) = 4 => q = v
           /\ Way(v) = {SubSeq(v, 1, n) : n \in 1 .. 4}
<1>1. v \in Paths /\ Len(v) = 4
  BY DEF Leaves, Paths
<1>2. \A n \in 0 .. 4 : SubSeq(v, 1, n) \in Paths /\ Len(SubSeq(v, 1, n)) = n
  BY <1>1, PathStarts
<1>3. SubSeq(v, 1, 4) = v
  BY <1>1, PathStarts
<1>4. Way(v) = {SubSeq(v, 1, n) : n \in 1 .. 4}
  <2>1. 1 .. 4 = {1, 2, 3, 4}
    OBVIOUS
  <2> QED
    BY <1>3, <2>1 DEF Way
<1>5. \A q \in Way(v) : Len(q) = 4 => q = v
  BY <1>2, <1>3, <1>4
<1>6. Way(v) \subseteq Paths
  <2>1. \A n \in 1 .. 4 : SubSeq(v, 1, n) \in Paths
    BY <1>2
  <2> QED
    BY <1>4, <2>1
<1> QED
  BY <1>1, <1>2, <1>4, <1>5, <1>6

\* mapPage with a frame just taken adds the page and the tables that lead to it.
LEMMA MapPageGrows ==
    ASSUME NEW m, Apart(m), Cardinality(m.free) >= 4, NEW v \in Leaves, v \notin DOMAIN m.space
    PROVE  Grows(m, mapPage(Taken(m), v, Taken(m).last), Way(v), 4)
<1> DEFINE t == Taken(m)
           f == t.last
           a == getOrCreateTable(t, SubSeq(v, 1, 1))
           b == getOrCreateTable(a, SubSeq(v, 1, 2))
           c == getOrCreateTable(b, SubSeq(v, 1, 3))
           n == With(c, v, f)
<1>1. /\ v \in Paths /\ Len(v) = 4
      /\ \A i \in 1 .. 3 : SubSeq(v, 1, i) \in Paths /\ Len(SubSeq(v, 1, i)) = i
  BY WayIs
<1>. SubSeq(v, 1, 1) \in Paths /\ SubSeq(v, 1, 2) \in Paths /\ SubSeq(v, 1, 3) \in Paths
  BY <1>1
<1>2. Cardinality(m.free) \in Nat
  BY MemoryIs, FramesFinite DEF Apart
<1>3. m.free # {}
  BY <1>2, FS_EmptySet
<1>4. /\ Apart(t) /\ f \in Frames \ Known(t) /\ Known(m) = Known(t) \union {f}
      /\ t.space = m.space
      /\ Cardinality(t.free) = Cardinality(m.free) - 1
  BY <1>3, TakenApart
<1> HIDE DEF t, f
<1>5. Cardinality(t.free) \in Nat
  BY <1>4, MemoryIs, FramesFinite DEF Apart
<1>6. t.free # {}
  <2>1. Cardinality(t.free) # 0
    BY <1>2, <1>4, <1>5
  <2> QED
    BY <2>1, FS_EmptySet
<1>7. Grows(t, a, {SubSeq(v, 1, 1)}, 1)
  BY <1>1, <1>4, <1>6, TableGrows
<1> HIDE DEF a
<1>8. Apart(a) /\ a.free # {}
  BY <1>2, <1>4, <1>5, <1>7, GrowsLeaves
<1>9. Grows(a, b, {SubSeq(v, 1, 2)}, 1)
  BY <1>1, <1>8, TableGrows
<1> HIDE DEF b
<1>10. Grows(t, b, {SubSeq(v, 1, 1)} \union {SubSeq(v, 1, 2)}, 1 + 1)
  BY <1>4, <1>7, <1>9, GrowsOn
<1>11. Apart(b) /\ b.free # {}
  <2>1. Grows(t, b, {SubSeq(v, 1, 1)} \union {SubSeq(v, 1, 2)}, 2)
    BY <1>10
  <2> QED
    BY <1>2, <1>4, <1>5, <2>1, GrowsLeaves
<1>12. Grows(b, c, {SubSeq(v, 1, 3)}, 1)
  BY <1>1, <1>11, TableGrows
<1> HIDE DEF c
<1> DEFINE D == {SubSeq(v, 1, 1)} \union {SubSeq(v, 1, 2)} \union {SubSeq(v, 1, 3)}
<1>13. Grows(t, c, D, 1 + 1 + 1)
  BY <1>4, <1>10, <1>12, GrowsOn
<1>14. /\ Apart(c) /\ Known(c) = Known(t)
       /\ DOMAIN c.space = DOMAIN t.space \union D
       /\ \A q \in DOMAIN t.space : c.space[q] = t.space[q]
       /\ Cardinality(c.free) >= Cardinality(t.free) - 3
  BY <1>13 DEF Grows
<1>15. v \notin DOMAIN c.space
  BY <1>1, <1>4, <1>14
<1>16. Apart(n) /\ n.free = c.free /\ Known(n) = Known(c) \union {f}
  BY <1>1, <1>4, <1>14, <1>15, WithApart
<1>17. /\ DOMAIN n.space = DOMAIN c.space \union {v}
       /\ \A q \in DOMAIN c.space \ {v} : n.space[q] = c.space[q]
  BY <1>1, <1>4, <1>14, WithGives DEF Apart
<1> HIDE DEF n
<1>18. DOMAIN n.space = DOMAIN m.space \union Way(v)
  BY <1>4, <1>14, <1>17 DEF Way
<1>19. \A q \in DOMAIN m.space : n.space[q] = m.space[q]
  BY <1>4, <1>14, <1>15, <1>17
<1>20. Cardinality(c.free) \in Nat
  BY <1>14, MemoryIs, FramesFinite DEF Apart
<1>21. Cardinality(n.free) >= Cardinality(m.free) - 4
  BY <1>2, <1>4, <1>14, <1>16, <1>20
<1>22. Known(n) = Known(m)
  BY <1>4, <1>14, <1>16
<1>23. Grows(m, n, Way(v), 4)
  BY <1>16, <1>18, <1>19, <1>21, <1>22 DEF Grows
<1>24. mapPage(t, v, f) = n
  BY <1>15 DEF mapPage, n, c, b, a
<1> QED
  BY <1>23, <1>24 DEF t, f

\* The entries that the first k pages of a sequence need.
Ways(pages, k) == UNION {Way(pages[i]) : i \in 1 .. k}

\* Different pages, none of which is there, with frames for all.
Mappable(m, pages) ==
    /\ Len(pages) \in Nat
    /\ \A i \in 1 .. Len(pages) : pages[i] \in Leaves /\ pages[i] \notin DOMAIN m.space
    /\ \A i, j \in 1 .. Len(pages) : pages[i] = pages[j] => i = j
    /\ Cardinality(m.free) >= 4 * Len(pages)

\* One page more.
LEMMA MapOneMore ==
    ASSUME NEW m, Apart(m), NEW pages, Mappable(m, pages), NEW k \in 1 .. Len(pages),
           NEW x, Grows(m, x, Ways(pages, k - 1), 4 * (k - 1))
    PROVE  Grows(m, mapPage(Taken(x), pages[k], Taken(x).last), Ways(pages, k), 4 * k)
<1> DEFINE n == mapPage(Taken(x), pages[k], Taken(x).last)
<1>1. Apart(x) /\ Cardinality(x.free) >= Cardinality(m.free) - 4 * (k - 1)
      /\ DOMAIN x.space = DOMAIN m.space \union Ways(pages, k - 1)
  BY DEF Grows
<1>2. Cardinality(m.free) \in Nat /\ Cardinality(x.free) \in Nat
  BY <1>1, MemoryIs, FramesFinite DEF Apart
<1>3. Cardinality(x.free) >= 4
  BY <1>1, <1>2 DEF Mappable
<1>4. pages[k] \in Leaves /\ pages[k] \notin DOMAIN m.space
  BY DEF Mappable
<1>5. pages[k] \notin Ways(pages, k - 1)
  <2> SUFFICES ASSUME NEW i \in 1 .. k - 1, pages[k] \in Way(pages[i]) PROVE FALSE
    BY DEF Ways
  <2>1. i \in 1 .. Len(pages) /\ i # k
    BY DEF Mappable
  <2>2. pages[i] \in Leaves /\ pages[i] # pages[k]
    BY <2>1 DEF Mappable
  <2>3. Len(pages[k]) = 4
    BY <1>4, WayIs
  <2> QED
    BY <2>2, <2>3, WayIs
<1>6. Grows(x, n, Way(pages[k]), 4)
  BY <1>1, <1>3, <1>4, <1>5, MapPageGrows
<1> HIDE DEF n
<1>7. Grows(m, n, Ways(pages, k - 1) \union Way(pages[k]), 4 * (k - 1) + 4)
  <2>1. 4 * (k - 1) \in Nat
    OBVIOUS
  <2> QED
    BY <1>6, <2>1, GrowsOn
<1>8. 4 * (k - 1) + 4 = 4 * k
  OBVIOUS
<1>9. Ways(pages, k - 1) \union Way(pages[k]) = Ways(pages, k)
  <2>1. 1 .. k = (1 .. (k - 1)) \union {k}
    OBVIOUS
  <2> QED
    BY <2>1 DEF Ways
<1> QED
  BY <1>7, <1>8, <1>9 DEF n

\* MapPages maps each of the pages.
LEMMA MapPagesGrows ==
    ASSUME NEW m, Apart(m), NEW pages, Mappable(m, pages)
    PROVE  Grows(m, MapPages(m, pages), Ways(pages, Len(pages)), 4 * Len(pages))
<1> DEFINE n == Len(pages)
           F(k, x) == mapPage(Taken(x), pages[k], Taken(x).last)
           after[k \in 0 .. Len(pages)] ==
             IF k = 0 THEN m ELSE LET t == Taken(after[k - 1]) IN mapPage(t, pages[k], t.last)
           Done(k, x) == Grows(m, x, Ways(pages, k), 4 * k)
           G == [k \in 1 .. n |-> [x \in Memories |-> IF F(k, x) \in Memories THEN F(k, x) ELSE m]]
<1>1. n \in Nat /\ m \in Memories
  BY DEF Mappable, Apart
<1>2. Done(0, m)
  <2>1. Ways(pages, 0) = {}
    BY DEF Ways
  <2> QED
    BY <2>1, GrowsNot
<1>3. ASSUME NEW k \in 1 .. n, NEW x, Done(k - 1, x) PROVE Done(k, F(k, x))
  BY <1>3, MapOneMore
<1>4. \A k, x : Done(k, x) => x \in Memories
  BY DEF Grows, Apart
<1>5. G \in [1 .. n -> [Memories -> Memories]]
  BY <1>1
<1>6. \A k \in 1 .. n : \A x \in Memories : F(k, x) \in Memories => G[k][x] = F(k, x)
  OBVIOUS
<1> HIDE DEF G, Done, n, F, after
<1>7. PICK f : Iterates(f, n, Memories, m, G)
  BY <1>1, <1>5, Iterated
<1>. f \in [0 .. n -> Memories] /\ f[0] = m /\ \A k \in 1 .. n : f[k] = G[k][f[k - 1]]
  BY <1>7 DEF Iterates
<1>8. ASSUME NEW k \in 1 .. n, Done(k - 1, f[k - 1])
      PROVE  f[k] = F(k, f[k - 1]) /\ Done(k, f[k])
  <2>1. Done(k, F(k, f[k - 1]))
    BY <1>3, <1>8
  <2>2. f[k - 1] \in Memories /\ F(k, f[k - 1]) \in Memories
    BY <1>4, <1>8, <2>1
  <2> QED
    BY <1>6, <1>7, <2>1, <2>2
<1>9. \A k \in 0 .. n : Done(k, f[k])
  <2> DEFINE T == {k \in 0 .. n : Done(k, f[k])}
  <2>1. 0 \in T
    BY <1>1, <1>2, <1>7
  <2>2. \A k \in 1 .. n : k - 1 \in T => k \in T
    BY <1>1, <1>8
  <2> HIDE DEF T
  <2>3. 0 .. n \subseteq T
    BY <1>1, <2>1, <2>2, UpTo
  <2> QED
    BY <2>3 DEF T
<1>10. f = [k \in 0 .. n |-> IF k = 0 THEN m ELSE F(k, f[k - 1])]
  BY <1>1, <1>7, <1>8, <1>9
<1>11. after = [k \in 0 .. n |-> IF k = 0 THEN m ELSE F(k, after[k - 1])]
  BY <1>10 DEF after, F, n
<1>12. \A k \in 0 .. n : Done(k, after[k])
  <2> DEFINE T == {k \in 0 .. n : Done(k, after[k])}
  <2>1. 0 \in T
    BY <1>1, <1>2, <1>11
  <2>2. \A k \in 1 .. n : k - 1 \in T => k \in T
    BY <1>1, <1>3, <1>11
  <2> HIDE DEF T
  <2>3. 0 .. n \subseteq T
    BY <1>1, <2>1, <2>2, UpTo
  <2> QED
    BY <2>3 DEF T
<1>13. Done(n, after[n])
  BY <1>1, <1>12
<1>14. MapPages(m, pages) = after[n]
  BY DEF MapPages, after, n
<1> QED
  BY <1>13, <1>14 DEF Done, n

-----------------------------------------------------------------------------
(* Unmapping pages.  The entries of a space are its root and the ways to its *)
(* pages.                                                                   *)

PagesOf(s) == {q \in DOMAIN s : Len(q) = 4}
Closure(P) == {<<>>} \union UNION {Way(v) : v \in P}
Whole(s) == DOMAIN s = Closure(PagesOf(s))

\* What is on the way to a page.
LEMMA ClosureIs ==
    ASSUME NEW P \in SUBSET Leaves
    PROVE  /\ Closure(P) \subseteq Paths
           /\ \A q \in Closure(P) :
                q = <<>> \/ \E w \in P, n \in 1 .. 4 : q = SubSeq(w, 1, n) /\ Len(q) = n
           /\ \A w \in P, n \in 0 .. 4 : SubSeq(w, 1, n) \in Closure(P) /\ Len(SubSeq(w, 1, n)) = n
           /\ \A q \in Closure(P) : Len(q) = 4 <=> q \in P
<1>1. \A w \in P : /\ w \in Paths /\ Len(w) = 4 /\ Way(w) \subseteq Paths
                   /\ \A q \in Way(w) : Len(q) = 4 => q = w
                   /\ Way(w) = {SubSeq(w, 1, n) : n \in 1 .. 4}
  BY WayIs
<1>2. \A w \in P, n \in 0 .. 4 : /\ SubSeq(w, 1, n) \in Paths /\ Len(SubSeq(w, 1, n)) = n
                                 /\ n = 0 => SubSeq(w, 1, n) = <<>>
                                 /\ n = 4 => SubSeq(w, 1, n) = w
  BY <1>1, PathStarts
<1>3. <<>> \in Paths /\ Len(<<>>) = 0
  BY DEF Paths
<1>4. Closure(P) \subseteq Paths
  BY <1>1, <1>3 DEF Closure
<1>5. ASSUME NEW q \in Closure(P), q # <<>>
      PROVE  \E w \in P, n \in 1 .. 4 : q = SubSeq(w, 1, n) /\ Len(q) = n
  <2>1. PICK w \in P : q \in Way(w)
    BY <1>5 DEF Closure
  <2>2. PICK n \in 1 .. 4 : q = SubSeq(w, 1, n)
    BY <1>1, <2>1
  <2> QED
    BY <1>2, <2>2
<1>6. ASSUME NEW w \in P, NEW n \in 0 .. 4 PROVE SubSeq(w, 1, n) \in Closure(P)
  <2>1. CASE n = 0
    BY <1>2, <2>1 DEF Closure
  <2>2. CASE n # 0
    <3>1. n \in 1 .. 4
      BY <2>2
    <3>2. SubSeq(w, 1, n) \in {SubSeq(w, 1, i) : i \in 1 .. 4}
      BY <3>1
    <3>3. SubSeq(w, 1, n) \in Way(w)
      BY <1>1, <3>2
    <3> QED
      BY <3>3 DEF Closure
  <2> QED
    BY <2>1, <2>2
<1>7. ASSUME NEW q \in Closure(P) PROVE Len(q) = 4 <=> q \in P
  <2>1. ASSUME q \in P PROVE Len(q) = 4
    BY <1>1, <2>1
  <2>2. ASSUME Len(q) = 4 PROVE q \in P
    <3>1. q # <<>>
      BY <1>3, <2>2
    <3>2. PICK w \in P, n \in 1 .. 4 : q = SubSeq(w, 1, n) /\ Len(q) = n
      BY <1>5, <3>1
    <3>3. q = SubSeq(w, 1, 4)
      BY <2>2, <3>2
    <3>4. SubSeq(w, 1, 4) = w
      BY <1>2
    <3> QED
      BY <3>3, <3>4
  <2> QED
    BY <2>1, <2>2
<1> QED
  BY <1>2, <1>4, <1>5, <1>6, <1>7

\* The pages of a space.
LEMMA PagesAre ==
    ASSUME NEW s \in Spaces
    PROVE  PagesOf(s) \in SUBSET Leaves /\ PagesOf(s) \subseteq DOMAIN s
  BY SpaceIs DEF PagesOf, Leaves, Paths

\* A space whose entries are the ways to some pages has these pages.
LEMMA WholeWith ==
    ASSUME NEW s, NEW P \in SUBSET Leaves, DOMAIN s = Closure(P)
    PROVE  PagesOf(s) = P /\ Whole(s)
<1>1. \A q \in Closure(P) : Len(q) = 4 <=> q \in P
  BY ClosureIs
<1>2. P \subseteq Closure(P)
  <2>1. \A w \in P : w \in Way(w)
    BY DEF Way
  <2> QED
    BY <2>1 DEF Closure
<1> QED
  BY <1>1, <1>2 DEF PagesOf, Whole

\* An entry is forgotten, or its frame is given back.
LEMMA WithoutApart ==
    ASSUME NEW m, Apart(m), NEW q \in DOMAIN m.space
    PROVE  LET s == Without(m.space, {q})
               n == [m EXCEPT !.space = s]
               o == [m EXCEPT !.free = @ \union {m.space[q]}, !.space = s]
           IN /\ Apart(n) /\ n.space = s /\ Known(n) = Known(m) \ {m.space[q]}
              /\ Apart(o) /\ o.space = s /\ Known(o) = Known(m)
<1> DEFINE s == Without(m.space, {q})
           n == [m EXCEPT !.space = s]
           o == [m EXCEPT !.free = @ \union {m.space[q]}, !.space = s]
<1>1. m.free \in SUBSET Frames /\ m.last \in Nat /\ m.space \in Spaces
  BY MemoryIs DEF Apart
<1>2. /\ s \in Spaces /\ DOMAIN s = DOMAIN m.space \ {q}
      /\ \A r \in DOMAIN m.space \ {q} : s[r] = m.space[r]
  BY <1>1, WithoutIs
<1>3. m.space[q] \in Frames
  BY <1>1, SpaceIs
<1> HIDE DEF s
<1>4. /\ n = [free |-> m.free, last |-> m.last, space |-> s]
      /\ o = [free |-> m.free \union {m.space[q]}, last |-> m.last, space |-> s]
  <2>1. m \in [free : SUBSET Frames, last : Nat, space : Spaces]
    BY DEF Apart, Memories
  <2>2. n = [free |-> m.free, last |-> m.last, space |-> s]
    BY <2>1
  <2>3. o = [free |-> m.free \union {m.space[q]}, last |-> m.last, space |-> s]
    <3> DEFINE g == m.free \union {m.space[q]}
               a == [m EXCEPT !.free = g]
    <3>1. o = [a EXCEPT !.space = s]
      BY <2>1
    <3> HIDE DEF g, o
    <3>2. a = [free |-> g, last |-> m.last, space |-> m.space]
      BY <2>1
    <3> HIDE DEF a
    <3>3. [a EXCEPT !.space = s] = [free |-> g, last |-> m.last, space |-> s]
      BY <3>2
    <3> QED
      BY <3>1, <3>3 DEF g
  <2> QED
    BY <2>2, <2>3
<1>5. n \in Memories /\ o \in Memories
  BY <1>1, <1>2, <1>3, <1>4 DEF Memories
<1> HIDE DEF n, o
<1>6. OwnFrames(s)
  BY <1>2 DEF OwnFrames, Apart
<1>7. FramesOf(s) = FramesOf(m.space) \ {m.space[q]}
  BY <1>2 DEF FramesOf, OwnFrames, Apart
<1>8. m.space[q] \in FramesOf(m.space)
  BY DEF FramesOf
<1>9. Apart(n) /\ n.space = s /\ Known(n) = Known(m) \ {m.space[q]}
  BY <1>4, <1>5, <1>6, <1>7, <1>8 DEF Apart, Known
<1>10. Apart(o) /\ o.space = s /\ Known(o) = Known(m)
  BY <1>4, <1>5, <1>6, <1>7, <1>8 DEF Apart, Known
<1> QED
  BY <1>9, <1>10 DEF n, o, s

\* Only entries are lost from m to n.
Keeps(m, n) == DOMAIN n.space \subseteq DOMAIN m.space
               /\ \A q \in DOMAIN n.space : n.space[q] = m.space[q]

\* A table without entries is given back.
LEMMA ClearTableGives ==
    ASSUME NEW m, Apart(m), NEW path
    PROVE  LET n == ClearTable(m, path)
           IN /\ Apart(n) /\ Known(n) = Known(m) /\ Keeps(m, n)
              /\ DOMAIN n.space = IF Children(m.space, path) = {} THEN DOMAIN m.space \ {path}
                                  ELSE DOMAIN m.space
<1> DEFINE n == ClearTable(m, path)
<1>1. CASE path \notin DOMAIN m.space \/ Children(m.space, path) # {}
  <2>1. n = m
    BY <1>1 DEF ClearTable
  <2> QED
    BY <1>1, <2>1 DEF Keeps
<1>2. CASE path \in DOMAIN m.space /\ Children(m.space, path) = {}
  <2> DEFINE s == Without(m.space, {path})
  <2>1. n = [m EXCEPT !.free = @ \union {m.space[path]}, !.space = s]
    BY <1>2 DEF ClearTable, Without
  <2> HIDE DEF n
  <2>2. Apart(n) /\ n.space = s /\ Known(n) = Known(m)
    BY <1>2, <2>1, WithoutApart
  <2>3. DOMAIN s = DOMAIN m.space \ {path} /\ \A q \in DOMAIN m.space \ {path} : s[q] = m.space[q]
    BY WithoutIs, MemoryIs DEF Apart
  <2>4. /\ Apart(n) /\ Known(n) = Known(m) /\ Keeps(m, n)
        /\ DOMAIN n.space = DOMAIN m.space \ {path}
    BY <2>2, <2>3 DEF Keeps
  <2> QED
    BY <1>2, <2>4 DEF n
<1> QED
  BY <1>1, <1>2

\* When the page v is gone, the tables that only led to v go one after the other.
LEMMA ClearLevel ==
    ASSUME NEW P \in SUBSET Leaves, NEW v \in Leaves, NEW i \in 1 .. 3, NEW m, Apart(m),
           DOMAIN m.space = Closure(P) \union {SubSeq(v, 1, j) : j \in 1 .. i}
    PROVE  DOMAIN ClearTable(m, SubSeq(v, 1, i)).space
             = Closure(P) \union {SubSeq(v, 1, j) : j \in 1 .. (i - 1)}
<1> DEFINE path == SubSeq(v, 1, i)
           n == ClearTable(m, path)
           E == {SubSeq(v, 1, j) : j \in 1 .. (i - 1)}
<1>1. \A j \in 0 .. 4 : SubSeq(v, 1, j) \in Paths /\ Len(SubSeq(v, 1, j)) = j
  BY WayIs, PathStarts
<1>2. Len(path) = i /\ path \in Paths /\ path # <<>>
  <2>1. Len(path) = i /\ path \in Paths
    BY <1>1
  <2> HIDE DEF path
  <2>2. path # <<>>
    BY <2>1
  <2> QED
    BY <2>1, <2>2
<1>3. DOMAIN n.space = IF Children(m.space, path) = {} THEN DOMAIN m.space \ {path}
                       ELSE DOMAIN m.space
  BY ClearTableGives
<1>4. DOMAIN m.space = Closure(P) \union E \union {path}
  <2>1. 1 .. i = (1 .. (i - 1)) \union {i}
    OBVIOUS
  <2> QED
    BY <2>1
<1>5. path \notin E
  BY <1>1, <1>2
<1>6. ASSUME path \in Closure(P) PROVE Children(m.space, path) # {}
  <2>1. PICK w \in P, k \in 1 .. 4 : path = SubSeq(w, 1, k) /\ Len(path) = k
    BY <1>2, <1>6, ClosureIs
  <2>2. k = i
    BY <1>2, <2>1
  <2> DEFINE q == SubSeq(w, 1, i + 1)
  <2>3. w \in Paths /\ Len(w) = 4
    BY WayIs
  <2>4. i + 1 \in 0 .. 4 /\ i \in 0 .. i + 1
    OBVIOUS
  <2>5. Len(q) = i + 1 /\ SubSeq(q, 1, i) = SubSeq(w, 1, i)
    BY <2>3, <2>4, PathStarts
  <2>6. q \in Closure(P)
    BY <2>4, ClosureIs
  <2> HIDE DEF q
  <2>7. q \in DOMAIN m.space /\ Len(q) = Len(path) + 1 /\ SubSeq(q, 1, Len(path)) = path
    BY <1>2, <1>4, <2>1, <2>2, <2>5, <2>6
  <2> QED
    BY <2>7 DEF Children
<1>7. ASSUME Children(m.space, path) # {} PROVE path \in Closure(P)
  <2>1. PICK q \in DOMAIN m.space : Len(q) = i + 1 /\ SubSeq(q, 1, i) = path
    BY <1>2, <1>7 DEF Children
  <2>2. q \in Closure(P)
    <3>1. \A j \in 1 .. i : Len(SubSeq(v, 1, j)) = j
      BY <1>1
    <3>2. \A j \in 1 .. i : q # SubSeq(v, 1, j)
      BY <2>1, <3>1
    <3> QED
      BY <2>1, <3>2
  <2>3. q # <<>>
    BY <2>1
  <2>4. PICK w \in P, k \in 1 .. 4 : q = SubSeq(w, 1, k) /\ Len(q) = k
    BY <2>2, <2>3, ClosureIs
  <2>5. w \in Paths /\ Len(w) = 4
    BY WayIs
  <2>6. k = i + 1 /\ i \in 0 .. k /\ k \in 0 .. 4 /\ i \in 0 .. 4
    BY <2>1, <2>4
  <2>7. SubSeq(SubSeq(w, 1, k), 1, i) = SubSeq(w, 1, i)
    BY <2>5, <2>6, PathStarts
  <2>8. path = SubSeq(w, 1, i)
    BY <2>1, <2>4, <2>7
  <2> QED
    BY <2>6, <2>8, ClosureIs
<1> HIDE DEF path, n, E
<1>8. DOMAIN n.space = Closure(P) \union E
  BY <1>3, <1>4, <1>5, <1>6, <1>7
<1> QED
  BY <1>8 DEF n, path, E

\* unmapPage forgets the frame of a page, gives back the tables that only led to
\* it and leaves the ways to the other pages.
LEMMA UnmapPageGives ==
    ASSUME NEW m, Apart(m), Whole(m.space), NEW v \in PagesOf(m.space)
    PROVE  LET n == unmapPage(m, v)
           IN /\ Apart(n) /\ Whole(n.space) /\ PagesOf(n.space) = PagesOf(m.space) \ {v}
              /\ Known(n) = Known(m) \ {m.space[v]} /\ Keeps(m, n)
<1> DEFINE P == PagesOf(m.space) \ {v}
           s == Without(m.space, {v})
           a == [m EXCEPT !.space = s]
           b == ClearTable(a, SubSeq(v, 1, 3))
           c == ClearTable(b, SubSeq(v, 1, 2))
           n == ClearTable(c, SubSeq(v, 1, 1))
<1>1. m.space \in Spaces
  BY MemoryIs DEF Apart
<1>2. PagesOf(m.space) \in SUBSET Leaves /\ v \in Leaves /\ v \in DOMAIN m.space
  BY <1>1, PagesAre
<1>3. P \in SUBSET Leaves
  BY <1>2
<1>4. Apart(a) /\ a.space = s /\ Known(a) = Known(m) \ {m.space[v]}
  BY <1>2, WithoutApart
<1>5. DOMAIN s = DOMAIN m.space \ {v} /\ \A q \in DOMAIN m.space \ {v} : s[q] = m.space[q]
  BY <1>1, WithoutIs
<1>6. Keeps(m, a)
  BY <1>4, <1>5 DEF Keeps
<1>7. v \notin Closure(P)
  <2>1. Len(v) = 4 /\ v \notin P
    BY <1>2, WayIs
  <2> HIDE DEF P
  <2> QED
    BY <1>3, <2>1, ClosureIs
<1>8. DOMAIN a.space = Closure(P) \union {SubSeq(v, 1, j) : j \in 1 .. 3}
  <2>1. Closure(PagesOf(m.space)) = Closure(P) \union Way(v)
    BY DEF Closure
  <2>2. Way(v) = {SubSeq(v, 1, 1), SubSeq(v, 1, 2), SubSeq(v, 1, 3)} \union {v}
    BY DEF Way
  <2>3. v \notin {SubSeq(v, 1, 1), SubSeq(v, 1, 2), SubSeq(v, 1, 3)}
    BY <1>2, WayIs
  <2>4. {SubSeq(v, 1, j) : j \in 1 .. 3} = {SubSeq(v, 1, 1), SubSeq(v, 1, 2), SubSeq(v, 1, 3)}
    <3>1. 1 .. 3 = {1, 2, 3}
      OBVIOUS
    <3> QED
      BY <3>1
  <2> QED
    BY <1>4, <1>5, <1>7, <2>1, <2>2, <2>3, <2>4 DEF Whole
<1> HIDE DEF P, a
<1>9. DOMAIN b.space = Closure(P) \union {SubSeq(v, 1, j) : j \in 1 .. 2}
  <2>1. DOMAIN b.space = Closure(P) \union {SubSeq(v, 1, j) : j \in 1 .. (3 - 1)}
    BY <1>2, <1>3, <1>4, <1>8, ClearLevel
  <2> QED
    BY <2>1
<1>10. Apart(b) /\ Known(b) = Known(a) /\ Keeps(a, b)
  BY <1>4, ClearTableGives
<1> HIDE DEF b
<1>11. DOMAIN c.space = Closure(P) \union {SubSeq(v, 1, j) : j \in 1 .. 1}
  <2>1. DOMAIN c.space = Closure(P) \union {SubSeq(v, 1, j) : j \in 1 .. (2 - 1)}
    BY <1>2, <1>3, <1>9, <1>10, ClearLevel
  <2> QED
    BY <2>1
<1>12. Apart(c) /\ Known(c) = Known(b) /\ Keeps(b, c)
  BY <1>10, ClearTableGives
<1> HIDE DEF c
<1>13. DOMAIN n.space = Closure(P)
  <2>1. DOMAIN n.space = Closure(P) \union {SubSeq(v, 1, j) : j \in 1 .. (1 - 1)}
    BY <1>2, <1>3, <1>11, <1>12, ClearLevel
  <2>2. {SubSeq(v, 1, j) : j \in 1 .. (1 - 1)} = {}
    OBVIOUS
  <2> QED
    BY <2>1, <2>2
<1>14. Apart(n) /\ Known(n) = Known(c) /\ Keeps(c, n)
  BY <1>12, ClearTableGives
<1> HIDE DEF n
<1>15. Keeps(m, n)
  BY <1>6, <1>10, <1>12, <1>14 DEF Keeps
<1>16. PagesOf(n.space) = P /\ Whole(n.space)
  BY <1>3, <1>13, WholeWith
<1>17. unmapPage(m, v) = n
  <2>1. SubSeq(v, 1, 3) \in DOMAIN m.space
    BY <1>2 DEF Whole, Closure, Way
  <2> QED
    BY <2>1 DEF unmapPage, n, c, b, a, Without
<1> QED
  BY <1>4, <1>10, <1>12, <1>14, <1>15, <1>16, <1>17 DEF P

\* The last k of the pages.
LastOf(pages, k) == {pages[i] : i \in (Len(pages) - k + 1) .. Len(pages)}
FramesAt(m, S) == {m.space[v] : v \in S}

\* The pages S of m are gone, their frames known no more, and nothing else.
Shrinks(m, n, S) ==
    /\ Apart(n) /\ Whole(n.space) /\ PagesOf(n.space) = PagesOf(m.space) \ S
    /\ Known(n) = Known(m) \ FramesAt(m, S) /\ Keeps(m, n)

\* Different pages that are there.
Mapped(m, pages) ==
    /\ Len(pages) \in Nat
    /\ \A i \in 1 .. Len(pages) : pages[i] \in PagesOf(m.space)
    /\ \A i, j \in 1 .. Len(pages) : pages[i] = pages[j] => i = j

\* One page more.
LEMMA UnmapOneMore ==
    ASSUME NEW m, Apart(m), NEW pages, Mapped(m, pages), NEW k \in 1 .. Len(pages),
           NEW x, Shrinks(m, x, LastOf(pages, k - 1))
    PROVE  Shrinks(m, unmapPage(x, pages[Len(pages) - k + 1]), LastOf(pages, k))
<1> DEFINE i == Len(pages) - k + 1
           v == pages[i]
           n == unmapPage(x, v)
           S == LastOf(pages, k - 1)
<1>1. i \in 1 .. Len(pages)
  BY DEF Mapped
<1>2. v \in PagesOf(m.space)
  BY <1>1 DEF Mapped
<1>3. v \notin S
  <2> SUFFICES ASSUME NEW j \in (Len(pages) - (k - 1) + 1) .. Len(pages), v = pages[j]
               PROVE FALSE
    BY DEF LastOf
  <2>1. j \in 1 .. Len(pages) /\ j # i
    BY DEF Mapped
  <2> QED
    BY <1>1, <2>1 DEF Mapped
<1>4. LastOf(pages, k) = S \union {v}
  <2>1. (Len(pages) - k + 1) .. Len(pages)
          = ((Len(pages) - (k - 1) + 1) .. Len(pages)) \union {i}
    BY DEF Mapped
  <2> QED
    BY <2>1 DEF LastOf
<1> HIDE DEF v, S, n
<1>5. /\ Apart(x) /\ Whole(x.space) /\ PagesOf(x.space) = PagesOf(m.space) \ S
      /\ Known(x) = Known(m) \ FramesAt(m, S) /\ Keeps(m, x)
  BY DEF Shrinks, S
<1>6. v \in PagesOf(x.space)
  BY <1>2, <1>3, <1>5
<1>7. /\ Apart(n) /\ Whole(n.space) /\ PagesOf(n.space) = PagesOf(x.space) \ {v}
      /\ Known(n) = Known(x) \ {x.space[v]} /\ Keeps(x, n)
  BY <1>5, <1>6, UnmapPageGives DEF n
<1>8. x.space[v] = m.space[v]
  BY <1>5, <1>6 DEF Keeps, PagesOf
<1>9. FramesAt(m, LastOf(pages, k)) = FramesAt(m, S) \union {m.space[v]}
  BY <1>4 DEF FramesAt
<1>10. Known(n) = Known(m) \ FramesAt(m, LastOf(pages, k))
  BY <1>5, <1>7, <1>8, <1>9
<1>11. Keeps(m, n)
  BY <1>5, <1>7 DEF Keeps
<1>12. PagesOf(n.space) = PagesOf(m.space) \ LastOf(pages, k)
  BY <1>4, <1>5, <1>7
<1> QED
  BY <1>7, <1>10, <1>11, <1>12 DEF Shrinks, n, v

\* UnmapPages unmaps each of the pages.
LEMMA UnmapPagesShrinks ==
    ASSUME NEW m, Apart(m), Whole(m.space), NEW pages, Mapped(m, pages)
    PROVE  Shrinks(m, UnmapPages(m, pages), LastOf(pages, Len(pages)))
<1> DEFINE n == Len(pages)
           F(k, x) == unmapPage(x, pages[n - k + 1])
           after[k \in 0 .. Len(pages)] ==
             IF k = 0 THEN m ELSE unmapPage(after[k - 1], pages[Len(pages) - k + 1])
           Done(k, x) == Shrinks(m, x, LastOf(pages, k))
           G == [k \in 1 .. n |-> [x \in Memories |-> IF F(k, x) \in Memories THEN F(k, x) ELSE m]]
<1>1. n \in Nat /\ m \in Memories
  BY DEF Mapped, Apart
<1>2. Done(0, m)
  <2>1. LastOf(pages, 0) = {} /\ FramesAt(m, {}) = {}
    BY <1>1 DEF LastOf, FramesAt
  <2>2. Shrinks(m, m, {})
    BY <2>1 DEF Shrinks, Keeps
  <2> QED
    BY <2>1, <2>2
<1>3. ASSUME NEW k \in 1 .. n, NEW x, Done(k - 1, x) PROVE Done(k, F(k, x))
  BY <1>3, UnmapOneMore
<1>4. \A k, x : Done(k, x) => x \in Memories
  BY DEF Shrinks, Apart
<1>5. G \in [1 .. n -> [Memories -> Memories]]
  BY <1>1
<1>6. \A k \in 1 .. n : \A x \in Memories : F(k, x) \in Memories => G[k][x] = F(k, x)
  OBVIOUS
<1> HIDE DEF G, Done, n, F, after
<1>7. PICK f : Iterates(f, n, Memories, m, G)
  BY <1>1, <1>5, Iterated
<1>. f \in [0 .. n -> Memories] /\ f[0] = m /\ \A k \in 1 .. n : f[k] = G[k][f[k - 1]]
  BY <1>7 DEF Iterates
<1>8. ASSUME NEW k \in 1 .. n, Done(k - 1, f[k - 1])
      PROVE  f[k] = F(k, f[k - 1]) /\ Done(k, f[k])
  <2>1. Done(k, F(k, f[k - 1]))
    BY <1>3, <1>8
  <2>2. f[k - 1] \in Memories /\ F(k, f[k - 1]) \in Memories
    BY <1>4, <1>8, <2>1
  <2> QED
    BY <1>6, <1>7, <2>1, <2>2
<1>9. \A k \in 0 .. n : Done(k, f[k])
  <2> DEFINE T == {k \in 0 .. n : Done(k, f[k])}
  <2>1. 0 \in T
    BY <1>1, <1>2, <1>7
  <2>2. \A k \in 1 .. n : k - 1 \in T => k \in T
    BY <1>1, <1>8
  <2> HIDE DEF T
  <2>3. 0 .. n \subseteq T
    BY <1>1, <2>1, <2>2, UpTo
  <2> QED
    BY <2>3 DEF T
<1>10. f = [k \in 0 .. n |-> IF k = 0 THEN m ELSE F(k, f[k - 1])]
  BY <1>1, <1>7, <1>8, <1>9
<1>11. after = [k \in 0 .. n |-> IF k = 0 THEN m ELSE F(k, after[k - 1])]
  BY <1>10 DEF after, F, n
<1>12. \A k \in 0 .. n : Done(k, after[k])
  <2> DEFINE T == {k \in 0 .. n : Done(k, after[k])}
  <2>1. 0 \in T
    BY <1>1, <1>2, <1>11
  <2>2. \A k \in 1 .. n : k - 1 \in T => k \in T
    BY <1>1, <1>3, <1>11
  <2> HIDE DEF T
  <2>3. 0 .. n \subseteq T
    BY <1>1, <2>1, <2>2, UpTo
  <2> QED
    BY <2>3 DEF T
<1>13. Done(n, after[n])
  BY <1>1, <1>12
<1>14. UnmapPages(m, pages) = after[n]
  BY DEF UnmapPages, after, n
<1> QED
  BY <1>13, <1>14 DEF Done, n

-----------------------------------------------------------------------------
(* Copying a space.                                                        *)

\* What Precedes compares.
Index(q, i) == IF i <= Len(q) THEN q[i] + 1 ELSE 0

\* Of two paths, the first of four indices that differ decides.
LEMMA PrecedesIs ==
    ASSUME NEW r, NEW q
    PROVE  Precedes(r, q) <=>
             \/ Index(r, 1) < Index(q, 1)
             \/ Index(r, 1) = Index(q, 1) /\ Index(r, 2) < Index(q, 2)
             \/ Index(r, 1) = Index(q, 1) /\ Index(r, 2) = Index(q, 2) /\ Index(r, 3) < Index(q, 3)
             \/ Index(r, 1) = Index(q, 1) /\ Index(r, 2) = Index(q, 2) /\ Index(r, 3) = Index(q, 3)
                /\ Index(r, 4) < Index(q, 4)
<1>1. Precedes(r, q) <=> \E n \in 1 .. 4 : Index(r, n) < Index(q, n)
                                           /\ \A i \in 1 .. (n - 1) : Index(r, i) = Index(q, i)
  BY DEF Precedes, Index
<1>2. 1 .. 4 = {1, 2, 3, 4} /\ 1 .. (1 - 1) = {} /\ 1 .. (2 - 1) = {1} /\ 1 .. (3 - 1) = {1, 2}
      /\ 1 .. (4 - 1) = {1, 2, 3}
  OBVIOUS
<1> QED
  BY <1>1, <1>2

\* Sequences with the same items are the same.
LEMMA SameItems ==
    ASSUME NEW q \in Seq(Nat), NEW r \in Seq(Nat), Len(q) = Len(r),
           \A i \in 1 .. Len(q) : q[i] = r[i]
    PROVE  q = r
  OBVIOUS

\* Indices of a path count from one, so that zero is behind its end.
LEMMA IndexIs ==
    ASSUME NEW q \in Paths
    PROVE  \A i \in 1 .. 4 : /\ i <= Len(q) => Index(q, i) = q[i] + 1 /\ q[i] \in Nat
                             /\ i > Len(q) => Index(q, i) = 0
<1>1. q \in Seq(Nat) /\ Len(q) \in Nat
  BY LenProperties DEF Paths
<1>2. q \in [1 .. Len(q) -> Nat]
  BY <1>1, LenProperties
<1>3. ASSUME NEW i \in 1 .. 4, i <= Len(q) PROVE Index(q, i) = q[i] + 1 /\ q[i] \in Nat
  <2>1. i \in 1 .. Len(q)
    BY <1>1, <1>3
  <2>2. q[i] \in Nat
    BY <1>2, <2>1
  <2>3. Index(q, i) = q[i] + 1
    BY <1>3 DEF Index
  <2> QED
    BY <2>2, <2>3
<1>4. ASSUME NEW i \in 1 .. 4, i > Len(q) PROVE Index(q, i) = 0
  <2>1. ~ i <= Len(q)
    BY <1>1, <1>4
  <2> QED
    BY <2>1 DEF Index
<1> QED
  BY <1>3, <1>4

\* Paths with the same indices are the same.
LEMMA SameIndices ==
    ASSUME NEW q \in Paths, NEW r \in Paths, \A i \in 1 .. 4 : Index(q, i) = Index(r, i)
    PROVE  q = r
<1>1. q \in Seq(Nat) /\ Len(q) \in Nat /\ Len(q) <= 4
  BY DEF Paths
<1>2. r \in Seq(Nat) /\ Len(r) \in Nat /\ Len(r) <= 4
  BY DEF Paths
<1>3. \A i \in 1 .. 4 : i <= Len(q) => Index(q, i) = q[i] + 1 /\ q[i] \in Nat
  BY IndexIs
<1>4. \A i \in 1 .. 4 : i <= Len(r) => Index(r, i) = r[i] + 1 /\ r[i] \in Nat
  BY IndexIs
<1>5. \A i \in 1 .. 4 : (i > Len(q) => Index(q, i) = 0) /\ (i > Len(r) => Index(r, i) = 0)
  BY IndexIs
<1>6. ASSUME NEW i \in 1 .. 4 PROVE i <= Len(q) <=> i <= Len(r)
  <2>1. Index(q, i) = Index(r, i)
    OBVIOUS
  <2>2. i <= Len(q) => Index(q, i) > 0
    BY <1>3
  <2>3. i <= Len(r) => Index(r, i) > 0
    BY <1>4
  <2>4. (~ i <= Len(q) => Index(q, i) = 0) /\ (~ i <= Len(r) => Index(r, i) = 0)
    BY <1>1, <1>2, <1>5
  <2> QED
    BY <2>1, <2>2, <2>3, <2>4
<1>7. Len(q) = Len(r)
  BY <1>1, <1>2, <1>6
<1>8. \A i \in 1 .. Len(q) : q[i] = r[i]
  <2> SUFFICES ASSUME NEW i \in 1 .. Len(q) PROVE q[i] = r[i]
    OBVIOUS
  <2>1. i \in 1 .. 4 /\ i <= Len(q) /\ i <= Len(r)
    BY <1>1, <1>7
  <2>2. Index(q, i) = q[i] + 1 /\ q[i] \in Nat
    BY <1>3, <2>1
  <2>3. Index(r, i) = r[i] + 1 /\ r[i] \in Nat
    BY <1>4, <2>1
  <2>4. Index(q, i) = Index(r, i)
    BY <2>1
  <2> QED
    BY <2>2, <2>3, <2>4
<1> QED
  BY <1>1, <1>2, <1>7, <1>8, SameItems

\* The order of the entries is strict and total.
LEMMA PathsOrdered ==
    ASSUME NEW q \in Paths, NEW r \in Paths
    PROVE  /\ ~ Precedes(q, q)
           /\ \A p \in Paths : Precedes(p, q) /\ Precedes(q, r) => Precedes(p, r)
           /\ q = r \/ Precedes(q, r) \/ Precedes(r, q)
<1>1. ASSUME NEW p \in Paths, NEW i \in 1 .. 4 PROVE Index(p, i) \in Nat
  <2>1. Len(p) \in Nat
    BY LenProperties DEF Paths
  <2>2. CASE i <= Len(p)
    <3>1. Index(p, i) = p[i] + 1 /\ p[i] \in Nat
      BY <2>2, IndexIs
    <3> QED
      BY <3>1
  <2>3. CASE i > Len(p)
    <3>1. Index(p, i) = 0
      BY <2>3, IndexIs
    <3> QED
      BY <3>1
  <2> QED
    BY <2>1, <2>2, <2>3
<1>. \A p \in Paths : /\ Index(p, 1) \in Nat /\ Index(p, 2) \in Nat
                      /\ Index(p, 3) \in Nat /\ Index(p, 4) \in Nat
  BY <1>1
<1>2. ~ Precedes(q, q)
  BY PrecedesIs
<1>3. ASSUME NEW p \in Paths, Precedes(p, q), Precedes(q, r) PROVE Precedes(p, r)
  BY <1>3, PrecedesIs
<1>4. ASSUME ~ Precedes(q, r), ~ Precedes(r, q) PROVE q = r
  <2>1. /\ Index(q, 1) = Index(r, 1) /\ Index(q, 2) = Index(r, 2)
        /\ Index(q, 3) = Index(r, 3) /\ Index(q, 4) = Index(r, 4)
    BY <1>4, PrecedesIs
  <2>2. \A i \in 1 .. 4 : Index(q, i) = Index(r, i)
    BY <2>1
  <2> QED
    BY <2>2, SameIndices
<1> QED
  BY <1>2, <1>3, <1>4

\* A space is as large as the set of its frames.
LEMMA SpaceFinite ==
    ASSUME NEW s \in Spaces, OwnFrames(s)
    PROVE  /\ IsFiniteSet(DOMAIN s) /\ Cardinality(DOMAIN s) \in Nat
           /\ IsFiniteSet(FramesOf(s)) /\ Cardinality(FramesOf(s)) = Cardinality(DOMAIN s)
<1>1. s \in [DOMAIN s -> Frames] /\ FramesOf(s) \subseteq Frames
  BY SpaceIs
<1>2. IsFiniteSet(FramesOf(s)) /\ IsFiniteSet(Frames)
  BY <1>1, FramesFinite
<1>3. s \in Injection(DOMAIN s, Frames)
  BY <1>1 DEF OwnFrames, Injection, IsInjective
<1>4. IsFiniteSet(DOMAIN s)
  BY <1>2, <1>3, FS_Injection
<1>5. s \in Injection(DOMAIN s, FramesOf(s)) /\ s \in Surjection(DOMAIN s, FramesOf(s))
  <2>1. s \in [DOMAIN s -> FramesOf(s)]
    BY <1>1 DEF FramesOf
  <2>2. s \in Injection(DOMAIN s, FramesOf(s))
    BY <1>3, <2>1 DEF Injection, IsInjective
  <2>3. s \in Surjection(DOMAIN s, FramesOf(s))
    BY <2>1 DEF Surjection, FramesOf
  <2> QED
    BY <2>2, <2>3
<1>6. Cardinality(FramesOf(s)) = Cardinality(DOMAIN s)
  BY <1>4, <1>5, FS_Surjection
<1> QED
  BY <1>2, <1>4, <1>6, FS_CardinalityType

\* EntriesOf lists every entry once.
LEMMA EntriesListed ==
    ASSUME NEW s \in Spaces, OwnFrames(s)
    PROVE  LET e == EntriesOf(s)
           IN /\ Len(e) = Cardinality(DOMAIN s)
              /\ \A i \in 1 .. Len(e) : e[i] \in DOMAIN s
              /\ \A i, j \in 1 .. Len(e) : e[i] = e[j] => i = j
              /\ \A q \in DOMAIN s : \E i \in 1 .. Len(e) : e[i] = q
<1> DEFINE D == DOMAIN s
           n == Cardinality(D)
           rank(q) == Cardinality(Before(s, q))
           e == EntriesOf(s)
<1>1. D \subseteq Paths /\ IsFiniteSet(D) /\ n \in Nat
  BY SpaceIs, SpaceFinite
<1>2. \A q \in D : Before(s, q) = {r \in D : Precedes(r, q)}
  BY DEF Before
<1> HIDE DEF D
<1>3. ASSUME NEW q \in D
      PROVE  /\ IsFiniteSet(Before(s, q)) /\ rank(q) \in Nat /\ rank(q) < n
             /\ \A r \in Before(s, q) : rank(r) < rank(q)
  <2>1. Before(s, q) \subseteq D /\ q \notin Before(s, q)
    BY <1>1, <1>2, PathsOrdered
  <2>2. IsFiniteSet(Before(s, q)) /\ rank(q) \in Nat /\ rank(q) <= n /\ rank(q) # n
    BY <1>1, <2>1, FS_Subset, FS_CardinalityType
  <2>3. ASSUME NEW r \in Before(s, q) PROVE rank(r) < rank(q)
    <3>1. r \in D /\ Precedes(r, q)
      BY <1>2, <2>1
    <3>2. Before(s, r) \subseteq Before(s, q)
      <4> SUFFICES ASSUME NEW p \in D, Precedes(p, r) PROVE Precedes(p, q)
        BY <1>2, <3>1
      <4>1. p \in Paths /\ r \in Paths /\ q \in Paths
        BY <1>1, <3>1
      <4> QED
        BY <3>1, <4>1, PathsOrdered
    <3>3. r \notin Before(s, r)
      BY <1>1, <1>2, <3>1, PathsOrdered
    <3>4. Before(s, r) # Before(s, q)
      BY <3>3
    <3>5. IsFiniteSet(Before(s, r)) /\ rank(r) <= rank(q) /\ rank(r) # rank(q)
      BY <2>2, <3>2, <3>4, FS_Subset
    <3>6. rank(r) \in Nat
      BY <3>5, FS_CardinalityType
    <3> HIDE DEF rank
    <3> QED
      BY <2>2, <3>5, <3>6
  <2> HIDE DEF rank
  <2> QED
    BY <1>1, <2>2, <2>3
<1>4. ASSUME NEW q \in D, NEW r \in D, rank(q) = rank(r) PROVE q = r
  <2>1. rank(q) \in Nat /\ rank(r) \in Nat
    BY <1>3
  <2>2. ASSUME Precedes(q, r) PROVE FALSE
    <3>1. q \in Before(s, r)
      BY <1>2, <2>2
    <3>2. rank(q) < rank(r)
      BY <1>3, <3>1
    <3> HIDE DEF rank
    <3> QED
      BY <1>4, <2>1, <3>2
  <2>3. ASSUME Precedes(r, q) PROVE FALSE
    <3>1. r \in Before(s, q)
      BY <1>2, <2>3
    <3>2. rank(r) < rank(q)
      BY <1>3, <3>1
    <3> HIDE DEF rank
    <3> QED
      BY <1>4, <2>1, <3>2
  <2>4. q \in Paths /\ r \in Paths
    BY <1>1
  <2> QED
    BY <2>2, <2>3, <2>4, PathsOrdered
<1>5. \A i \in 1 .. n : \E q \in D : rank(q) = i - 1
  <2> HIDE DEF rank
  <2> DEFINE f == [q \in D |-> rank(q) + 1]
  <2>1. \A q \in D : rank(q) \in Nat /\ rank(q) < n
    BY <1>3
  <2>2. \A q \in D : rank(q) + 1 \in 1 .. n
    BY <1>1, <2>1
  <2>3. f \in [D -> 1 .. n]
    BY <2>2
  <2>4. \A q, r \in D : f[q] = f[r] => q = r
    BY <1>4, <2>1
  <2>. \A q \in D : f[q] = rank(q) + 1
    OBVIOUS
  <2> HIDE DEF n, f, e
  <2>5. f \in Injection(D, 1 .. n)
    BY <2>3, <2>4 DEF Injection, IsInjective
  <2>6. IsFiniteSet(1 .. n) /\ Cardinality(1 .. n) = n
    BY <1>1, Counted
  <2>7. f \in Surjection(D, 1 .. n)
    BY <1>1, <2>5, <2>6, FS_Injection DEF n
  <2>8. \A i \in 1 .. n : \E q \in D : f[q] = i
    BY <2>7 DEF Surjection
  <2>9. ASSUME NEW i \in 1 .. n PROVE \E q \in D : rank(q) = i - 1
    <3>1. PICK q \in D : f[q] = i
      BY <2>8
    <3>2. rank(q) + 1 = i /\ rank(q) \in Nat
      BY <2>1, <3>1
    <3> QED
      BY <3>2
  <2> QED
    BY <2>9
<1>6. e = [i \in 1 .. n |-> CHOOSE q \in D : rank(q) = i - 1]
  BY DEF EntriesOf, D
<1>7. ASSUME NEW i \in 1 .. n PROVE e[i] \in D /\ rank(e[i]) = i - 1
  <2>1. e[i] = CHOOSE q \in D : rank(q) = i - 1
    BY <1>6
  <2> HIDE DEF e, rank
  <2> QED
    BY <1>5, <2>1
<1>8. Len(e) = n
  <2> HIDE DEF rank, n
  <2> QED
    BY <1>1, <1>6
<1> HIDE DEF e, rank, n
<1>9. \A i, j \in 1 .. n : e[i] = e[j] => i = j
  BY <1>7
<1>10. \A q \in D : \E i \in 1 .. n : e[i] = q
  <2> SUFFICES ASSUME NEW q \in D PROVE \E i \in 1 .. n : e[i] = q
    OBVIOUS
  <2> DEFINE i == rank(q) + 1
  <2>1. i \in 1 .. n /\ rank(q) = i - 1
    BY <1>1, <1>3
  <2> HIDE DEF i
  <2>2. e[i] \in D /\ rank(e[i]) = rank(q)
    BY <1>7, <2>1
  <2>3. e[i] = q
    BY <1>4, <2>2
  <2> QED
    BY <2>1, <2>3
<1> QED
  BY <1>7, <1>8, <1>9, <1>10 DEF e, n, D

\* The first k entries of a list.
FirstOf(e, k) == {e[i] : i \in 1 .. k}

\* Different paths, none of which is there, with a frame for each.
Copyable(m, e) ==
    /\ Len(e) \in Nat
    /\ \A i \in 1 .. Len(e) : e[i] \in Paths /\ e[i] \notin DOMAIN m.space
    /\ \A i, j \in 1 .. Len(e) : e[i] = e[j] => i = j
    /\ Cardinality(m.free) >= Len(e)

\* One entry more.
LEMMA CopyOneMore ==
    ASSUME NEW m, Apart(m), NEW e, Copyable(m, e), NEW k \in 1 .. Len(e),
           NEW x, Grows(m, x, FirstOf(e, k - 1), k - 1)
    PROVE  Grows(m, With(Taken(x), e[k], Taken(x).last), FirstOf(e, k), k)
<1> DEFINE n == With(Taken(x), e[k], Taken(x).last)
<1>1. Apart(x) /\ Cardinality(x.free) >= Cardinality(m.free) - (k - 1)
      /\ DOMAIN x.space = DOMAIN m.space \union FirstOf(e, k - 1)
  BY DEF Grows
<1>2. Cardinality(m.free) \in Nat /\ Cardinality(x.free) \in Nat
  BY <1>1, MemoryIs, FramesFinite DEF Apart
<1>3. x.free # {}
  <2>1. Cardinality(x.free) # 0
    BY <1>1, <1>2 DEF Copyable
  <2> QED
    BY <2>1, FS_EmptySet
<1>4. e[k] \in Paths \ DOMAIN x.space
  <2>1. e[k] \notin FirstOf(e, k - 1)
    <3> SUFFICES ASSUME NEW i \in 1 .. k - 1, e[k] = e[i] PROVE FALSE
      BY DEF FirstOf
    <3>1. i \in 1 .. Len(e) /\ i # k
      BY DEF Copyable
    <3> QED
      BY <3>1 DEF Copyable
  <2> QED
    BY <1>1, <2>1 DEF Copyable
<1>5. Grows(x, n, {e[k]}, 1)
  BY <1>1, <1>3, <1>4, NewEntry
<1> HIDE DEF n
<1>6. Grows(m, n, FirstOf(e, k - 1) \union {e[k]}, (k - 1) + 1)
  <2>1. k - 1 \in Nat
    OBVIOUS
  <2> QED
    BY <1>5, <2>1, GrowsOn
<1>7. (k - 1) + 1 = k
  OBVIOUS
<1>8. FirstOf(e, k - 1) \union {e[k]} = FirstOf(e, k)
  <2>1. 1 .. k = (1 .. (k - 1)) \union {k}
    OBVIOUS
  <2> QED
    BY <2>1 DEF FirstOf
<1> QED
  BY <1>6, <1>7, <1>8 DEF n

\* ptDeepCopy gives each entry a frame of its own.
LEMMA DeepCopyGrows ==
    ASSUME NEW m, Apart(m), m.space = NoSpace, NEW s \in Spaces, OwnFrames(s),
           Cardinality(m.free) >= Cardinality(DOMAIN s)
    PROVE  Grows(m, ptDeepCopy(m, s), DOMAIN s, Cardinality(DOMAIN s))
<1> DEFINE e == EntriesOf(s)
           n == Len(e)
           F(k, x) == With(Taken(x), e[k], Taken(x).last)
           copied[k \in 0 .. Len(EntriesOf(s))] ==
             IF k = 0 THEN [m EXCEPT !.space = NoSpace]
             ELSE LET t == Taken(copied[k - 1]) IN With(t, EntriesOf(s)[k], t.last)
           Done(k, x) == Grows(m, x, FirstOf(e, k), k)
           G == [k \in 1 .. n |-> [x \in Memories |-> IF F(k, x) \in Memories THEN F(k, x) ELSE m]]
<1>1. [m EXCEPT !.space = NoSpace] = m
  BY DEF Apart, Memories
<1>2. /\ n = Cardinality(DOMAIN s)
      /\ \A i \in 1 .. n : e[i] \in DOMAIN s
      /\ \A i, j \in 1 .. n : e[i] = e[j] => i = j
      /\ \A q \in DOMAIN s : \E i \in 1 .. n : e[i] = q
  BY EntriesListed
<1>3. n \in Nat /\ m \in Memories
  BY <1>2, SpaceFinite DEF Apart
<1>4. Copyable(m, e)
  <2>1. DOMAIN m.space = {}
    BY DEF NoSpace
  <2>2. DOMAIN s \subseteq Paths
    BY SpaceIs
  <2> HIDE DEF e
  <2> QED
    BY <1>2, <1>3, <2>1, <2>2 DEF Copyable
<1>5. FirstOf(e, n) = DOMAIN s
  BY <1>2 DEF FirstOf
<1>6. Done(0, m)
  <2>1. FirstOf(e, 0) = {}
    BY DEF FirstOf
  <2> QED
    BY <2>1, GrowsNot
<1>7. ASSUME NEW k \in 1 .. n, NEW x, Done(k - 1, x) PROVE Done(k, F(k, x))
  <2> HIDE DEF e
  <2> QED
    BY <1>7, <1>4, CopyOneMore
<1>8. \A k, x : Done(k, x) => x \in Memories
  BY DEF Grows, Apart
<1>9. G \in [1 .. n -> [Memories -> Memories]]
  BY <1>3
<1>10. \A k \in 1 .. n : \A x \in Memories : F(k, x) \in Memories => G[k][x] = F(k, x)
  OBVIOUS
<1> HIDE DEF G, Done, n, F, copied
<1>11. PICK f : Iterates(f, n, Memories, m, G)
  BY <1>3, <1>9, Iterated
<1>. f \in [0 .. n -> Memories] /\ f[0] = m /\ \A k \in 1 .. n : f[k] = G[k][f[k - 1]]
  BY <1>11 DEF Iterates
<1>12. ASSUME NEW k \in 1 .. n, Done(k - 1, f[k - 1])
      PROVE  f[k] = F(k, f[k - 1]) /\ Done(k, f[k])
  <2>1. Done(k, F(k, f[k - 1]))
    BY <1>7, <1>12
  <2>2. f[k - 1] \in Memories /\ F(k, f[k - 1]) \in Memories
    BY <1>8, <1>12, <2>1
  <2> QED
    BY <1>10, <1>11, <2>1, <2>2
<1>13. \A k \in 0 .. n : Done(k, f[k])
  <2> DEFINE T == {k \in 0 .. n : Done(k, f[k])}
  <2>1. 0 \in T
    BY <1>3, <1>6, <1>11
  <2>2. \A k \in 1 .. n : k - 1 \in T => k \in T
    BY <1>3, <1>12
  <2> HIDE DEF T
  <2>3. 0 .. n \subseteq T
    BY <1>3, <2>1, <2>2, UpTo
  <2> QED
    BY <2>3 DEF T
<1>14. f = [k \in 0 .. n |-> IF k = 0 THEN m ELSE F(k, f[k - 1])]
  BY <1>3, <1>11, <1>12, <1>13
<1>15. f = [k \in 0 .. n |-> IF k = 0 THEN [m EXCEPT !.space = NoSpace] ELSE F(k, f[k - 1])]
  BY <1>1, <1>14
<1>16. copied = [k \in 0 .. n |->
                  IF k = 0 THEN [m EXCEPT !.space = NoSpace] ELSE F(k, copied[k - 1])]
  BY <1>15 DEF copied, F, n, e
<1>17. copied = [k \in 0 .. n |-> IF k = 0 THEN m ELSE F(k, copied[k - 1])]
  BY <1>1, <1>16
<1>18. \A k \in 0 .. n : Done(k, copied[k])
  <2> DEFINE T == {k \in 0 .. n : Done(k, copied[k])}
  <2>1. 0 \in T
    BY <1>3, <1>6, <1>17
  <2>2. \A k \in 1 .. n : k - 1 \in T => k \in T
    BY <1>3, <1>7, <1>17
  <2> HIDE DEF T
  <2>3. 0 .. n \subseteq T
    BY <1>3, <2>1, <2>2, UpTo
  <2> QED
    BY <2>3 DEF T
<1>19. Done(n, copied[n])
  BY <1>3, <1>18
<1>20. ptDeepCopy(m, s) = copied[n]
  BY DEF ptDeepCopy, copied, n, e
<1>21. Grows(m, ptDeepCopy(m, s), FirstOf(e, n), n)
  BY <1>19, <1>20 DEF Done
<1> QED
  BY <1>2, <1>5, <1>21

-----------------------------------------------------------------------------
(* The pages of a process.                                                 *)

\* The pages from number a up to b, which is left.
UserSet(a, b) == {UserPage(n) : n \in a .. (b - 1)}
StackPage == StackPages[1]

\* Pages of image and heap are different, and the stack's is another.
LEMMA UserPageIs ==
    /\ \A n \in Nat : UserPage(n) \in Leaves /\ UserPage(n) # StackPage
    /\ \A n, k \in Nat : UserPage(n) = UserPage(k) => n = k
    /\ StackPage \in Leaves
<1>1. ASSUME NEW n \in Nat PROVE n \div 2 \in Nat /\ n % 2 \in Nat /\ n = 2 * (n \div 2) + (n % 2)
  OBVIOUS
<1>2. ASSUME NEW n \in Nat PROVE UserPage(n) \in Leaves /\ UserPage(n) # StackPage
  <2> DEFINE a == n \div 2
             b == n % 2
  <2>1. a \in Nat /\ b \in Nat
    BY <1>1
  <2> HIDE DEF a, b
  <2>2. <<0, 0, a, b>> \in Seq(Nat) /\ Len(<<0, 0, a, b>>) = 4 /\ <<0, 0, a, b>> # <<1, 1, 1, 1>>
    BY <2>1
  <2> QED
    BY <2>2 DEF UserPage, a, b, Leaves, StackPage, StackPages
<1>3. ASSUME NEW n \in Nat, NEW k \in Nat, UserPage(n) = UserPage(k) PROVE n = k
  <2>1. n \div 2 = k \div 2 /\ n % 2 = k % 2
    BY <1>3 DEF UserPage
  <2> QED
    BY <1>1, <2>1
<1>4. StackPage \in Leaves
  BY DEF Leaves, StackPage, StackPages
<1> QED
  BY <1>2, <1>3, <1>4

\* A list of pages without repetition.
Lists(pages, S) ==
    /\ Len(pages) \in Nat /\ S = {pages[i] : i \in 1 .. Len(pages)} /\ S \subseteq Leaves
    /\ \A i, j \in 1 .. Len(pages) : pages[i] = pages[j] => i = j

\* Pages lists the pages of image or heap.
LEMMA PagesList ==
    ASSUME NEW a \in Nat, NEW b \in Nat, a <= b
    PROVE  Lists(Pages(a, b), UserSet(a, b)) /\ Len(Pages(a, b)) = b - a
<1> DEFINE l == Pages(a, b)
<1>1. Len(l) = b - a /\ \A i \in 1 .. (b - a) : l[i] = UserPage(a + i - 1)
  BY DEF Pages
<1> HIDE DEF l
<1>2. \A i \in 1 .. (b - a) : a + i - 1 \in Nat
  OBVIOUS
<1>3. UserSet(a, b) = {l[i] : i \in 1 .. Len(l)}
  <2>1. ASSUME NEW n \in a .. (b - 1) PROVE \E i \in 1 .. Len(l) : l[i] = UserPage(n)
    <3>1. n - a + 1 \in 1 .. (b - a) /\ a + (n - a + 1) - 1 = n
      OBVIOUS
    <3>2. l[n - a + 1] = UserPage(n)
      BY <1>1, <3>1
    <3> QED
      BY <1>1, <3>1, <3>2
  <2>2. ASSUME NEW i \in 1 .. Len(l) PROVE \E n \in a .. (b - 1) : l[i] = UserPage(n)
    <3>1. i \in 1 .. (b - a)
      BY <1>1
    <3>2. a + i - 1 \in a .. (b - 1)
      BY <3>1
    <3> QED
      BY <1>1, <3>1, <3>2
  <2>3. \A v : v \in UserSet(a, b) <=> \E n \in a .. (b - 1) : v = UserPage(n)
    BY DEF UserSet
  <2>4. \A v : v \in UserSet(a, b) <=> \E i \in 1 .. Len(l) : v = l[i]
    BY <2>1, <2>2, <2>3
  <2> QED
    BY <2>4
<1>4. \A i, j \in 1 .. Len(l) : l[i] = l[j] => i = j
  <2> SUFFICES ASSUME NEW i \in 1 .. (b - a), NEW j \in 1 .. (b - a), l[i] = l[j] PROVE i = j
    BY <1>1
  <2>1. a + i - 1 = a + j - 1
    BY <1>1, <1>2, UserPageIs
  <2> QED
    BY <2>1
<1>5. UserSet(a, b) \subseteq Leaves
  BY UserPageIs DEF UserSet
<1>6. Lists(l, UserSet(a, b)) /\ Len(l) = b - a
  BY <1>1, <1>3, <1>4, <1>5 DEF Lists
<1> QED
  BY <1>6 DEF l

\* One item behind others.
LEMMA OneBehind ==
    ASSUME NEW S, NEW l \in Seq(S), NEW k \in Seq(S), Len(k) = 1
    PROVE  /\ Len(l \o k) = Len(l) + 1 /\ (l \o k)[Len(l) + 1] = k[1]
           /\ \A i \in 1 .. Len(l) : (l \o k)[i] = l[i]
<1> DEFINE m == l \o k
<1>1. Len(l) \in Nat
  OBVIOUS
<1>2. /\ Len(m) = Len(l) + Len(k)
      /\ \A i \in 1 .. Len(l) + Len(k) : m[i] = IF i <= Len(l) THEN l[i] ELSE k[i - Len(l)]
  BY ConcatProperties
<1> HIDE DEF m
<1>3. Len(m) = Len(l) + 1 /\ m[Len(l) + 1] = k[1] /\ \A i \in 1 .. Len(l) : m[i] = l[i]
  BY <1>1, <1>2
<1> QED
  BY <1>3 DEF m

\* The stack's page is a list, and so is it behind the pages of an image.
LEMMA StackList ==
    /\ Lists(StackPages, {StackPage}) /\ Len(StackPages) = 1
    /\ \A b \in Nat : /\ Lists(Pages(0, b) \o StackPages, UserSet(0, b) \union {StackPage})
                      /\ Len(Pages(0, b) \o StackPages) = b + 1
<1>1. Lists(StackPages, {StackPage}) /\ Len(StackPages) = 1
  <2>1. Len(StackPages) = 1 /\ StackPages[1] = StackPage
    BY DEF StackPages, StackPage
  <2>2. 1 .. 1 = {1}
    OBVIOUS
  <2> QED
    BY <2>1, <2>2, UserPageIs DEF Lists
<1>2. ASSUME NEW b \in Nat
      PROVE  /\ Lists(Pages(0, b) \o StackPages, UserSet(0, b) \union {StackPage})
             /\ Len(Pages(0, b) \o StackPages) = b + 1
  <2> DEFINE l == Pages(0, b)
             m == l \o StackPages
  <2>1. Lists(l, UserSet(0, b)) /\ Len(l) = b
    BY PagesList
  <2>2. l \in Seq(Leaves) /\ StackPages \in Seq(Leaves)
    <3>1. \A i \in 1 .. (b - 0) : UserPage(0 + i - 1) \in Leaves
      BY UserPageIs
    <3>2. l \in Seq(Leaves)
      BY <3>1 DEF Pages
    <3>3. StackPages \in Seq(Leaves)
      BY UserPageIs DEF StackPages, StackPage
    <3> QED
      BY <3>2, <3>3
  <2> HIDE DEF l
  <2>3. /\ Len(m) = b + 1 /\ m[b + 1] = StackPage
        /\ \A i \in 1 .. b : m[i] = l[i]
    <3> DEFINE k == StackPages
    <3>1. k \in Seq(Leaves) /\ Len(k) = 1 /\ k[1] = StackPage
      BY <1>1, <2>2 DEF StackPage
    <3> HIDE DEF k
    <3>2. Len(l \o k) = b + 1 /\ (l \o k)[b + 1] = k[1] /\ \A i \in 1 .. b : (l \o k)[i] = l[i]
      BY <2>1, <2>2, <3>1, OneBehind
    <3> QED
      BY <3>1, <3>2 DEF k
  <2> HIDE DEF m
  <2>4. 1 .. (b + 1) = (1 .. b) \union {b + 1}
    OBVIOUS
  <2>5. UserSet(0, b) = {l[i] : i \in 1 .. b}
    BY <2>1 DEF Lists
  <2>6. UserSet(0, b) \union {StackPage} = {m[i] : i \in 1 .. Len(m)}
    BY <2>3, <2>4, <2>5
  <2>7. \A i \in 1 .. b : m[i] # StackPage
    <3>1. \A v \in UserSet(0, b) : v # StackPage
      BY UserPageIs DEF UserSet
    <3> QED
      BY <2>3, <2>5, <3>1
  <2>8. \A i, j \in 1 .. Len(m) : m[i] = m[j] => i = j
    <3>1. \A i, j \in 1 .. b : l[i] = l[j] => i = j
      BY <2>1 DEF Lists
    <3> QED
      BY <2>3, <2>4, <2>7, <3>1
  <2>9. UserSet(0, b) \union {StackPage} \subseteq Leaves
    BY <2>1, UserPageIs DEF Lists
  <2>10. Lists(m, UserSet(0, b) \union {StackPage}) /\ Len(m) = b + 1
    BY <2>3, <2>6, <2>8, <2>9 DEF Lists
  <2> QED
    BY <2>10 DEF m, l
<1> QED
  BY <1>1, <1>2

\* From m to n the pages are those of P, the tables those that lead to them, the root
\* is the same and the frames that are known too.
Turns(m, n, P) ==
    /\ Apart(n) /\ Whole(n.space) /\ PagesOf(n.space) = P /\ Known(n) = Known(m)
    /\ n.space[<<>>] = m.space[<<>>]

\* MapPages on a whole space adds the pages and keeps it whole.
LEMMA MapPagesTurns ==
    ASSUME NEW m, Apart(m), Whole(m.space), NEW pages, NEW S, Lists(pages, S),
           S \intersect PagesOf(m.space) = {}, Cardinality(m.free) >= 4 * Len(pages)
    PROVE  /\ Turns(m, MapPages(m, pages), PagesOf(m.space) \union S)
           /\ Cardinality(MapPages(m, pages).free) >= Cardinality(m.free) - 4 * Len(pages)
<1> DEFINE n == MapPages(m, pages)
           P == PagesOf(m.space)
<1>1. S \subseteq Leaves /\ S = {pages[i] : i \in 1 .. Len(pages)}
  BY DEF Lists
<1>2. P \in SUBSET Leaves /\ DOMAIN m.space = Closure(P)
  BY PagesAre, MemoryIs DEF Apart, Whole
<1>3. \A v \in S : v \notin DOMAIN m.space
  BY <1>1, WayIs DEF PagesOf
<1>4. Mappable(m, pages)
  <2>1. \A i \in 1 .. Len(pages) : pages[i] \in S
    BY <1>1
  <2> QED
    BY <1>1, <1>3, <2>1 DEF Mappable, Lists
<1>5. Grows(m, n, Ways(pages, Len(pages)), 4 * Len(pages))
  BY <1>4, MapPagesGrows
<1> HIDE DEF n, P
<1>6. Closure(P) \union Ways(pages, Len(pages)) = Closure(P \union S)
  <2>1. Ways(pages, Len(pages)) = UNION {Way(v) : v \in S}
    BY <1>1 DEF Ways
  <2> QED
    BY <2>1 DEF Closure
<1>7. DOMAIN n.space = Closure(P \union S)
  BY <1>2, <1>5, <1>6 DEF Grows
<1>8. PagesOf(n.space) = P \union S /\ Whole(n.space)
  BY <1>1, <1>2, <1>7, WholeWith
<1>9. <<>> \in DOMAIN m.space
  BY <1>2 DEF Closure
<1>10. Turns(m, n, P \union S) /\ Cardinality(n.free) >= Cardinality(m.free) - 4 * Len(pages)
  BY <1>5, <1>8, <1>9 DEF Turns, Grows
<1> QED
  BY <1>10 DEF n, P

\* A new space is a root.
LEMMA NewSpaceGives ==
    ASSUME NEW m, Apart(m), m.space = NoSpace, m.free # {}
    PROVE  LET n == NewSpace(m)
           IN /\ Apart(n) /\ Known(n) = m.free /\ DOMAIN n.space = {<<>>}
              /\ Whole(n.space) /\ PagesOf(n.space) = {}
              /\ Cardinality(n.free) = Cardinality(m.free) - 1
              /\ n.space[<<>>] \in m.free /\ n.free = m.free \ {n.space[<<>>]}
<1> DEFINE t == Taken(m)
           n == NewSpace(m)
           s == [q \in {<<>>} |-> t.last]
<1>1. /\ t \in Memories /\ t.last \in m.free /\ t.free = m.free \ {t.last}
      /\ Cardinality(t.free) = Cardinality(m.free) - 1
  BY TakenGives DEF Apart
<1>2. m.free \in SUBSET Frames
  BY MemoryIs DEF Apart
<1>3. n = [t EXCEPT !.space = s]
  BY DEF NewSpace
<1> HIDE DEF t, n
<1>4. DOMAIN s = {<<>>} /\ s[<<>>] = t.last
  OBVIOUS
<1>5. s \in [{<<>>} -> Frames] /\ {<<>>} \in SUBSET Paths
  BY <1>1, <1>2 DEF Paths
<1>6. s \in Spaces
  BY <1>5, IsSpace
<1> HIDE DEF s
<1>7. n = [free |-> t.free, last |-> t.last, space |-> s]
  BY <1>1, <1>3 DEF Memories
<1>8. n \in Memories
  BY <1>1, <1>6, <1>7 DEF Memories
<1>9. FramesOf(s) = {t.last} /\ OwnFrames(s)
  BY <1>4 DEF FramesOf, OwnFrames
<1>10. Apart(n) /\ Known(n) = m.free
  BY <1>1, <1>7, <1>8, <1>9 DEF Apart, Known
<1>11. Closure({}) = {<<>>}
  BY DEF Closure
<1>12. PagesOf(s) = {} /\ Whole(s)
  <2>1. {} \in SUBSET Leaves /\ DOMAIN s = Closure({})
    BY <1>4, <1>11
  <2> DEFINE P == {}
  <2> HIDE DEF P
  <2>2. P \in SUBSET Leaves /\ DOMAIN s = Closure(P) => PagesOf(s) = P /\ Whole(s)
    BY WholeWith
  <2> QED
    BY <2>1, <2>2 DEF P
<1>13. /\ Apart(n) /\ Known(n) = m.free /\ DOMAIN n.space = {<<>>}
       /\ Whole(n.space) /\ PagesOf(n.space) = {}
       /\ Cardinality(n.free) = Cardinality(m.free) - 1
       /\ n.space[<<>>] \in m.free /\ n.free = m.free \ {n.space[<<>>]}
  BY <1>1, <1>4, <1>7, <1>10, <1>12
<1> QED
  BY <1>13 DEF n

\* UnmapPages on a whole space removes the pages and keeps it whole.
LEMMA UnmapPagesTurns ==
    ASSUME NEW m, Apart(m), Whole(m.space), NEW pages, NEW S, Lists(pages, S),
           S \subseteq PagesOf(m.space)
    PROVE  LET n == UnmapPages(m, pages)
           IN /\ Apart(n) /\ Whole(n.space) /\ PagesOf(n.space) = PagesOf(m.space) \ S
              /\ Known(n) = Known(m) \ FramesAt(m, S) /\ n.space[<<>>] = m.space[<<>>]
              /\ FramesAt(m, S) \subseteq FramesOf(m.space)
              /\ IsFiniteSet(FramesAt(m, S)) /\ Cardinality(FramesAt(m, S)) = Len(pages)
<1> DEFINE n == UnmapPages(m, pages)
<1>1. Len(pages) \in Nat /\ S = {pages[i] : i \in 1 .. Len(pages)}
  BY DEF Lists
<1>2. \A i \in 1 .. Len(pages) : pages[i] \in S
  BY <1>1
<1>3. Mapped(m, pages)
  BY <1>1, <1>2 DEF Mapped, Lists
<1>4. LastOf(pages, Len(pages)) = S
  <2>1. (Len(pages) - Len(pages) + 1) .. Len(pages) = 1 .. Len(pages)
    BY <1>1
  <2> QED
    BY <1>1, <2>1 DEF LastOf
<1>5. Shrinks(m, n, S)
  BY <1>3, <1>4, UnmapPagesShrinks
<1> HIDE DEF n
<1>6. <<>> \in DOMAIN n.space
  BY <1>5 DEF Shrinks, Whole, Closure
<1>7. n.space[<<>>] = m.space[<<>>]
  BY <1>5, <1>6 DEF Shrinks, Keeps
<1>8. S \subseteq DOMAIN m.space
  BY DEF PagesOf
<1>9. FramesAt(m, S) \subseteq FramesOf(m.space)
  BY <1>8 DEF FramesAt, FramesOf
<1>10. IsFiniteSet(FramesAt(m, S)) /\ Cardinality(FramesAt(m, S)) = Len(pages)
  <2> DEFINE f == [i \in 1 .. Len(pages) |-> m.space[pages[i]]]
             T == FramesAt(m, S)
  <2>1. T = {m.space[pages[i]] : i \in 1 .. Len(pages)}
    BY <1>1 DEF FramesAt
  <2>2. f \in [1 .. Len(pages) -> T]
    BY <2>1
  <2>3. \A i, j \in 1 .. Len(pages) : f[i] = f[j] => i = j
    BY <1>2, <1>8 DEF Lists, Apart, OwnFrames
  <2>4. \A x \in T : \E i \in 1 .. Len(pages) : f[i] = x
    BY <2>1
  <2> HIDE DEF f, T
  <2>5. f \in Surjection(1 .. Len(pages), T) /\ f \in Injection(1 .. Len(pages), T)
    <3>1. f \in Surjection(1 .. Len(pages), T)
      BY <2>2, <2>4 DEF Surjection
    <3>2. f \in Injection(1 .. Len(pages), T)
      BY <2>2, <2>3 DEF Injection, IsInjective
    <3> QED
      BY <3>1, <3>2
  <2>6. IsFiniteSet(1 .. Len(pages)) /\ Cardinality(1 .. Len(pages)) = Len(pages)
    BY <1>1, Counted
  <2>7. IsFiniteSet(T) /\ Cardinality(T) = Len(pages)
    BY <2>5, <2>6, FS_Surjection
  <2> QED
    BY <2>7 DEF T
<1>11. /\ Apart(n) /\ Whole(n.space) /\ PagesOf(n.space) = PagesOf(m.space) \ S
       /\ Known(n) = Known(m) \ FramesAt(m, S)
  BY <1>5 DEF Shrinks
<1> QED
  BY <1>7, <1>9, <1>10, <1>11 DEF n

-----------------------------------------------------------------------------
(* The invariant.                                                          *)

SpacesType ==
    /\ free \in SUBSET Frames /\ last_allocated \in Nat
    /\ space \in [Pids -> Spaces] /\ kernel_stack \in [Pids -> Frames \union {None}]
    /\ image \in [Pids -> Nat] /\ heap \in [Pids -> Nat]
    /\ status \in [Pids -> {"unborn", "alive", "dead", "buried"}]
    /\ current \in 0 .. MaxPid /\ fresh \in Spaces /\ stage \in {"none", "loaded", "switched"}

\* A process has a space from its birth to its burial, and in it the pages it should
\* have, but for the one that is changing its program.
ProcessesWhole ==
    \A p \in Pids :
        /\ p \in Standing <=> status[p] \in {"alive", "dead"}
        /\ p \in Standing =>
             /\ Whole(space[p]) /\ OwnFrames(space[p])
             /\ kernel_stack[p] \in Frames \ FramesOf(space[p])
             /\ stage = "none" \/ p # current => PagesOf(space[p]) = UserPages(p)

\* What exec has done.
ExecWhole ==
    /\ stage # "none" => current \in Pids /\ status[current] = "alive"
    /\ OwnFrames(fresh)
    /\ stage = "loaded" => Whole(fresh) /\ PagesOf(fresh) = UserSet(0, image[current])
    /\ stage # "loaded" => fresh = NoSpace
    /\ stage = "switched" => heap[current] = 0
                             /\ PagesOf(space[current]) = UserSet(0, image[current])

\* No frame is held twice, or held and free.
FramesApart ==
    \A p \in 0 .. MaxPid :
        /\ free \intersect Holds(p) = {}
        /\ \A r \in 0 .. MaxPid : p # r => Holds(p) \intersect Holds(r) = {}

\* The root the CPU uses is the current process's; behind the last burial it is nobody's.
RootLoaded ==
    /\ current # 0 => status[current] \in {"alive", "dead"}
    /\ current # 0 /\ stage # "switched" => cr3 = space[current][<<>>]
    /\ current = 0 => cr3 \notin free \union Used

SpacesInv == SpacesType /\ ProcessesWhole /\ ExecWhole /\ FramesApart /\ RootLoaded

-----------------------------------------------------------------------------
(* The account of the frames.                                              *)

\* The frames L are lost, and no others come or go.
Loses(L) == L \subseteq free \union Used /\ free' \union Used' = (free \union Used) \ L

\* Only process p, exec and the allocator give frames to each other, and L is lost.
Accounts(p, L) ==
    /\ L \subseteq free \union Holds(0) \union Holds(p)
    /\ free' \union Holds(0)' \union Holds(p)' = (free \union Holds(0) \union Holds(p)) \ L
    /\ free' \intersect Holds(0)' = {} /\ free' \intersect Holds(p)' = {}
    /\ Holds(0)' \intersect Holds(p)' = {}
    /\ \A r \in Pids \ {p} : Holds(r)' = Holds(r)

\* Who holds what, before a step and behind it.
LEMMA HoldsAre ==
    /\ Holds(0) = FramesOf(fresh) /\ Holds(0)' = FramesOf(fresh')
    /\ \A p \in Pids :
         /\ Holds(p) = IF space[p] # NoSpace THEN FramesOf(space[p]) \union {kernel_stack[p]} ELSE {}
         /\ Holds(p)' = IF space'[p] # NoSpace THEN FramesOf(space'[p]) \union {kernel_stack'[p]}
                        ELSE {}
<1>1. \A p \in Pids : p # 0
  BY SpacesAssumption DEF Pids
<1> QED
  BY <1>1 DEF Holds, Standing

\* The processes and exec.
LEMMA Holders == 0 .. MaxPid = {0} \union Pids /\ 0 \notin Pids /\ MaxPid \in Nat
  BY SpacesAssumption DEF Pids

\* A balanced account keeps the frames apart.
LEMMA Accounted ==
    ASSUME FramesApart, NEW p \in Pids, NEW L, Accounts(p, L)
    PROVE  FramesApart' /\ Loses(L)
<1>1. /\ 0 .. MaxPid = {0} \union Pids /\ 0 \notin Pids
      /\ 0 \in 0 .. MaxPid /\ \A r \in Pids : r \in 0 .. MaxPid
  BY Holders
<1> DEFINE H(r) == Holds(r)
           G(r) == Holds(r)'
           A == free \union H(0) \union H(p)
<1>2. \A r \in Pids \ {p} : G(r) = H(r) /\ H(r) \intersect A = {}
  BY <1>1 DEF FramesApart, Accounts
<1>3. /\ free' \union G(0) \union G(p) = A \ L /\ L \subseteq A
      /\ free' \intersect G(0) = {} /\ free' \intersect G(p) = {} /\ G(0) \intersect G(p) = {}
  BY DEF Accounts
<1>4. \A r, s \in Pids : r # s => H(r) \intersect H(s) = {}
  BY <1>1 DEF FramesApart
<1>5. Used = H(0) \union UNION {H(r) : r \in Pids} /\ Used' = G(0) \union UNION {G(r) : r \in Pids}
  BY <1>1 DEF Used
<1> HIDE DEF H, G
<1>6. \A r \in Pids \ {p} : G(r) \intersect (A \ L) = {}
  BY <1>2
<1>7. \A r \in {0} \union Pids : free' \intersect G(r) = {}
  BY <1>3, <1>6
<1>8. \A r \in {0} \union Pids : \A s \in {0} \union Pids : r # s => G(r) \intersect G(s) = {}
  <2>1. \A r \in Pids \ {p} : G(0) \intersect G(r) = {} /\ G(p) \intersect G(r) = {}
    BY <1>3, <1>6
  <2>2. \A r, s \in Pids \ {p} : r # s => G(r) \intersect G(s) = {}
    BY <1>2, <1>4
  <2> QED
    BY <1>1, <1>3, <2>1, <2>2
<1>9. FramesApart'
  BY <1>1, <1>7, <1>8 DEF FramesApart, G
<1> DEFINE R == UNION {H(r) : r \in Pids \ {p}}
<1>10. Used = H(0) \union H(p) \union R
  BY <1>5
<1>11. Used' = G(0) \union G(p) \union R
  <2>1. R = UNION {G(r) : r \in Pids \ {p}}
    BY <1>2
  <2> QED
    BY <1>5, <2>1
<1>12. R \intersect A = {}
  BY <1>2
<1> HIDE DEF R
<1>13. L \subseteq free \union Used
  BY <1>3, <1>10
<1>14. free' \union Used' = (free \union Used) \ L
  BY <1>3, <1>10, <1>11, <1>12
<1> QED
  BY <1>9, <1>13, <1>14 DEF Loses

\* What operations on memory start from.
LEMMA MemoryApart ==
    ASSUME SpacesInv, NEW p \in Pids
    PROVE  /\ Apart(Memory(NoSpace)) /\ Known(Memory(NoSpace)) = free
           /\ Memory(NoSpace).free = free /\ Memory(NoSpace).space = NoSpace
           /\ p \in Standing =>
                /\ Apart(Memory(space[p])) /\ Whole(Memory(space[p]).space)
                /\ Known(Memory(space[p])) = free \union FramesOf(space[p])
                /\ Memory(space[p]).free = free /\ Memory(space[p]).space = space[p]
<1>1. SpacesType
  BY DEF SpacesInv
<1>2. NoSpace \in Spaces /\ FramesOf(NoSpace) = {} /\ OwnFrames(NoSpace)
  BY NoSpaceIs
<1>3. \A s \in Spaces : /\ Memory(s) \in Memories /\ Memory(s).free = free
                        /\ Memory(s).space = s /\ Known(Memory(s)) = free \union FramesOf(s)
  BY <1>1 DEF Memory, Memories, Known, SpacesType
<1>4. ASSUME p \in Standing
      PROVE  /\ space[p] \in Spaces /\ OwnFrames(space[p]) /\ Whole(space[p])
             /\ free \intersect FramesOf(space[p]) = {}
  <2>1. space[p] \in Spaces /\ OwnFrames(space[p]) /\ Whole(space[p])
    BY <1>1, <1>4 DEF SpacesType, SpacesInv, ProcessesWhole
  <2>2. FramesOf(space[p]) \subseteq Holds(p)
    BY <1>4, HoldsAre DEF Standing
  <2>3. free \intersect Holds(p) = {}
    BY Holders DEF SpacesInv, FramesApart
  <2> QED
    BY <2>1, <2>2, <2>3
<1>5. /\ Apart(Memory(NoSpace)) /\ Known(Memory(NoSpace)) = free
      /\ Memory(NoSpace).free = free /\ Memory(NoSpace).space = NoSpace
  BY <1>2, <1>3 DEF Apart
<1>6. ASSUME p \in Standing
      PROVE  /\ Apart(Memory(space[p])) /\ Whole(Memory(space[p]).space)
             /\ Known(Memory(space[p])) = free \union FramesOf(space[p])
             /\ Memory(space[p]).free = free /\ Memory(space[p]).space = space[p]
  BY <1>3, <1>4, <1>6 DEF Apart
<1> QED
  BY <1>5, <1>6

\* The space of one process changes.
LEMMA SpaceChanges ==
    ASSUME SpacesInv, NEW p \in Pids, p \in Standing, NEW m, Apart(m), Took(m),
           m.space # NoSpace, space' = [space EXCEPT ![p] = m.space],
           UNCHANGED <<kernel_stack, fresh>>,
           NEW L, L \subseteq free \union FramesOf(space[p]),
           Known(m) = (free \union FramesOf(space[p])) \ L
    PROVE  /\ FramesApart' /\ Loses(L)
           /\ free' \in SUBSET Frames /\ last_allocated' \in Nat /\ space' \in [Pids -> Spaces]
           /\ space'[p] = m.space /\ OwnFrames(space'[p])
           /\ kernel_stack'[p] \notin FramesOf(space'[p])
           /\ \A r \in Pids \ {p} : space'[r] = space[r]
<1>1. SpacesType
  BY DEF SpacesInv
<1>2. m.free \in SUBSET Frames /\ m.last \in Nat /\ m.space \in Spaces
  BY MemoryIs DEF Apart
<1>3. /\ free' \in SUBSET Frames /\ last_allocated' \in Nat /\ space' \in [Pids -> Spaces]
      /\ space'[p] = m.space /\ \A r \in Pids \ {p} : space'[r] = space[r]
  BY <1>1, <1>2 DEF Took, SpacesType
<1>4. /\ OwnFrames(m.space) /\ m.free \intersect FramesOf(m.space) = {}
      /\ m.free \union FramesOf(m.space) = (free \union FramesOf(space[p])) \ L
  BY DEF Apart, Known
<1> DEFINE k == kernel_stack[p]
           S == FramesOf(space[p])
           T == FramesOf(m.space)
<1>5. k \notin S
  BY DEF SpacesInv, ProcessesWhole
<1>6. Holds(p) = S \union {k} /\ Holds(p)' = T \union {k} /\ Holds(0)' = Holds(0)
      /\ \A r \in Pids \ {p} : Holds(r)' = Holds(r)
  BY <1>3, HoldsAre DEF Standing
<1>7. free \intersect Holds(p) = {} /\ free \intersect Holds(0) = {} /\ Holds(0) \intersect Holds(p) = {}
  BY Holders DEF SpacesInv, FramesApart
<1>8. free' = m.free
  BY DEF Took
<1> HIDE DEF k, S, T
<1>9. m.free \intersect T = {} /\ m.free \union T = (free \union S) \ L /\ L \subseteq free \union S
  BY <1>4 DEF S, T
<1>10. k \notin T /\ k \notin m.free /\ k \notin L
  BY <1>5, <1>6, <1>7, <1>9
<1>11. Accounts(p, L)
  <2>1. L \subseteq free \union Holds(0) \union Holds(p)
    BY <1>6, <1>9
  <2>2. free' \union Holds(0)' \union Holds(p)' = (free \union Holds(0) \union Holds(p)) \ L
    BY <1>6, <1>7, <1>8, <1>9, <1>10
  <2>3. free' \intersect Holds(0)' = {} /\ free' \intersect Holds(p)' = {}
        /\ Holds(0)' \intersect Holds(p)' = {}
    BY <1>6, <1>7, <1>8, <1>9, <1>10
  <2> QED
    BY <1>6, <2>1, <2>2, <2>3 DEF Accounts
<1>12. FramesApart' /\ Loses(L)
  BY <1>11, Accounted DEF SpacesInv
<1>13. kernel_stack'[p] \notin FramesOf(space'[p])
  BY <1>3, <1>10 DEF k, T
<1> QED
  BY <1>3, <1>4, <1>12, <1>13

-----------------------------------------------------------------------------
(* The steps keep the invariant and lose no frames but some.               *)

\* Page numbers one after the other.
LEMMA UserSets ==
    ASSUME NEW a \in Nat, NEW b \in Nat, a <= b
    PROVE  /\ UserSet(0, a) \union UserSet(a, b) = UserSet(0, b)
           /\ UserSet(0, a) \intersect UserSet(a, b) = {}
           /\ StackPage \notin UserSet(0, b)
<1>1. 0 .. (b - 1) = (0 .. (a - 1)) \union (a .. (b - 1))
  OBVIOUS
<1>2. UserSet(0, a) \union UserSet(a, b) = UserSet(0, b)
  BY <1>1 DEF UserSet
<1>3. ASSUME NEW n \in 0 .. (a - 1), NEW k \in a .. (b - 1) PROVE UserPage(n) # UserPage(k)
  <2>1. n \in Nat /\ k \in Nat /\ n # k
    OBVIOUS
  <2> QED
    BY <2>1, UserPageIs
<1>4. UserSet(0, a) \intersect UserSet(a, b) = {}
  BY <1>3 DEF UserSet
<1>5. StackPage \notin UserSet(0, b)
  BY UserPageIs DEF UserSet
<1> QED
  BY <1>2, <1>4, <1>5

\* The pages of a process.
LEMMA UserPagesAre ==
    ASSUME NEW p
    PROVE  /\ image[p] \in Nat /\ heap[p] \in Nat =>
                UserPages(p) = UserSet(0, image[p] + heap[p]) \union {StackPage}
           /\ image'[p] \in Nat /\ heap'[p] \in Nat =>
                UserPages(p)' = UserSet(0, image'[p] + heap'[p]) \union {StackPage}
<1>1. \A a, b \in Nat : a + (b - 1) = (a + b) - 1
  OBVIOUS
<1> QED
  BY <1>1 DEF UserPages, UserSet, StackPage

\* A whole space has a root.
LEMMA RootIs ==
    ASSUME NEW s, Whole(s) PROVE <<>> \in DOMAIN s /\ s # NoSpace
<1>1. <<>> \in DOMAIN s
  BY DEF Whole, Closure
<1>2. DOMAIN NoSpace = {}
  BY DEF NoSpace
<1> QED
  BY <1>1, <1>2

\* A process that runs stands.
LEMMA RunsStands ==
    ASSUME SpacesInv, NEW p \in Pids, Runs(p)
    PROVE  /\ p \in Standing /\ stage = "none" /\ current = p /\ p # 0
           /\ PagesOf(space[p]) = UserPages(p) /\ cr3 = space[p][<<>>] /\ fresh = NoSpace
<1>1. p # 0
  BY Holders
<1> QED
  BY <1>1 DEF SpacesInv, ProcessesWhole, ExecWhole, RootLoaded, Runs

\* The heap of the process that runs changes.
LEMMA HeapChanges ==
    ASSUME SpacesInv, NEW p \in Pids, Runs(p), NEW m, Apart(m), Took(m), Whole(m.space),
           NEW h \in Nat, PagesOf(m.space) = UserSet(0, image[p] + h) \union {StackPage},
           m.space[<<>>] = space[p][<<>>],
           space' = [space EXCEPT ![p] = m.space], heap' = [heap EXCEPT ![p] = h],
           UNCHANGED <<kernel_stack, image, status, current, cr3, fresh, stage>>,
           NEW L, L \subseteq free \union FramesOf(space[p]),
           Known(m) = (free \union FramesOf(space[p])) \ L
    PROVE  SpacesInv' /\ Loses(L)
<1>1. /\ p \in Standing /\ stage = "none" /\ current = p /\ p # 0
      /\ PagesOf(space[p]) = UserPages(p) /\ cr3 = space[p][<<>>] /\ fresh = NoSpace
  BY RunsStands
<1>2. m.space # NoSpace
  BY RootIs
<1>3. /\ FramesApart' /\ Loses(L)
      /\ free' \in SUBSET Frames /\ last_allocated' \in Nat /\ space' \in [Pids -> Spaces]
      /\ space'[p] = m.space /\ OwnFrames(space'[p])
      /\ kernel_stack'[p] \notin FramesOf(space'[p])
      /\ \A r \in Pids \ {p} : space'[r] = space[r]
  BY <1>1, <1>2, SpaceChanges
<1>4. heap' \in [Pids -> Nat] /\ heap'[p] = h /\ \A r \in Pids \ {p} : heap'[r] = heap[r]
  BY DEF SpacesInv, SpacesType
<1>5. SpacesType'
  BY <1>3, <1>4 DEF SpacesInv, SpacesType
<1>6. ProcessesWhole'
  <2> SUFFICES ASSUME NEW r \in Pids
               PROVE  /\ r \in Standing' <=> status'[r] \in {"alive", "dead"}
                      /\ r \in Standing' =>
                           /\ Whole(space'[r]) /\ OwnFrames(space'[r])
                           /\ kernel_stack'[r] \in Frames \ FramesOf(space'[r])
                           /\ PagesOf(space'[r]) = UserPages(r)'
    BY DEF ProcessesWhole
  <2>1. CASE r = p
    <3>1. UserPages(p)' = UserSet(0, image[p] + h) \union {StackPage}
      <4>1. image'[p] = image[p] /\ image[p] \in Nat
        BY DEF SpacesInv, SpacesType
      <4> QED
        BY <1>4, <4>1, UserPagesAre
    <3>2. p \in Standing' /\ status'[p] \in {"alive", "dead"}
      BY <1>1, <1>2, <1>3 DEF Standing, SpacesInv, ProcessesWhole
    <3>3. kernel_stack'[p] \in Frames
      BY <1>1 DEF SpacesInv, ProcessesWhole
    <3> QED
      BY <1>3, <2>1, <3>1, <3>2, <3>3
  <2>2. CASE r # p
    <3>1. space'[r] = space[r] /\ UserPages(r)' = UserPages(r)
      BY <1>3, <1>4, <2>2 DEF UserPages
    <3>2. r \in Standing' <=> r \in Standing
      BY <3>1 DEF Standing
    <3> QED
      BY <1>1, <3>1, <3>2 DEF SpacesInv, ProcessesWhole
  <2> QED
    BY <2>1, <2>2
<1>7. ExecWhole'
  BY <1>1 DEF SpacesInv, ExecWhole
<1>8. RootLoaded'
  BY <1>1, <1>3 DEF SpacesInv, RootLoaded
<1> QED
  BY <1>3, <1>5, <1>6, <1>7, <1>8 DEF SpacesInv

\* extend loses nothing.
LEMMA ExtendKeeps ==
    ASSUME SpacesInv, NEW p \in Pids, NEW count \in 1 .. 2, extend(p, count)
    PROVE  SpacesInv' /\ Loses({})
<1> DEFINE a == image[p] + heap[p]
           pages == Pages(a, a + count)
           m == Memory(space[p])
           n == MapPages(m, pages)
           S == UserSet(a, a + count)
<1>1. /\ Runs(p) /\ Cardinality(free) >= 4 * count
      /\ Took(n) /\ space' = [space EXCEPT ![p] = n.space]
      /\ heap' = [heap EXCEPT ![p] = heap[p] + count]
      /\ UNCHANGED <<kernel_stack, image, status, current, cr3, fresh, stage>>
  BY DEF extend, Calls, Enough
<1>2. image[p] \in Nat /\ heap[p] \in Nat /\ heap[p] + count \in Nat
  BY DEF SpacesInv, SpacesType
<1>3. a \in Nat /\ a + count \in Nat /\ a <= a + count /\ (a + count) - a = count
      /\ a + count = image[p] + (heap[p] + count)
  BY <1>2
<1>4. /\ p \in Standing /\ PagesOf(space[p]) = UserPages(p)
  BY <1>1, RunsStands
<1>5. /\ Apart(m) /\ Whole(m.space) /\ Known(m) = free \union FramesOf(space[p])
      /\ m.free = free /\ m.space = space[p]
  BY <1>4, MemoryApart
<1> HIDE DEF m
<1>6. UserPages(p) = UserSet(0, a) \union {StackPage}
  BY <1>2, UserPagesAre
<1> HIDE DEF a
<1>7. Lists(pages, S) /\ Len(pages) = count
  BY <1>3, PagesList
<1>8. S \intersect PagesOf(m.space) = {}
      /\ PagesOf(m.space) \union S = UserSet(0, a + count) \union {StackPage}
  <2>1. /\ UserSet(0, a) \union S = UserSet(0, a + count)
        /\ UserSet(0, a) \intersect S = {} /\ StackPage \notin UserSet(0, a + count)
    BY <1>3, UserSets
  <2> HIDE DEF S
  <2> QED
    BY <1>4, <1>5, <1>6, <2>1
<1> HIDE DEF pages, S
<1>9. Turns(m, n, PagesOf(m.space) \union S)
  BY <1>1, <1>5, <1>7, <1>8, MapPagesTurns
<1> HIDE DEF n
<1>10. /\ Apart(n) /\ Whole(n.space) /\ PagesOf(n.space) = UserSet(0, a + count) \union {StackPage}
       /\ Known(n) = (free \union FramesOf(space[p])) \ {} /\ n.space[<<>>] = space[p][<<>>]
  BY <1>5, <1>8, <1>9 DEF Turns
<1>11. {} \subseteq free \union FramesOf(space[p])
  OBVIOUS
<1> DEFINE h == heap[p] + count
<1>12. h \in Nat /\ a + count = image[p] + h
  BY <1>2, <1>3
<1> HIDE DEF h
<1>13. heap' = [heap EXCEPT ![p] = h]
  BY <1>1 DEF h
<1> QED
  BY <1>1, <1>10, <1>11, <1>12, <1>13, HeapChanges

\* shorten loses the frames of the pages it unmaps, one for each.
LEMMA ShortenKeeps ==
    ASSUME SpacesInv, NEW p \in Pids, NEW count \in 1 .. 2, shorten(p, count)
    PROVE  SpacesInv' /\ \E L : Loses(L) /\ IsFiniteSet(L) /\ Cardinality(L) = count
<1> DEFINE a == image[p] + heap[p] - count
           b == image[p] + heap[p]
           pages == Pages(a, b)
           m == Memory(space[p])
           n == UnmapPages(m, pages)
           S == UserSet(a, b)
           h == heap[p] - count
           L == FramesAt(m, S)
<1>1. /\ Runs(p) /\ heap[p] - count >= 0
      /\ Took(n) /\ space' = [space EXCEPT ![p] = n.space]
      /\ heap' = [heap EXCEPT ![p] = h]
      /\ UNCHANGED <<kernel_stack, image, status, current, cr3, fresh, stage>>
  BY DEF shorten, Calls
<1>2. image[p] \in Nat /\ heap[p] \in Nat
  BY DEF SpacesInv, SpacesType
<1>3. h \in Nat /\ a \in Nat /\ b \in Nat /\ a <= b /\ b - a = count /\ a = image[p] + h
  BY <1>1, <1>2
<1>4. p \in Standing /\ PagesOf(space[p]) = UserPages(p)
  BY <1>1, RunsStands
<1>5. /\ Apart(m) /\ Whole(m.space) /\ Known(m) = free \union FramesOf(space[p])
      /\ m.free = free /\ m.space = space[p]
  BY <1>4, MemoryApart
<1> HIDE DEF m
<1>6. UserPages(p) = UserSet(0, b) \union {StackPage}
  BY <1>2, UserPagesAre
<1> HIDE DEF a, b, h
<1>7. Lists(pages, S) /\ Len(pages) = count
  BY <1>3, PagesList
<1>8. S \subseteq PagesOf(m.space) /\ PagesOf(m.space) \ S = UserSet(0, a) \union {StackPage}
  <2>1. /\ UserSet(0, a) \union S = UserSet(0, b)
        /\ UserSet(0, a) \intersect S = {} /\ StackPage \notin UserSet(0, b)
    BY <1>3, UserSets
  <2> HIDE DEF S
  <2> QED
    BY <1>4, <1>5, <1>6, <2>1
<1> HIDE DEF pages, S
<1>9. /\ Apart(n) /\ Whole(n.space) /\ PagesOf(n.space) = PagesOf(m.space) \ S
      /\ Known(n) = Known(m) \ L /\ n.space[<<>>] = m.space[<<>>]
      /\ L \subseteq FramesOf(m.space)
      /\ IsFiniteSet(L) /\ Cardinality(L) = Len(pages)
  BY <1>5, <1>7, <1>8, UnmapPagesTurns
<1> HIDE DEF n, L
<1>10. /\ PagesOf(n.space) = UserSet(0, image[p] + h) \union {StackPage}
       /\ Known(n) = (free \union FramesOf(space[p])) \ L /\ n.space[<<>>] = space[p][<<>>]
       /\ L \subseteq free \union FramesOf(space[p])
  BY <1>3, <1>5, <1>8, <1>9
<1>11. SpacesInv' /\ Loses(L)
  BY <1>1, <1>3, <1>9, <1>10, HeapChanges
<1> QED
  BY <1>7, <1>9, <1>11

\* Processes that a step leaves alone stay whole.
LEMMA OthersWhole ==
    ASSUME SpacesInv, NEW r \in Pids, stage = "none" \/ r # current,
           space'[r] = space[r], kernel_stack'[r] = kernel_stack[r], image'[r] = image[r],
           heap'[r] = heap[r],
           status'[r] \in {"alive", "dead"} <=> status[r] \in {"alive", "dead"}
    PROVE  /\ r \in Standing' <=> status'[r] \in {"alive", "dead"}
           /\ r \in Standing' =>
                /\ Whole(space'[r]) /\ OwnFrames(space'[r])
                /\ kernel_stack'[r] \in Frames \ FramesOf(space'[r])
                /\ PagesOf(space'[r]) = UserPages(r)'
<1>1. UserPages(r)' = UserPages(r)
  BY DEF UserPages
<1>2. r \in Standing' <=> r \in Standing
  BY DEF Standing
<1> QED
  BY <1>1, <1>2 DEF SpacesInv, ProcessesWhole

\* exec of what is no program loses the root.
LEMMA ExecFailsKeeps ==
    ASSUME SpacesInv, NEW p \in Pids, execFails(p)
    PROVE  SpacesInv' /\ \E f : Loses({f})
<1> DEFINE m == Memory(NoSpace)
           n == NewSpace(m)
           f == n.space[<<>>]
<1>1. /\ Runs(p) /\ Cardinality(free) >= 1 /\ Took(n)
      /\ UNCHANGED <<space, kernel_stack, image, heap, status, current, cr3, fresh, stage>>
  BY DEF execFails, Calls, Enough
<1>2. Apart(m) /\ m.free = free /\ m.space = NoSpace
  BY MemoryApart
<1>3. free # {}
  <2>1. Cardinality(free) # 0
    BY <1>1, FramesFinite DEF SpacesInv, SpacesType
  <2> QED
    BY <2>1, FS_EmptySet
<1> HIDE DEF m
<1>4. Apart(n) /\ f \in free /\ n.free = free \ {f}
  BY <1>2, <1>3, NewSpaceGives
<1>5. n.free \in SUBSET Frames /\ n.last \in Nat
  BY <1>4, MemoryIs DEF Apart
<1> HIDE DEF n, f
<1>6. free' = free \ {f} /\ last_allocated' = n.last
  BY <1>1, <1>4 DEF Took
<1>7. \A r \in 0 .. MaxPid : Holds(r)' = Holds(r)
  BY <1>1 DEF Holds, Standing
<1>8. 0 \in 0 .. MaxPid /\ \A r \in Pids : r \in 0 .. MaxPid /\ r # 0
  BY Holders
<1>9. Accounts(p, {f})
  BY <1>4, <1>6, <1>7, <1>8 DEF Accounts, SpacesInv, FramesApart
<1>10. FramesApart' /\ Loses({f})
  BY <1>9, Accounted DEF SpacesInv
<1>11. SpacesType'
  BY <1>1, <1>5, <1>6 DEF SpacesInv, SpacesType
<1>12. ProcessesWhole'
  BY <1>1 DEF SpacesInv, ProcessesWhole, Standing, UserPages
<1>13. ExecWhole'
  BY <1>1 DEF SpacesInv, ExecWhole
<1>14. RootLoaded'
  BY <1>1, <1>8 DEF SpacesInv, RootLoaded, Runs
<1> QED
  BY <1>10, <1>11, <1>12, <1>13, <1>14 DEF SpacesInv

\* exec fills a space of its own with the image.
LEMMA ExecLoadsKeeps ==
    ASSUME SpacesInv, NEW p \in Pids, NEW size \in Images, execLoads(p, size)
    PROVE  SpacesInv' /\ Loses({})
<1> DEFINE o == Memory(NoSpace)
           m == NewSpace(o)
           pages == Pages(0, size)
           n == MapPages(m, pages)
<1>1. /\ Runs(p) /\ Cardinality(free) >= 4 * size + 1 /\ Took(n)
      /\ fresh' = n.space /\ image' = [image EXCEPT ![p] = size] /\ stage' = "loaded"
      /\ UNCHANGED <<space, kernel_stack, heap, status, current, cr3>>
  BY DEF execLoads, Calls, Enough
<1>2. Apart(o) /\ o.free = free /\ o.space = NoSpace
  BY MemoryApart
<1>3. size \in Nat /\ Cardinality(free) \in Nat
  BY SpacesAssumption, FramesFinite DEF SpacesInv, SpacesType
<1>4. free # {}
  <2>1. Cardinality(free) # 0
    BY <1>1, <1>3
  <2> QED
    BY <2>1, FS_EmptySet
<1> HIDE DEF o
<1>5. /\ Apart(m) /\ Known(m) = free /\ Whole(m.space) /\ PagesOf(m.space) = {}
      /\ Cardinality(m.free) = Cardinality(free) - 1
  BY <1>2, <1>4, NewSpaceGives
<1> HIDE DEF m
<1>6. Lists(pages, UserSet(0, size)) /\ Len(pages) = size
  <2>1. Len(pages) = size - 0 /\ Lists(pages, UserSet(0, size))
    BY <1>3, PagesList
  <2> QED
    BY <1>3, <2>1
<1> HIDE DEF pages
<1>7. Turns(m, n, UserSet(0, size))
  <2>1. Cardinality(m.free) >= 4 * Len(pages)
    BY <1>1, <1>3, <1>5, <1>6
  <2>2. Turns(m, n, PagesOf(m.space) \union UserSet(0, size))
    BY <1>5, <1>6, <2>1, MapPagesTurns
  <2>3. PagesOf(m.space) \union UserSet(0, size) = UserSet(0, size)
    BY <1>5
  <2> QED
    BY <2>2, <2>3
<1> HIDE DEF n
<1>8. /\ Apart(n) /\ Known(n) = free /\ Whole(n.space) /\ PagesOf(n.space) = UserSet(0, size)
  BY <1>5, <1>7 DEF Turns
<1>9. /\ n.free \in SUBSET Frames /\ n.last \in Nat /\ n.space \in Spaces /\ OwnFrames(n.space)
      /\ n.free \intersect FramesOf(n.space) = {} /\ n.free \union FramesOf(n.space) = free
  BY <1>8, MemoryIs DEF Apart, Known
<1>10. free' = n.free /\ last_allocated' = n.last
  BY <1>1 DEF Took
<1>11. /\ p \in Standing /\ stage = "none" /\ current = p /\ p # 0 /\ fresh = NoSpace
       /\ cr3 = space[p][<<>>]
  BY <1>1, RunsStands
<1>12. /\ Holds(0) = {} /\ Holds(0)' = FramesOf(n.space)
       /\ \A r \in Pids : Holds(r)' = Holds(r)
  <2>1. FramesOf(NoSpace) = {}
    BY NoSpaceIs
  <2> QED
    BY <1>1, <1>11, <2>1, HoldsAre
<1>13. free \intersect Holds(p) = {}
  BY Holders DEF SpacesInv, FramesApart
<1>14. Accounts(p, {})
  BY <1>9, <1>10, <1>12, <1>13 DEF Accounts
<1>15. FramesApart' /\ Loses({})
  BY <1>14, Accounted DEF SpacesInv
<1>16. image' \in [Pids -> Nat] /\ image'[p] = size /\ \A r \in Pids \ {p} : image'[r] = image[r]
  BY <1>1, <1>3 DEF SpacesInv, SpacesType
<1>17. SpacesType'
  BY <1>1, <1>9, <1>10, <1>16 DEF SpacesInv, SpacesType
<1>18. ProcessesWhole'
  <2> SUFFICES ASSUME NEW r \in Pids
               PROVE  /\ r \in Standing' <=> status'[r] \in {"alive", "dead"}
                      /\ r \in Standing' =>
                           /\ Whole(space'[r]) /\ OwnFrames(space'[r])
                           /\ kernel_stack'[r] \in Frames \ FramesOf(space'[r])
                           /\ r # p => PagesOf(space'[r]) = UserPages(r)'
    BY <1>1, <1>11 DEF ProcessesWhole
  <2>1. CASE r = p
    BY <1>1, <2>1 DEF SpacesInv, ProcessesWhole, Standing
  <2>2. CASE r # p
    BY <1>1, <1>11, <1>16, <2>2, OthersWhole
  <2> QED
    BY <2>1, <2>2
<1>19. ExecWhole'
  BY <1>1, <1>8, <1>9, <1>11, <1>16 DEF ExecWhole, Runs
<1>20. RootLoaded'
  BY <1>1, <1>11 DEF SpacesInv, RootLoaded
<1> QED
  BY <1>15, <1>17, <1>18, <1>19, <1>20 DEF SpacesInv

\* fork gives the child frames of its own for all that the parent has.
LEMMA ForksKeeps ==
    ASSUME SpacesInv, NEW p \in Pids, forks(p)
    PROVE  SpacesInv' /\ Loses({})
<1> DEFINE o == Memory(NoSpace)
           s == space[p]
           m == ptDeepCopy(o, s)
           t == Taken(m)
           k == t.last
<1>1. Unborn # {}
  BY DEF forks
<1>2. PICK c \in Pids : c = Least(Unborn) /\ status[c] = "unborn"
  <2>1. Pids \subseteq Nat
    BY SpacesAssumption DEF Pids
  <2>2. Unborn \subseteq Nat
    BY <2>1 DEF Unborn
  <2>3. Least(Unborn) \in Unborn
    BY <1>1, <2>2, LeastMember
  <2> QED
    BY <2>3 DEF Unborn
<1>3. /\ Runs(p) /\ Cardinality(free) >= Cardinality(DOMAIN s) + 1
      /\ Took(t) /\ space' = [space EXCEPT ![c] = m.space]
      /\ kernel_stack' = [kernel_stack EXCEPT ![c] = k]
      /\ image' = [image EXCEPT ![c] = image[p]] /\ heap' = [heap EXCEPT ![c] = heap[p]]
      /\ status' = [status EXCEPT ![c] = "alive"]
      /\ UNCHANGED <<current, cr3, fresh, stage>>
  BY <1>2 DEF forks, Calls, Enough
<1>4. /\ p \in Standing /\ stage = "none" /\ current = p /\ p # 0
      /\ PagesOf(s) = UserPages(p) /\ cr3 = s[<<>>] /\ fresh = NoSpace
  BY <1>3, RunsStands
<1>5. c # p /\ space[c] = NoSpace
  BY <1>3, <1>2 DEF Runs, SpacesInv, ProcessesWhole, Standing
<1>6. Apart(o) /\ Known(o) = free /\ o.free = free /\ o.space = NoSpace
  BY MemoryApart
<1>7. s \in Spaces /\ OwnFrames(s) /\ Whole(s)
  BY <1>4 DEF SpacesInv, SpacesType, ProcessesWhole
<1>8. Cardinality(DOMAIN s) \in Nat /\ Cardinality(free) \in Nat
  BY <1>7, SpaceFinite, FramesFinite DEF SpacesInv, SpacesType
<1> HIDE DEF o
<1>9. Grows(o, m, DOMAIN s, Cardinality(DOMAIN s))
  <2>1. Cardinality(o.free) >= Cardinality(DOMAIN s)
    BY <1>3, <1>6, <1>8
  <2> HIDE DEF s
  <2> QED
    BY <1>6, <1>7, <2>1, DeepCopyGrows
<1> HIDE DEF m
<1>10. Apart(m) /\ Known(m) = free /\ DOMAIN m.space = DOMAIN s
  <2>1. DOMAIN NoSpace = {}
    BY DEF NoSpace
  <2> QED
    BY <1>6, <1>9, <2>1 DEF Grows
<1>11. m.free # {}
  <2>1. Cardinality(m.free) >= Cardinality(free) - Cardinality(DOMAIN s)
    BY <1>6, <1>9 DEF Grows
  <2>2. Cardinality(m.free) \in Nat
    BY <1>10, MemoryIs, FramesFinite DEF Apart
  <2>3. Cardinality(m.free) # 0
    BY <1>3, <1>8, <2>1, <2>2
  <2> QED
    BY <2>3, FS_EmptySet
<1>12. /\ Apart(t) /\ k \in Frames \ Known(t) /\ free = Known(t) \union {k} /\ t.space = m.space
  BY <1>10, <1>11, TakenApart
<1>13. /\ t.free \in SUBSET Frames /\ t.last \in Nat /\ m.space \in Spaces
       /\ OwnFrames(m.space) /\ t.free \intersect FramesOf(m.space) = {}
       /\ k \notin FramesOf(m.space) /\ k \notin t.free /\ k \in Frames
       /\ free = t.free \union FramesOf(m.space) \union {k}
  BY <1>12, MemoryIs DEF Apart, Known
<1>14. Whole(m.space) /\ PagesOf(m.space) = UserPages(p)
  BY <1>4, <1>7, <1>10 DEF Whole, PagesOf
<1>15. m.space # NoSpace
  BY <1>14, RootIs
<1>16. free' = t.free /\ last_allocated' = t.last
  BY <1>3 DEF Took
<1> HIDE DEF s, t, k
<1>17. /\ space' \in [Pids -> Spaces] /\ space'[c] = m.space
       /\ \A r \in Pids \ {c} : space'[r] = space[r]
  BY <1>3, <1>2, <1>13 DEF SpacesInv, SpacesType
<1>18. /\ kernel_stack' \in [Pids -> Frames \union {None}] /\ kernel_stack'[c] = k
       /\ \A r \in Pids \ {c} : kernel_stack'[r] = kernel_stack[r]
  BY <1>3, <1>2, <1>13 DEF SpacesInv, SpacesType
<1>19. /\ image' \in [Pids -> Nat] /\ image'[c] = image[p] /\ heap' \in [Pids -> Nat] /\ heap'[c] = heap[p]
       /\ \A r \in Pids \ {c} : image'[r] = image[r] /\ heap'[r] = heap[r]
  BY <1>3, <1>2 DEF SpacesInv, SpacesType
<1>20. /\ status' \in [Pids -> {"unborn", "alive", "dead", "buried"}] /\ status'[c] = "alive"
       /\ \A r \in Pids \ {c} : status'[r] = status[r]
  BY <1>3, <1>2 DEF SpacesInv, SpacesType
<1>21. /\ Holds(0) = {} /\ Holds(0)' = {} /\ Holds(c) = {}
       /\ Holds(c)' = FramesOf(m.space) \union {k} /\ \A r \in Pids \ {c} : Holds(r)' = Holds(r)
  <2>1. FramesOf(NoSpace) = {}
    BY NoSpaceIs
  <2>2. Holds(0) = {} /\ Holds(0)' = {}
    BY <1>3, <1>4, <2>1, HoldsAre
  <2>3. Holds(c) = {} /\ Holds(c)' = FramesOf(m.space) \union {k}
    BY <1>5, <1>15, <1>17, <1>18, HoldsAre
  <2>4. \A r \in Pids \ {c} : Holds(r)' = Holds(r)
    BY <1>17, <1>18, HoldsAre
  <2> QED
    BY <2>2, <2>3, <2>4
<1>22. Accounts(c, {})
  BY <1>13, <1>16, <1>21 DEF Accounts
<1>23. FramesApart' /\ Loses({})
  BY <1>2, <1>22, Accounted DEF SpacesInv
<1>24. SpacesType'
  BY <1>3, <1>13, <1>16, <1>17, <1>18, <1>19, <1>20 DEF SpacesInv, SpacesType
<1>25. ProcessesWhole'
  <2> SUFFICES ASSUME NEW r \in Pids
               PROVE  /\ r \in Standing' <=> status'[r] \in {"alive", "dead"}
                      /\ r \in Standing' =>
                           /\ Whole(space'[r]) /\ OwnFrames(space'[r])
                           /\ kernel_stack'[r] \in Frames \ FramesOf(space'[r])
                           /\ PagesOf(space'[r]) = UserPages(r)'
    BY DEF ProcessesWhole
  <2>1. CASE r = c
    <3>1. UserPages(c)' = UserPages(p)
      BY <1>19 DEF UserPages
    <3>2. c \in Standing'
      BY <1>2, <1>15, <1>17 DEF Standing
    <3> QED
      BY <1>13, <1>14, <1>17, <1>18, <1>20, <2>1, <3>1, <3>2
  <2>2. CASE r # c
    BY <1>4, <1>17, <1>18, <1>19, <1>20, <2>2, OthersWhole
  <2> QED
    BY <2>1, <2>2
<1>26. ExecWhole'
  BY <1>3, <1>4 DEF SpacesInv, ExecWhole
<1>27. RootLoaded'
  BY <1>3, <1>4, <1>5, <1>17, <1>20 DEF SpacesInv, RootLoaded, s, Runs
<1> QED
  BY <1>23, <1>24, <1>25, <1>26, <1>27 DEF SpacesInv

\* switchPml4t gives the old space back and puts the new one in its place.
LEMMA SwitchKeeps ==
    ASSUME SpacesInv, NEW p \in Pids, switchPml4t(p)
    PROVE  SpacesInv' /\ Loses({})
<1> DEFINE S == FramesOf(space[p])
           T == FramesOf(fresh)
           k == kernel_stack[p]
<1>1. /\ stage = "loaded" /\ current = p /\ Took(destroy(Memory(space[p])))
      /\ space' = [space EXCEPT ![p] = fresh] /\ fresh' = NoSpace
      /\ heap' = [heap EXCEPT ![p] = 0] /\ stage' = "switched"
      /\ UNCHANGED <<kernel_stack, image, status, current, cr3, calls>>
  BY DEF switchPml4t
<1>2. free' = free \union S /\ last_allocated' = last_allocated
  BY <1>1 DEF Took, destroy, Memory
<1>3. /\ status[p] = "alive" /\ Whole(fresh) /\ OwnFrames(fresh)
      /\ PagesOf(fresh) = UserSet(0, image[p]) /\ p # 0
  BY <1>1, Holders DEF SpacesInv, ExecWhole
<1>4. p \in Standing /\ k \in Frames \ S
  BY <1>3 DEF SpacesInv, ProcessesWhole
<1>5. fresh # NoSpace
  BY <1>3, RootIs
<1>6. /\ space' \in [Pids -> Spaces] /\ space'[p] = fresh
      /\ \A r \in Pids \ {p} : space'[r] = space[r]
  BY <1>1 DEF SpacesInv, SpacesType
<1>7. /\ heap' \in [Pids -> Nat] /\ heap'[p] = 0 /\ \A r \in Pids \ {p} : heap'[r] = heap[r]
  BY <1>1 DEF SpacesInv, SpacesType
<1>8. NoSpace \in Spaces /\ OwnFrames(NoSpace) /\ FramesOf(NoSpace) = {}
  BY NoSpaceIs
<1>9. /\ Holds(0) = T /\ Holds(0)' = {} /\ Holds(p) = S \union {k} /\ Holds(p)' = T \union {k}
      /\ \A r \in Pids \ {p} : Holds(r)' = Holds(r)
  BY <1>1, <1>4, <1>5, <1>6, <1>8, HoldsAre DEF Standing
<1>10. /\ free \intersect Holds(p) = {} /\ free \intersect Holds(0) = {}
       /\ Holds(0) \intersect Holds(p) = {}
  BY Holders DEF SpacesInv, FramesApart
<1>11. S \subseteq Frames
  BY SpaceIs DEF SpacesInv, SpacesType
<1> HIDE DEF S, T, k
<1>12. Accounts(p, {})
  BY <1>2, <1>4, <1>9, <1>10 DEF Accounts
<1>13. FramesApart' /\ Loses({})
  BY <1>12, Accounted DEF SpacesInv
<1>14. SpacesType'
  BY <1>1, <1>2, <1>6, <1>7, <1>8, <1>11 DEF SpacesInv, SpacesType
<1>15. ProcessesWhole'
  <2> SUFFICES ASSUME NEW r \in Pids
               PROVE  /\ r \in Standing' <=> status'[r] \in {"alive", "dead"}
                      /\ r \in Standing' =>
                           /\ Whole(space'[r]) /\ OwnFrames(space'[r])
                           /\ kernel_stack'[r] \in Frames \ FramesOf(space'[r])
                           /\ r # p => PagesOf(space'[r]) = UserPages(r)'
    BY <1>1 DEF ProcessesWhole
  <2>1. CASE r = p
    <3>1. p \in Standing' /\ status'[p] = "alive"
      BY <1>1, <1>3, <1>5, <1>6 DEF Standing
    <3>2. kernel_stack'[p] \in Frames \ FramesOf(space'[p])
      <4>1. k \notin T
        BY <1>9, <1>10
      <4> QED
        BY <1>1, <1>4, <1>6, <4>1 DEF k, T
    <3> QED
      BY <1>3, <1>6, <2>1, <3>1, <3>2
  <2>2. CASE r # p
    BY <1>1, <1>6, <1>7, <2>2, OthersWhole
  <2> QED
    BY <2>1, <2>2
<1>16. ExecWhole'
  BY <1>1, <1>3, <1>6, <1>7, <1>8 DEF ExecWhole
<1>17. RootLoaded'
  BY <1>1, <1>3 DEF SpacesInv, RootLoaded
<1> QED
  BY <1>13, <1>14, <1>15, <1>16, <1>17 DEF SpacesInv

\* execEnters makes the stack and loads the new root.
LEMMA ExecEntersKeeps ==
    ASSUME SpacesInv, NEW p \in Pids, execEnters(p)
    PROVE  SpacesInv' /\ Loses({})
<1> DEFINE m == Memory(space[p])
           n == MapPages(m, StackPages)
           S == UserSet(0, image[p])
<1>1. /\ stage = "switched" /\ current = p /\ Cardinality(free) >= 4
      /\ Took(n) /\ space' = [space EXCEPT ![p] = n.space] /\ cr3' = n.space[<<>>]
      /\ stage' = "none"
      /\ UNCHANGED <<kernel_stack, image, heap, status, current, fresh, calls>>
  BY DEF execEnters, Enough
<1>2. status[p] = "alive" /\ heap[p] = 0 /\ PagesOf(space[p]) = S /\ fresh = NoSpace
  BY <1>1 DEF SpacesInv, ExecWhole
<1>3. p \in Standing /\ kernel_stack[p] \in Frames
  BY <1>2 DEF SpacesInv, ProcessesWhole
<1>4. /\ Apart(m) /\ Whole(m.space) /\ Known(m) = free \union FramesOf(space[p])
      /\ m.free = free /\ m.space = space[p]
  BY <1>3, MemoryApart
<1>5. image[p] \in Nat /\ image[p] + heap[p] = image[p]
  BY <1>2 DEF SpacesInv, SpacesType
<1> HIDE DEF m
<1>6. UserPages(p)' = S \union {StackPage}
  <2>1. image'[p] \in Nat /\ heap'[p] \in Nat /\ image'[p] + heap'[p] = image[p]
    BY <1>1, <1>2, <1>5
  <2> QED
    BY <2>1, UserPagesAre
<1>7. {StackPage} \intersect PagesOf(m.space) = {}
  BY <1>2, <1>4, <1>5, UserSets
<1>8. Turns(m, n, S \union {StackPage})
  <2>1. Cardinality(m.free) >= 4 * Len(StackPages)
    <3>1. Len(StackPages) = 1
      BY StackList
    <3> QED
      BY <1>1, <1>4, <3>1
  <2> HIDE DEF S
  <2>2. Turns(m, n, PagesOf(m.space) \union {StackPage})
    BY <1>4, <1>7, <2>1, StackList, MapPagesTurns
  <2> QED
    BY <1>2, <1>4, <2>2
<1> HIDE DEF n, S
<1>9. /\ Apart(n) /\ Whole(n.space) /\ PagesOf(n.space) = S \union {StackPage}
      /\ Known(n) = (free \union FramesOf(space[p])) \ {}
  BY <1>4, <1>8 DEF Turns
<1>10. n.space # NoSpace
  BY <1>9, RootIs
<1>11. /\ FramesApart' /\ Loses({})
       /\ free' \in SUBSET Frames /\ last_allocated' \in Nat /\ space' \in [Pids -> Spaces]
       /\ space'[p] = n.space /\ OwnFrames(space'[p])
       /\ kernel_stack'[p] \notin FramesOf(space'[p])
       /\ \A r \in Pids \ {p} : space'[r] = space[r]
  <2> DEFINE L == {}
  <2>1. L \subseteq free \union FramesOf(space[p])
        /\ Known(n) = (free \union FramesOf(space[p])) \ L
    BY <1>9
  <2>2. UNCHANGED <<kernel_stack, fresh>>
    BY <1>1
  <2> HIDE DEF L
  <2>3. /\ FramesApart' /\ Loses(L)
        /\ free' \in SUBSET Frames /\ last_allocated' \in Nat /\ space' \in [Pids -> Spaces]
        /\ space'[p] = n.space /\ OwnFrames(space'[p])
        /\ kernel_stack'[p] \notin FramesOf(space'[p])
        /\ \A r \in Pids \ {p} : space'[r] = space[r]
    BY <1>1, <1>3, <1>9, <1>10, <2>1, <2>2, SpaceChanges
  <2> QED
    BY <2>3 DEF L
<1>12. SpacesType'
  BY <1>1, <1>11 DEF SpacesInv, SpacesType
<1>13. ProcessesWhole'
  <2> SUFFICES ASSUME NEW r \in Pids
               PROVE  /\ r \in Standing' <=> status'[r] \in {"alive", "dead"}
                      /\ r \in Standing' =>
                           /\ Whole(space'[r]) /\ OwnFrames(space'[r])
                           /\ kernel_stack'[r] \in Frames \ FramesOf(space'[r])
                           /\ PagesOf(space'[r]) = UserPages(r)'
    BY DEF ProcessesWhole
  <2>1. CASE r = p
    <3>1. p \in Standing' /\ status'[p] = "alive"
      BY <1>1, <1>2, <1>10, <1>11 DEF Standing
    <3> QED
      BY <1>1, <1>3, <1>6, <1>9, <1>11, <2>1, <3>1
  <2>2. CASE r # p
    BY <1>1, <1>11, <2>2, OthersWhole
  <2> QED
    BY <2>1, <2>2
<1>14. ExecWhole'
  BY <1>1, <1>2 DEF SpacesInv, ExecWhole
<1>15. RootLoaded'
  BY <1>1, <1>2, <1>11, Holders DEF RootLoaded
<1> QED
  BY <1>11, <1>12, <1>13, <1>14, <1>15 DEF SpacesInv

\* A context switch moves no frame.
LEMMA LoadKeeps ==
    ASSUME SpacesInv, NEW p \in Pids, loadPml4t(p)
    PROVE  SpacesInv' /\ Loses({})
<1>1. /\ stage = "none" /\ status[p] = "alive" /\ current' = p /\ cr3' = space[p][<<>>]
      /\ UNCHANGED <<free, space, kernel_stack, image, heap, status, fresh, stage>>
      /\ UNCHANGED last_allocated
  BY DEF loadPml4t
<1>2. p \in 0 .. MaxPid /\ p # 0
  BY Holders
<1>3. \A r \in 0 .. MaxPid : Holds(r)' = Holds(r)
  BY <1>1 DEF Holds, Standing
<1>4. FramesApart' /\ Loses({})
  BY <1>1, <1>3 DEF SpacesInv, FramesApart, Loses, Used
<1>5. SpacesType'
  BY <1>1, <1>2 DEF SpacesInv, SpacesType
<1>6. ProcessesWhole'
  BY <1>1 DEF SpacesInv, ProcessesWhole, Standing, UserPages
<1>7. ExecWhole'
  BY <1>1 DEF SpacesInv, ExecWhole
<1>8. RootLoaded'
  BY <1>1, <1>2 DEF RootLoaded
<1> QED
  BY <1>4, <1>5, <1>6, <1>7, <1>8 DEF SpacesInv

\* A process that dies keeps its frames until it is buried.
LEMMA DiesKeeps ==
    ASSUME SpacesInv, NEW p \in Pids, dies(p)
    PROVE  SpacesInv' /\ Loses({})
<1>1. /\ Runs(p) /\ status' = [status EXCEPT ![p] = "dead"]
      /\ UNCHANGED <<free, space, kernel_stack, image, heap, current, cr3, fresh, stage>>
      /\ UNCHANGED last_allocated
  BY DEF dies
<1>2. /\ stage = "none" /\ current = p /\ status[p] = "alive" /\ p # 0
  BY <1>1, Holders DEF Runs
<1>3. /\ status' \in [Pids -> {"unborn", "alive", "dead", "buried"}] /\ status'[p] = "dead"
      /\ \A r \in Pids \ {p} : status'[r] = status[r]
  BY <1>1 DEF SpacesInv, SpacesType
<1>4. \A r \in 0 .. MaxPid : Holds(r)' = Holds(r)
  BY <1>1 DEF Holds, Standing
<1>5. FramesApart' /\ Loses({})
  BY <1>1, <1>4 DEF SpacesInv, FramesApart, Loses, Used
<1>6. SpacesType'
  BY <1>1, <1>3 DEF SpacesInv, SpacesType
<1>7. ProcessesWhole'
  <2> SUFFICES ASSUME NEW r \in Pids
               PROVE  /\ r \in Standing' <=> status'[r] \in {"alive", "dead"}
                      /\ r \in Standing' =>
                           /\ Whole(space'[r]) /\ OwnFrames(space'[r])
                           /\ kernel_stack'[r] \in Frames \ FramesOf(space'[r])
                           /\ PagesOf(space'[r]) = UserPages(r)'
    BY DEF ProcessesWhole
  <2>1. status'[r] \in {"alive", "dead"} <=> status[r] \in {"alive", "dead"}
    BY <1>2, <1>3
  <2> QED
    BY <1>1, <1>2, <2>1, OthersWhole
<1>8. ExecWhole'
  BY <1>1, <1>2 DEF SpacesInv, ExecWhole
<1>9. RootLoaded'
  BY <1>1, <1>2, <1>3 DEF SpacesInv, RootLoaded
<1> QED
  BY <1>5, <1>6, <1>7, <1>8, <1>9 DEF SpacesInv

\* The undertaker gives the kernel stack back and loses the space, from which the CPU
\* may go on taking its tables.
LEMMA UndertakerKeeps ==
    ASSUME SpacesInv, NEW p \in Pids, undertaker(p)
    PROVE  SpacesInv' /\ Loses(FramesOf(space[p]))
<1> DEFINE S == FramesOf(space[p])
           k == kernel_stack[p]
<1>1. /\ status[p] = "dead" /\ stage = "none" /\ free' = free \union {k}
      /\ space' = [space EXCEPT ![p] = NoSpace]
      /\ kernel_stack' = [kernel_stack EXCEPT ![p] = None]
      /\ status' = [status EXCEPT ![p] = "buried"]
      /\ current' = IF current = p THEN 0 ELSE current
      /\ UNCHANGED <<last_allocated, image, heap, cr3, fresh, stage>>
  BY DEF undertaker
<1>2. /\ p \in Standing /\ k \in Frames \ S /\ Whole(space[p]) /\ fresh = NoSpace
  BY <1>1 DEF SpacesInv, ProcessesWhole, ExecWhole
<1>3. /\ 0 \in 0 .. MaxPid /\ p \in 0 .. MaxPid /\ p # 0
  BY Holders
<1>4. NoSpace \in Spaces /\ FramesOf(NoSpace) = {}
  BY NoSpaceIs
<1>5. /\ space' \in [Pids -> Spaces] /\ space'[p] = NoSpace
      /\ \A r \in Pids \ {p} : space'[r] = space[r]
  BY <1>1, <1>4 DEF SpacesInv, SpacesType
<1>6. /\ kernel_stack' \in [Pids -> Frames \union {None}]
      /\ \A r \in Pids \ {p} : kernel_stack'[r] = kernel_stack[r]
  BY <1>1 DEF SpacesInv, SpacesType
<1>7. /\ status' \in [Pids -> {"unborn", "alive", "dead", "buried"}] /\ status'[p] = "buried"
      /\ \A r \in Pids \ {p} : status'[r] = status[r]
  BY <1>1 DEF SpacesInv, SpacesType
<1>8. /\ Holds(0) = {} /\ Holds(0)' = {} /\ Holds(p) = S \union {k} /\ Holds(p)' = {}
      /\ \A r \in Pids \ {p} : Holds(r)' = Holds(r)
  <2>1. Holds(0) = {} /\ Holds(0)' = {}
    BY <1>1, <1>2, <1>4, HoldsAre
  <2>2. Holds(p) = S \union {k} /\ Holds(p)' = {}
    BY <1>2, <1>5, HoldsAre DEF Standing
  <2>3. \A r \in Pids \ {p} : Holds(r)' = Holds(r)
    BY <1>5, <1>6, HoldsAre
  <2> QED
    BY <2>1, <2>2, <2>3
<1>9. free \intersect Holds(p) = {}
  BY <1>3 DEF SpacesInv, FramesApart
<1>10. current # 0 => cr3 = space[current][<<>>] /\ status[current] \in {"alive", "dead"}
  BY <1>1 DEF SpacesInv, RootLoaded
<1>11. current = p => cr3 \in S
  BY <1>2, <1>3, <1>10, RootIs DEF FramesOf
<1>12. S \subseteq Frames
  BY SpaceIs DEF SpacesInv, SpacesType
<1> HIDE DEF S, k
<1>13. Accounts(p, S)
  BY <1>1, <1>2, <1>8, <1>9 DEF Accounts
<1>14. FramesApart' /\ Loses(S)
  BY <1>13, Accounted DEF SpacesInv
<1>15. SpacesType'
  BY <1>1, <1>2, <1>3, <1>5, <1>6, <1>7 DEF SpacesInv, SpacesType
<1>16. ProcessesWhole'
  <2> SUFFICES ASSUME NEW r \in Pids
               PROVE  /\ r \in Standing' <=> status'[r] \in {"alive", "dead"}
                      /\ r \in Standing' =>
                           /\ Whole(space'[r]) /\ OwnFrames(space'[r])
                           /\ kernel_stack'[r] \in Frames \ FramesOf(space'[r])
                           /\ PagesOf(space'[r]) = UserPages(r)'
    BY DEF ProcessesWhole
  <2>1. CASE r = p
    BY <1>5, <1>7, <2>1 DEF Standing
  <2>2. CASE r # p
    BY <1>1, <1>5, <1>6, <1>7, <2>2, OthersWhole
  <2> QED
    BY <2>1, <2>2
<1>17. ExecWhole'
  BY <1>1, <1>2 DEF SpacesInv, ExecWhole
<1>18. RootLoaded'
  <2>1. CASE current = p
    <3>1. cr3' \notin free' \union Used'
      BY <1>1, <1>11, <1>14, <2>1 DEF Loses
    <3> QED
      BY <1>1, <2>1, <3>1 DEF RootLoaded
  <2>2. CASE current # p /\ current # 0
    <3>1. current \in Pids \ {p}
      BY <2>2, Holders DEF SpacesInv, SpacesType
    <3>2. space'[current] = space[current] /\ status'[current] = status[current]
      BY <1>5, <1>7, <3>1
    <3>3. current' = current /\ cr3' = cr3
      BY <1>1, <2>2
    <3> QED
      BY <1>10, <2>2, <3>2, <3>3 DEF RootLoaded
  <2>3. CASE current # p /\ current = 0
    <3>1. cr3 \notin free \union Used
      BY <2>3 DEF SpacesInv, RootLoaded
    <3>2. cr3' \notin free' \union Used'
      BY <1>1, <1>14, <3>1 DEF Loses
    <3>3. current' = 0
      BY <1>1, <2>3
    <3> QED
      BY <3>2, <3>3 DEF RootLoaded
  <2> QED
    BY <2>1, <2>2, <2>3
<1>19. SpacesInv' /\ Loses(S)
  BY <1>14, <1>15, <1>16, <1>17, <1>18 DEF SpacesInv
<1> QED
  BY <1>19 DEF S

-----------------------------------------------------------------------------
(* The invariant holds at the start and is kept.                           *)

\* The first process has its pages, and the allocator the rest.
LEMMA SpacesInitInv == ASSUME SpacesInit PROVE SpacesInv
<1> DEFINE o == [free |-> Frames, last |-> 0, space |-> NoSpace]
           r == NewSpace(o)
           List(size) == Pages(0, size) \o StackPages
           M(size) == MapPages(r, List(size))
<1>1. PICK size \in Images :
        /\ free = Taken(M(size)).free /\ last_allocated = Taken(M(size)).last
        /\ space = [p \in Pids |-> IF p = 1 THEN M(size).space ELSE NoSpace]
        /\ kernel_stack = [p \in Pids |-> IF p = 1 THEN Taken(M(size)).last ELSE None]
        /\ image = [p \in Pids |-> size] /\ heap = [p \in Pids |-> 0]
        /\ status = [p \in Pids |-> IF p = 1 THEN "alive" ELSE "unborn"]
        /\ current = 1 /\ cr3 = M(size).space[<<>>]
        /\ fresh = NoSpace /\ stage = "none"
  BY DEF SpacesInit
<1> DEFINE pages == List(size)
           m == M(size)
           t == Taken(m)
           k == t.last
           S == UserSet(0, size) \union {StackPage}
<1>2. size \in Nat /\ FrameCount \in Nat /\ FrameCount >= 4 * size + 6
      /\ 1 \in Pids /\ 1 \in 0 .. MaxPid /\ 0 .. MaxPid = {0} \union Pids /\ 0 \notin Pids
  BY SpacesAssumption DEF Pids
<1>3. NoSpace \in Spaces /\ FramesOf(NoSpace) = {} /\ OwnFrames(NoSpace)
  BY NoSpaceIs
<1>4. Apart(o) /\ o.free = Frames /\ o.space = NoSpace
  BY <1>3 DEF Apart, Memories
<1>5. Cardinality(Frames) = FrameCount
  BY <1>2, FS_Interval DEF Frames
<1> HIDE DEF o
<1>6. Frames # {}
  BY <1>2, <1>5, FS_EmptySet
<1>7. /\ Apart(r) /\ Whole(r.space) /\ PagesOf(r.space) = {}
      /\ Cardinality(r.free) = FrameCount - 1
  BY <1>4, <1>5, <1>6, NewSpaceGives
<1> HIDE DEF r, List
<1>8. Lists(pages, S) /\ Len(pages) = size + 1
  BY <1>2, StackList DEF List
<1> HIDE DEF pages
<1>9. Turns(r, m, S) /\ Cardinality(m.free) >= FrameCount - 1 - 4 * Len(pages)
  <2>1. Cardinality(r.free) >= 4 * Len(pages) /\ S \intersect PagesOf(r.space) = {}
    BY <1>2, <1>7, <1>8
  <2>2. m = MapPages(r, pages)
    BY DEF pages
  <2> HIDE DEF m, S
  <2>3. Turns(r, m, PagesOf(r.space) \union S)
        /\ Cardinality(m.free) >= Cardinality(r.free) - 4 * Len(pages)
    BY <1>7, <1>8, <2>1, <2>2, MapPagesTurns
  <2> QED
    BY <1>7, <2>3
<1> HIDE DEF M, S
<1>10. Apart(m) /\ Whole(m.space) /\ PagesOf(m.space) = S
  BY <1>9 DEF Turns
<1>11. m.free # {}
  <2>1. Cardinality(m.free) \in Nat
    BY <1>10, MemoryIs, FramesFinite DEF Apart
  <2>2. Cardinality(m.free) # 0
    BY <1>2, <1>8, <1>9, <2>1
  <2> QED
    BY <2>2, FS_EmptySet
<1>12. Apart(t) /\ k \in Frames \ Known(t) /\ t.space = m.space
  BY <1>10, <1>11, TakenApart
<1>13. /\ t.free \in SUBSET Frames /\ k \in Nat /\ m.space \in Spaces
       /\ OwnFrames(m.space) /\ t.free \intersect FramesOf(m.space) = {}
       /\ k \notin FramesOf(m.space) /\ k \notin t.free /\ k \in Frames
  BY <1>12, MemoryIs DEF Apart, Known
<1>14. m.space # NoSpace
  BY <1>10, RootIs
<1>15. /\ free = t.free /\ last_allocated = k
       /\ space = [p \in Pids |-> IF p = 1 THEN m.space ELSE NoSpace]
       /\ kernel_stack = [p \in Pids |-> IF p = 1 THEN k ELSE None]
       /\ cr3 = m.space[<<>>]
  BY <1>1
<1> HIDE DEF m, t, k
<1>16. SpacesType
  <2>1. space \in [Pids -> Spaces] /\ kernel_stack \in [Pids -> Frames \union {None}]
    BY <1>3, <1>13, <1>15
  <2>2. /\ image \in [Pids -> Nat] /\ heap \in [Pids -> Nat]
        /\ status \in [Pids -> {"unborn", "alive", "dead", "buried"}]
    BY <1>1, <1>2
  <2> QED
    BY <1>1, <1>2, <1>3, <1>13, <1>15, <2>1, <2>2 DEF SpacesType
<1>17. ProcessesWhole
  <2> SUFFICES ASSUME NEW p \in Pids
               PROVE  /\ p \in Standing <=> status[p] \in {"alive", "dead"}
                      /\ p \in Standing =>
                           /\ Whole(space[p]) /\ OwnFrames(space[p])
                           /\ kernel_stack[p] \in Frames \ FramesOf(space[p])
                           /\ PagesOf(space[p]) = UserPages(p)
    BY DEF ProcessesWhole
  <2>1. CASE p = 1
    <3>1. /\ space[p] = m.space /\ kernel_stack[p] = k /\ status[p] = "alive"
          /\ image[p] = size /\ heap[p] = 0
      BY <1>1, <1>15, <2>1
    <3>2. UserPages(p) = S
      <4>1. image[p] + heap[p] = size /\ image[p] \in Nat /\ heap[p] \in Nat
        BY <1>2, <3>1
      <4> QED
        BY <4>1, UserPagesAre DEF S
    <3>3. p \in Standing
      BY <1>14, <3>1 DEF Standing
    <3> QED
      BY <1>10, <1>13, <3>1, <3>2, <3>3
  <2>2. CASE p # 1
    <3>1. space[p] = NoSpace /\ status[p] = "unborn"
      BY <1>1, <1>15, <2>2
    <3> QED
      BY <3>1 DEF Standing
  <2> QED
    BY <2>1, <2>2
<1>18. ExecWhole
  BY <1>1, <1>3 DEF ExecWhole
<1>19. Holds(0) = {} /\ Holds(1) = FramesOf(m.space) \union {k} /\ \A p \in Pids \ {1} : Holds(p) = {}
  <2>1. Holds(0) = {}
    BY <1>1, <1>3 DEF Holds
  <2>2. Holds(1) = FramesOf(m.space) \union {k}
    BY <1>2, <1>14, <1>15, HoldsAre
  <2>3. \A p \in Pids \ {1} : Holds(p) = {}
    BY <1>15, HoldsAre
  <2> QED
    BY <2>1, <2>2, <2>3
<1>20. free \intersect Holds(1) = {}
  BY <1>13, <1>15, <1>19
<1>21. FramesApart
  <2>1. \A p \in 0 .. MaxPid : p # 1 => Holds(p) = {}
    BY <1>2, <1>19
  <2> QED
    BY <1>20, <2>1 DEF FramesApart
<1>22. RootLoaded
  BY <1>1, <1>2, <1>15 DEF RootLoaded
<1> QED
  BY <1>16, <1>17, <1>18, <1>21, <1>22 DEF SpacesInv

\* Nothing changes in a step that leaves the variables alone.
LEMMA StutterKeeps ==
    ASSUME SpacesInv, UNCHANGED spacesVars
    PROVE  SpacesInv' /\ Loses({})
<1>1. /\ UNCHANGED <<free, space, kernel_stack, image, heap, status, current, cr3, fresh, stage>>
      /\ UNCHANGED last_allocated
  BY DEF spacesVars
<1>2. \A r \in 0 .. MaxPid : Holds(r)' = Holds(r)
  BY <1>1 DEF Holds, Standing
<1>3. FramesApart' /\ Loses({})
  BY <1>1, <1>2 DEF SpacesInv, FramesApart, Loses, Used
<1>4. Used' = Used
  BY <1>2 DEF Used
<1>5. SpacesType'
  BY <1>1 DEF SpacesInv, SpacesType
<1>6. ProcessesWhole'
  BY <1>1 DEF SpacesInv, ProcessesWhole, Standing, UserPages
<1>7. ExecWhole'
  BY <1>1 DEF SpacesInv, ExecWhole
<1>8. RootLoaded'
  BY <1>1, <1>4 DEF SpacesInv, RootLoaded
<1> QED
  BY <1>3, <1>5, <1>6, <1>7, <1>8 DEF SpacesInv

\* The frames that are held are frames.
LEMMA UsedAre == ASSUME SpacesInv PROVE free \union Used \subseteq Frames
<1>1. SpacesType /\ ProcessesWhole
  BY DEF SpacesInv
<1>2. FramesOf(fresh) \subseteq Frames /\ \A p \in Pids : FramesOf(space[p]) \subseteq Frames
  BY <1>1, SpaceIs DEF SpacesType
<1>3. \A p \in Standing : p \in Pids /\ kernel_stack[p] \in Frames
  BY <1>1 DEF ProcessesWhole, Standing
<1>4. \A p \in 0 .. MaxPid : Holds(p) \subseteq Frames
  BY <1>2, <1>3 DEF Holds
<1> QED
  BY <1>1, <1>4 DEF Used, SpacesType

\* What is lost stays so, and L is added to it.
LEMMA LostIs ==
    ASSUME SpacesInv, SpacesInv', NEW L, Loses(L)
    PROVE  Lost \subseteq Lost' /\ Lost' \ Lost = L /\ (L = {} => Lost' = Lost)
<1>1. L \subseteq Frames /\ L \subseteq free \union Used
      /\ free' \union Used' = (free \union Used) \ L
  BY UsedAre DEF Loses
<1>2. Lost = Frames \ (free \union Used) /\ Lost' = Frames \ (free' \union Used')
  BY DEF Lost, Frames
<1> QED
  BY <1>1, <1>2

\* The invariant is inductive.
LEMMA SpacesNextInv == ASSUME SpacesInv, [SpacesNext]_spacesVars PROVE SpacesInv'
<1>1. CASE UNCHANGED spacesVars
  BY <1>1, StutterKeeps
<1>2. CASE SpacesNext
  <2>1. PICK p \in Pids :
          \/ forks(p) \/ execFails(p) \/ switchPml4t(p) \/ execEnters(p)
          \/ loadPml4t(p) \/ dies(p) \/ undertaker(p)
          \/ \E size \in Images : execLoads(p, size)
          \/ \E count \in 1 .. 2 : extend(p, count) \/ shorten(p, count)
    BY <1>2 DEF SpacesNext
  <2>2. CASE forks(p)
    BY <2>2, ForksKeeps
  <2>3. CASE execFails(p)
    BY <2>3, ExecFailsKeeps
  <2>4. CASE \E size \in Images : execLoads(p, size)
    BY <2>4, ExecLoadsKeeps
  <2>5. CASE switchPml4t(p)
    BY <2>5, SwitchKeeps
  <2>6. CASE execEnters(p)
    BY <2>6, ExecEntersKeeps
  <2>7. CASE \E count \in 1 .. 2 : extend(p, count) \/ shorten(p, count)
    BY <2>7, ExtendKeeps, ShortenKeeps
  <2>8. CASE loadPml4t(p)
    BY <2>8, LoadKeeps
  <2>9. CASE dies(p)
    BY <2>9, DiesKeeps
  <2>10. CASE undertaker(p)
    BY <2>10, UndertakerKeeps
  <2> QED
    BY <2>1, <2>2, <2>3, <2>4, <2>5, <2>6, <2>7, <2>8, <2>9, <2>10
<1> QED
  BY <1>1, <1>2

\* What a step may lose.
LostOnlyWhen ==
    /\ Lost \subseteq Lost'
    /\ \/ Lost' = Lost
       \/ \E p \in Pids : /\ status'[p] # status[p]
                          /\ Lost' \ Lost = FramesOf(space[p])
       \/ \E p \in Pids : Cardinality(Lost' \ Lost) = heap[p] - heap'[p] /\ stage' = "none"
       \/ Cardinality(Lost' \ Lost) = 1 /\ UNCHANGED <<space, kernel_stack, stage>>

\* Every step accounts for the frames it loses.
LEMMA SpacesNextLoses == ASSUME SpacesInv, SpacesInv', [SpacesNext]_spacesVars PROVE LostOnlyWhen
<1>1. ASSUME Loses({}) PROVE LostOnlyWhen
  BY <1>1, LostIs DEF LostOnlyWhen
<1>2. CASE UNCHANGED spacesVars
  BY <1>1, <1>2, StutterKeeps
<1>3. CASE SpacesNext
  <2>1. PICK p \in Pids :
          \/ forks(p) \/ execFails(p) \/ switchPml4t(p) \/ execEnters(p)
          \/ loadPml4t(p) \/ dies(p) \/ undertaker(p)
          \/ \E size \in Images : execLoads(p, size)
          \/ \E count \in 1 .. 2 : extend(p, count) \/ shorten(p, count)
    BY <1>3 DEF SpacesNext
  <2>2. CASE forks(p) \/ switchPml4t(p) \/ execEnters(p) \/ loadPml4t(p) \/ dies(p)
    BY <1>1, <2>2, ForksKeeps, SwitchKeeps, ExecEntersKeeps, LoadKeeps, DiesKeeps
  <2>3. CASE \E size \in Images : execLoads(p, size)
    BY <1>1, <2>3, ExecLoadsKeeps
  <2>4. CASE execFails(p)
    <3>1. PICK f : Loses({f})
      BY <2>4, ExecFailsKeeps
    <3>2. Lost \subseteq Lost' /\ Lost' \ Lost = {f}
      BY <3>1, LostIs
    <3>3. Cardinality(Lost' \ Lost) = 1
      BY <3>2, FS_Singleton
    <3>4. UNCHANGED <<space, kernel_stack, stage>>
      BY <2>4 DEF execFails
    <3> QED
      BY <3>2, <3>3, <3>4 DEF LostOnlyWhen
  <2>5. CASE \E count \in 1 .. 2 : extend(p, count)
    BY <1>1, <2>5, ExtendKeeps
  <2>6. CASE \E count \in 1 .. 2 : shorten(p, count)
    <3>1. PICK count \in 1 .. 2 : shorten(p, count)
      BY <2>6
    <3>2. PICK L : Loses(L) /\ Cardinality(L) = count
      BY <3>1, ShortenKeeps
    <3>3. Lost \subseteq Lost' /\ Cardinality(Lost' \ Lost) = count
      BY <3>2, LostIs
    <3>4. heap' = [heap EXCEPT ![p] = @ - count] /\ stage' = stage /\ stage = "none"
      BY <3>1 DEF shorten, Calls, Runs
    <3>5. heap[p] \in Nat /\ heap'[p] = heap[p] - count
      BY <3>4 DEF SpacesInv, SpacesType
    <3>6. heap[p] - heap'[p] = count
      BY <3>5
    <3> QED
      BY <3>3, <3>4, <3>6 DEF LostOnlyWhen
  <2>7. CASE undertaker(p)
    <3>1. Lost \subseteq Lost' /\ Lost' \ Lost = FramesOf(space[p])
      BY <2>7, UndertakerKeeps, LostIs
    <3>2. status[p] = "dead" /\ status' = [status EXCEPT ![p] = "buried"]
      BY <2>7 DEF undertaker
    <3>3. status'[p] # status[p]
      BY <3>2 DEF SpacesInv, SpacesType
    <3> QED
      BY <3>1, <3>3 DEF LostOnlyWhen
  <2> QED
    BY <2>1, <2>2, <2>3, <2>4, <2>5, <2>6, <2>7
<1> QED
  BY <1>2, <1>3

-----------------------------------------------------------------------------
(* What the invariant shows.                                               *)

\* A whole space has all that leads to its pages, and no table that leads nowhere.
LEMMA WholeShows ==
    ASSUME NEW s \in Spaces, Whole(s), NEW q \in DOMAIN s
    PROVE  /\ \A n \in 0 .. Len(q) : SubSeq(q, 1, n) \in DOMAIN s
           /\ Len(q) \in {0, 4} \/ Children(s, q) # {}
<1> DEFINE P == PagesOf(s)
<1>1. P \in SUBSET Leaves /\ DOMAIN s = Closure(P)
  BY PagesAre DEF Whole
<1> HIDE DEF P
<1>2. /\ q = <<>> \/ \E w \in P, n \in 1 .. 4 : q = SubSeq(w, 1, n) /\ Len(q) = n
      /\ \A w \in P, n \in 0 .. 4 : SubSeq(w, 1, n) \in DOMAIN s /\ Len(SubSeq(w, 1, n)) = n
  BY <1>1, ClosureIs
<1>3. CASE q = <<>>
  <2>1. Len(q) = 0 /\ 0 .. Len(q) = {0} /\ SubSeq(q, 1, 0) = <<>>
    BY <1>3
  <2> QED
    BY <1>3, <2>1
<1>4. CASE q # <<>>
  <2>1. PICK w \in P, n \in 1 .. 4 : q = SubSeq(w, 1, n) /\ Len(q) = n
    BY <1>2, <1>4
  <2>2. w \in Seq(Nat) /\ Len(w) = 4
    BY <1>1 DEF Leaves
  <2>3. \A i \in 0 .. n : SubSeq(q, 1, i) = SubSeq(w, 1, i) /\ i \in 0 .. 4
    BY <2>1, <2>2
  <2>4. \A i \in 0 .. Len(q) : SubSeq(q, 1, i) \in DOMAIN s
    BY <1>2, <2>1, <2>3
  <2>5. ASSUME n # 4 PROVE Children(s, q) # {}
    <3> DEFINE c == SubSeq(w, 1, n + 1)
    <3>1. n + 1 \in 0 .. 4 /\ n \in 0 .. 4
      BY <2>5
    <3>2. c \in DOMAIN s /\ Len(c) = Len(q) + 1
      BY <1>2, <2>1, <3>1
    <3>3. SubSeq(c, 1, n) = SubSeq(w, 1, n)
      BY <2>2, <3>1
    <3> HIDE DEF c
    <3>4. SubSeq(c, 1, Len(q)) = q
      BY <2>1, <3>3
    <3>5. c \in Children(s, q)
      BY <3>2, <3>4 DEF Children
    <3> QED
      BY <3>5
  <2> QED
    BY <2>1, <2>4, <2>5
<1> QED
  BY <1>3, <1>4

\* The invariant is what the run checks.
LEMMA SpacesInvShows == ASSUME SpacesInv PROVE SpacesWhole /\ LoadedTablesStand
<1>1. SpacesType /\ ProcessesWhole /\ ExecWhole /\ FramesApart /\ RootLoaded
  BY DEF SpacesInv
<1>2. 0 .. MaxPid = {0} \union Pids /\ 0 \notin Pids /\ 0 \in 0 .. MaxPid
  BY Holders
<1>3. ASSUME NEW p \in Standing
      PROVE  /\ stage = "none" \/ p # current
                  => {q \in DOMAIN space[p] : Len(q) = 4} = UserPages(p)
             /\ \A q \in DOMAIN space[p] :
                  /\ \A n \in 0 .. Len(q) : SubSeq(q, 1, n) \in DOMAIN space[p]
                  /\ Len(q) \in {0, 4} \/ Children(space[p], q) # {}
  <2>1. p \in Pids
    BY DEF Standing
  <2>2. /\ Whole(space[p]) /\ space[p] \in Spaces
        /\ stage = "none" \/ p # current => PagesOf(space[p]) = UserPages(p)
    BY <1>1, <2>1 DEF ProcessesWhole, SpacesType
  <2>3. \A q \in DOMAIN space[p] :
          /\ \A n \in 0 .. Len(q) : SubSeq(q, 1, n) \in DOMAIN space[p]
          /\ Len(q) \in {0, 4} \/ Children(space[p], q) # {}
    BY <2>2, WholeShows
  <2> QED
    BY <2>2, <2>3 DEF PagesOf
<1>4. free \intersect Used = {}
  BY <1>1 DEF FramesApart, Used
<1>5. ASSUME NEW p \in 0 .. MaxPid PROVE Cardinality(Holds(p)) = Uses(p)
  <2>1. CASE p = 0
    <3>1. fresh \in Spaces /\ OwnFrames(fresh)
      BY <1>1 DEF SpacesType, ExecWhole
    <3>2. Cardinality(FramesOf(fresh)) = Cardinality(DOMAIN fresh)
      BY <3>1, SpaceFinite
    <3> QED
      BY <2>1, <3>2 DEF Holds, Uses
  <2>2. CASE p \in Standing
    <3> DEFINE S == FramesOf(space[p])
               D == DOMAIN space[p]
               k == kernel_stack[p]
    <3>1. p \in Pids /\ p # 0
      BY <1>2, <2>2 DEF Standing
    <3>2. space[p] \in Spaces /\ OwnFrames(space[p]) /\ k \notin S
      BY <1>1, <2>2, <3>1 DEF SpacesType, ProcessesWhole
    <3>3. IsFiniteSet(S) /\ Cardinality(S) = Cardinality(D) /\ Cardinality(D) \in Nat
      BY <3>2, SpaceFinite
    <3>4. Holds(p) = S \union {k} /\ Uses(p) = Cardinality(D) + 1
      BY <2>2, <3>1 DEF Holds, Uses
    <3> HIDE DEF S, D, k
    <3>5. Cardinality(S \union {k}) = Cardinality(S) + 1
      BY <3>2, <3>3, FS_AddElement
    <3> QED
      BY <3>3, <3>4, <3>5
  <2>3. CASE p # 0 /\ p \notin Standing
    <3>1. p \in Pids
      BY <1>2, <2>3
    <3>2. space[p] = NoSpace
      BY <2>3, <3>1 DEF Standing
    <3>3. DOMAIN space[p] = {}
      BY <3>2 DEF NoSpace
    <3>4. Holds(p) = {} /\ Uses(p) = Cardinality(DOMAIN space[p]) + 0
      BY <2>3 DEF Holds, Uses
    <3> QED
      BY <3>3, <3>4, FS_EmptySet
  <2> QED
    BY <2>1, <2>2, <2>3
<1>6. SpacesWhole
  BY <1>1, <1>3, <1>4, <1>5 DEF SpacesWhole, FramesApart
<1>7. LoadedTablesStand
  <2>1. CASE current = 0
    BY <1>1, <2>1 DEF RootLoaded, LoadedTablesStand
  <2>2. CASE current # 0 /\ stage # "switched"
    <3>1. /\ current \in Pids /\ cr3 = space[current][<<>>] /\ status[current] \in {"alive", "dead"}
      BY <1>1, <1>2, <2>2 DEF RootLoaded, SpacesType
    <3>2. current \in Standing /\ Whole(space[current])
      BY <1>1, <3>1 DEF ProcessesWhole
    <3>3. cr3 \in FramesOf(space[current])
      BY <3>1, <3>2, RootIs DEF FramesOf
    <3>4. cr3 \in Holds(current)
      BY <3>1, <3>2, <3>3, HoldsAre DEF Standing
    <3>5. free \intersect Holds(current) = {}
      BY <1>1, <1>2, <3>1 DEF FramesApart
    <3> QED
      BY <3>4, <3>5 DEF LoadedTablesStand
  <2>3. CASE stage = "switched"
    BY <2>3 DEF LoadedTablesStand
  <2> QED
    BY <2>1, <2>2, <2>3
<1> QED
  BY <1>6, <1>7

=============================================================================
