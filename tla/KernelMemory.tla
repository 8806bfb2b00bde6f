---- MODULE KernelMemory ----
(***************************************************************************)
(* The kernel's functions on memory and C strings (lib/memory.cpp), on a   *)
(* function from addresses to characters, and the operations of its        *)
(* buffers (lib/buffer.hpp) with objects of one byte: a buffer is its      *)
(* characters.                                                             *)
(***************************************************************************)
EXTENDS LibcNumbers

First(S) == CHOOSE i \in S : \A j \in S : i <= j
Code(c) == IF c = Nul THEN -1 ELSE DigitOf(c)

----------------------------------------------------------------------------
(* memory.cpp *)

\* The bytes are stored one by one, in the order the offsets are given in.
StoredInOrder(m, dest, src, offsets) ==
  LET stored[i \in 0..Len(offsets)] ==
        IF i = 0 THEN m
        ELSE [stored[i - 1] EXCEPT ![dest + offsets[i]] = stored[i - 1][src + offsets[i]]]
  IN  stored[Len(offsets)]
Upwards(n) == [i \in 1..n |-> i - 1]
Downwards(n) == [i \in 1..n |-> n - i]

memcpy(m, dest, src, n) == StoredInOrder(m, dest, src, Upwards(n))
memset(m, s, c, n) == [a \in DOMAIN m |-> IF a \in s..(s + n - 1) THEN c ELSE m[a]]
memmove(m, dest, src, n) ==
  IF src = dest THEN m
  ELSE StoredInOrder(m, dest, src, IF src > dest THEN Upwards(n) ELSE Downwards(n))

memcmp(m, s1, s2, n) ==
  LET differ == {i \in 0..(n - 1) : m[s1 + i] # m[s2 + i]}
  IN  IF differ = {} THEN 0
      ELSE IF Code(m[s1 + First(differ)]) < Code(m[s2 + First(differ)]) THEN -1 ELSE 1

End(m, s) == First({a \in DOMAIN m : a >= s /\ m[a] = Nul})

\* The comparison stops at the first end of either string, or a difference.
strcmp(m, s1, s2) ==
  LET both == 0..First({End(m, s1) - s1, End(m, s2) - s2})
      stop == First({i \in both : Nul \in {m[s1 + i], m[s2 + i]} \/ m[s1 + i] # m[s2 + i]})
  IN  Code(m[s1 + stop]) - Code(m[s2 + stop])

strncmp(m, s1, s2, length) ==
  LET stop == First({i \in 0..length : \/ i = length
                                       \/ m[s1 + i] = Nul
                                       \/ m[s1 + i] # m[s2 + i]})
  IN  IF stop = length THEN 0 ELSE Code(m[s1 + stop]) - Code(m[s2 + stop])

strstartswith(m, s1, s2) == strncmp(m, s1, s2, End(m, s2) - s2) = 0

\* The source comes first here.
strcpy(m, src, dest) == memcpy(m, dest, src, End(m, src) - src + 1)
strcat(m, dest, src) == strcpy(m, src, End(m, dest))

----------------------------------------------------------------------------
(* buffer.hpp: a call with a size beyond one of the buffers does nothing *)

Failed == "failed"
copy(self, dest, size) ==
  IF size > Len(self) \/ size > Len(dest) THEN Failed
  ELSE SubSeq(self, 1, size) \o SubSeq(dest, size + 1, Len(dest))
set(self, c, size) ==
  IF size > Len(self) THEN Failed ELSE [i \in DOMAIN self |-> IF i <= size THEN c ELSE self[i]]
compare(self, other, size) ==
  LET differ == {i \in 1..size : self[i] # other[i]}
  IN  IF size > Len(self) \/ size > Len(other) THEN Failed
      ELSE IF differ = {} THEN 0
      ELSE IF Code(self[First(differ)]) < Code(other[First(differ)]) THEN -1 ELSE 1

Shorter(self, other) == IF Len(self) < Len(other) THEN Len(self) ELSE Len(other)
Equal(self, other) == Len(self) = Len(other) /\ compare(self, other, Len(self)) = 0
Less(self, other) ==
  LET result == compare(self, other, Shorter(self, other))
  IN  IF result # 0 THEN result < 0 ELSE Len(self) < Len(other)
Greater(self, other) ==
  LET result == compare(self, other, Shorter(self, other))
  IN  IF result # 0 THEN result > 0 ELSE Len(self) > Len(other)
====
