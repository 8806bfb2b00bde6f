---- MODULE CStrings ----
(***************************************************************************)
(* Melon's CString (memory/cstring.cpp): a string kept in memory of its    *)
(* own, here the address where that memory begins.                         *)
(***************************************************************************)
EXTENDS LibcText

\* The constructor's copy of the string at s into the memory it was given.
Constructed(m, data, s) == strncpy(m, data, s, strlen(m, s) + 1)

\* The first characters of self take the place of those of dest.
copy(m, self, dest, chars) == strncpy(m, dest, self, chars)

has(m, self, ch) == \E a \in self..(self + strlen(m, self) - 1) : m[a] = ch

Same(m, self, other) == strcmp(m, self, other) = 0
Smaller(m, self, other) == strcmp(m, self, other) < 0
Bigger(m, self, other) == strcmp(m, self, other) > 0
SmallerOrSame(m, self, other) == Smaller(m, self, other) \/ Same(m, self, other)
BiggerOrSame(m, self, other) == Bigger(m, self, other) \/ Same(m, self, other)

\* An index at or behind the length throws.
Thrown == "thrown"
Character(m, self, index) == IF index >= strlen(m, self) THEN Thrown ELSE m[self + index]
====
