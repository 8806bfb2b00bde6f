---- MODULE MelonText ----
(***************************************************************************)
(* Melon, the C++ library of the programs: string.cpp, conversion.hpp and  *)
(* fmt.hpp.                                                                *)
(*                                                                         *)
(* A String is its vector of characters, the terminator among them; what C *)
(* functions see of it is the text in front of its first Nul.  Thrown      *)
(* stands for an operation that leaves its vector's bounds and throws.     *)
(***************************************************************************)
EXTENDS LibcNumbers

Thrown == <<>>

----------------------------------------------------------------------------
(* string.cpp *)

\* Construction from a raw pointer, and the text such a pointer shows.
String(text) == [i \in 1..(Len(text) + 1) |-> At(text, i)]
Length(v) == (CHOOSE i \in DOMAIN v : v[i] = Nul /\ \A j \in 1..(i - 1) : v[j] # Nul) - 1
Raw(v) == LET text[i \in 0..Length(v)] == IF i = 0 THEN "" ELSE text[i - 1] \o v[i]
          IN  text[Length(v)]

WithoutLast(v, n) == SubSeq(v, 1, Len(v) - n)

\* The last element of the vector gives way, whether or not it ends the text.
appendChar(v, ch) == WithoutLast(v, 1) \o <<ch, Nul>>

substract(v, chars) ==
  IF chars >= Len(v) THEN Thrown ELSE Append(WithoutLast(v, chars + 1), Nul)

\* Of an empty string the right index is -1, the largest size.
reverse(v) ==
  IF Length(v) = 0 THEN Thrown
  ELSE [i \in DOMAIN v |-> IF i <= Length(v) THEN v[Length(v) + 1 - i] ELSE v[i]]

ltrim(v, ch) ==
  LET kept == CHOOSE i \in DOMAIN v : v[i] # ch /\ \A j \in 1..(i - 1) : v[j] = ch
  IN  SubSeq(v, kept, Len(v))

\* The first character is not looked at; the vector keeps its length.
rtrim(v, ch) ==
  LET n == Length(v)
      last == CHOOSE i \in 1..n : /\ i = 1 \/ v[i] # ch
                                  /\ \A j \in (i + 1)..n : v[j] = ch
  IN  IF n = 0 THEN Thrown ELSE [v EXCEPT ![last + 1] = Nul]

\* Copy and move assignment leave a string with the same text alone.
Assign(v, other) == IF Raw(v) = Raw(other) THEN v ELSE other

trim(v, ch) == LET left == Assign(v, ltrim(v, ch))
                   right == rtrim(left, ch)
               IN  IF right = Thrown THEN Thrown ELSE Assign(left, right)

Plus(v, other) == Append(WithoutLast(v, 1) \o SubSeq(other, 1, Length(other)), Nul)

----------------------------------------------------------------------------
(* conversion.hpp *)

\* Digits are appended from the lowest up and the string is turned round.
uintToString(n, base) ==
  LET last == CHOOSE k \in 1..n : n < base^k /\ \A j \in 1..(k - 1) : n >= base^j
      written[k \in 0..last] ==
        IF k = 0 THEN String("")
        ELSE appendChar(written[k - 1], Numeral((n \div base^(k - 1)) % base))
  IN  IF n = 0 THEN String("0") ELSE reverse(written[last])

\* The least int has no opposite: its digits are looked up at negative indices.
intToString(n, base) ==
  CASE n = -IntMax - 1 -> Thrown
    [] n < 0 /\ n >= -IntMax -> Plus(String("-"), uintToString(-n, base))
    [] n >= 0 -> uintToString(n, base)

stringToInt(v) == Atoi(Raw(v))

----------------------------------------------------------------------------
(* fmt.hpp: the arguments are strings already *)

\* A brace that opens no {} is dropped with the character behind it; what follows
\* the last argument is copied as it is.
RECURSIVE formatArgs(_, _, _, _)
formatArgs(out, fmt, idx, args) ==
  LET next == At(fmt, idx + 1)
      Copied(i) == formatArgs(appendChar(out, At(fmt, i)), fmt, i + 1, args)
  IN  IF idx > Len(fmt) THEN out
      ELSE IF args = <<>> \/ At(fmt, idx) # "{" THEN Copied(idx)
      ELSE IF next = Nul THEN out
      ELSE IF next = "}" THEN formatArgs(Plus(out, Head(args)), fmt, idx + 2, Tail(args))
      ELSE formatArgs(out, fmt, idx + 2, args)

formatString(fmt, args) == formatArgs(String(""), fmt, 1, args)
====
