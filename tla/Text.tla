---- MODULE Text ----
(***************************************************************************)
(* Texts as the C and C++ code of this repository sees them: a string is   *)
(* its characters and what is read at its end is the terminator Nul.       *)
(***************************************************************************)
EXTENDS Integers, Sequences

Nul == ""
Numerals == "0123456789abcdefghijklmnopqrstuvwxyz"
Capitals == "ABCDEFGHIJKLMNOPQRSTUVWXYZ"

\* The character at a position, Nul just behind the last one.
At(s, i) == IF i <= Len(s) THEN SubSeq(s, i, i) ELSE Nul
Chars(s) == {At(s, i) : i \in 1..Len(s)}
From(s, i) == SubSeq(s, i, Len(s))

\* Index of the first character from i on that does not satisfy P (Nul never does).
Span(s, i, P(_)) ==
  LET stop[j \in i..(Len(s) + 1)] == IF j <= Len(s) /\ P(At(s, j)) THEN stop[j + 1] ELSE j
  IN  stop[i]

Decimals == Chars("0123456789")
CapitalLetters == Chars(Capitals)
Letters == Chars(SubSeq(Numerals, 11, 36)) \union CapitalLetters

Numeral(n) == SubSeq(Numerals, n + 1, n + 1)
CodeOf == [c \in Chars(Numerals) |-> (CHOOSE n \in 1..36 : At(Numerals, n) = c) - 1]
CapitalOf == [c \in Chars(Capitals) |-> 9 + (CHOOSE n \in 1..26 : At(Capitals, n) = c)]

\* Texts of at most n characters over an alphabet.
TextsOf(alphabet, n) ==
  LET texts[k \in 0..n] ==
        IF k = 0 THEN {""}
        ELSE texts[k - 1] \union {t \o c : t \in texts[k - 1], c \in alphabet}
  IN  texts[n]

\* The same character n times.
Repeat(c, n) ==
  LET copies[k \in 0..n] == IF k = 0 THEN "" ELSE c \o copies[k - 1] IN copies[n]
====
