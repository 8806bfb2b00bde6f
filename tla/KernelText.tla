---- MODULE KernelText ----
(***************************************************************************)
(* The kernel's own strings, conversions and formatting: lib/string.hpp,   *)
(* conversion.hpp, fmt.hpp.                                                *)
(*                                                                         *)
(* A dynamic string is its vector of characters with the terminator, a     *)
(* static one of N characters is its text.  Panicked and Overflowed stand  *)
(* for a call that leaves the bounds and stops the kernel.                 *)
(***************************************************************************)
EXTENDS LibcNumbers

Panicked == <<>>
Overflowed == "overflow"

----------------------------------------------------------------------------
(* string.hpp, the dynamic string *)

String(text) == [i \in 1..(Len(text) + 1) |-> At(text, i)]
RawOf(v) == LET stop == CHOOSE i \in DOMAIN v : v[i] = Nul /\ \A j \in 1..(i - 1) : v[j] # Nul
                text[i \in 1..stop] == IF i = 1 THEN "" ELSE text[i - 1] \o v[i - 1]
            IN  text[stop]

\* The count of the vector without its last character, whatever that one is.
length(v) == Len(v) - 1
Text(v) == SubSeq(v, 1, length(v))

appendChar(v, ch) == Text(v) \o <<ch, Nul>>

\* The terminator is copied and another one added: the length counts the first.
subString(v, start) ==
  IF start >= Len(v) THEN Panicked ELSE Append(SubSeq(v, start + 1, Len(v)), Nul)

\* Of an empty string the right index is -1, the largest usize.
reverse(v) ==
  IF length(v) = 0 THEN Panicked
  ELSE [i \in DOMAIN v |-> IF i <= length(v) THEN v[length(v) + 1 - i] ELSE v[i]]

Plus(v, other) == Text(v) \o Text(other) \o <<Nul>>

\* Comparison stops at the first terminator.
Equal(v, other) == RawOf(v) = RawOf(other)

----------------------------------------------------------------------------
(* string.hpp, the string of N characters *)

Static(text, N) == IF Len(text) > N THEN Overflowed ELSE text
staticAppendChar(text, ch, N) == IF Len(text) + 1 >= N THEN Overflowed ELSE text \o ch
staticSubString(text, start, N) == IF start >= N THEN Overflowed ELSE From(text, start + 1)
staticReverse(text) ==
  IF text = "" THEN Overflowed
  ELSE LET turned[i \in 0..Len(text)] ==
             IF i = 0 THEN "" ELSE At(text, i) \o turned[i - 1]
       IN  turned[Len(text)]

\* No terminator is checked for: a sum may fill all N characters.
staticPlus(text, other, N) == Static(text \o other, N)

----------------------------------------------------------------------------
(* conversion.hpp *)

uintToString(n, base) ==
  LET last == CHOOSE k \in 1..n : n < base^k /\ \A j \in 1..(k - 1) : n >= base^j
      written[k \in 0..last] ==
        IF k = 0 THEN String("")
        ELSE appendChar(written[k - 1], Numeral((n \div base^(k - 1)) % base))
  IN  IF n = 0 THEN String("0") ELSE reverse(written[last])

\* The sign is appended last; the least value has no opposite and its digits are
\* looked up at negative indices.
intToString(n, base) ==
  CASE n = -IntMax - 1 -> Panicked
    [] n < 0 /\ n >= -IntMax -> Plus(String("-"), uintToString(-n, base))
    [] n >= 0 -> uintToString(n, base)

\* The same in a static string, which panics when the digits do not fit.
staticUintToString(n, base, N) ==
  LET digits == RawOf(uintToString(n, base))
  IN  IF Len(digits) >= N THEN Overflowed ELSE digits
staticIntToString(n, base, N) ==
  IF intToString(n, base) = Panicked \/ length(intToString(n, base)) >= N THEN Overflowed
  ELSE RawOf(intToString(n, base))

\* Read up to a blank with no check of the digits; what does not fit wraps.
stringToInt(text, base) ==
  LET stop == Span(text, 1, LAMBDA c : c # " ")
      value[i \in 1..stop] ==
        IF i = 1 THEN 0
        ELSE (value[i - 1] * base + DigitOf(At(text, i - 1))) % (ULongMax + 1)
  IN  value[stop]

----------------------------------------------------------------------------
(* fmt.hpp: the arguments are strings already *)

\* A brace that opens no {} is dropped with the character behind it; what follows
\* the last argument is copied as it is.
RECURSIVE formatArgs(_, _, _, _)
formatArgs(out, fmt, i, args) ==
  IF i > Len(fmt) THEN out
  ELSE IF args = <<>> \/ At(fmt, i) # "{"
       THEN formatArgs(appendChar(out, At(fmt, i)), fmt, i + 1, args)
  ELSE IF At(fmt, i + 1) = "}"
       THEN formatArgs(Plus(out, Head(args)), fmt, i + 2, Tail(args))
  ELSE formatArgs(out, fmt, i + 2, args)

formatString(fmt, args) == formatArgs(String(""), fmt, 1, args)

\* The same in a static string of N characters, for what fits.
staticFormatString(fmt, args, N) ==
  LET text == RawOf(formatString(fmt, args)) IN IF Len(text) >= N THEN Overflowed ELSE text
====
