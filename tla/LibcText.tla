---- MODULE LibcText ----
(***************************************************************************)
(* The C library's formatted output (stdio/printf.c), and its functions on *)
(* memory and strings (string/).  Memory is a function from addresses to   *)
(* characters.                                                             *)
(***************************************************************************)
EXTENDS LibcNumbers

----------------------------------------------------------------------------
(* string/mem.c, strcat.c, strcmp.c, strcpy.c, strlen.c *)

\* One store of the copy loops.
Store(m, dest, src, i) == [m EXCEPT ![dest + i] = m[src + i]]

\* memcpy stores from the first byte up, whatever the areas share.
memcpy(m, dest, src, n) ==
  LET stored[i \in 0..n] == IF i = 0 THEN m ELSE Store(stored[i - 1], dest, src, i - 1)
  IN  stored[n]

\* Mutant of memmove: always upwards.
MoveUpwards(m, dest, src, n) == memcpy(m, dest, src, n)

\* memmove stores upwards when the source is above, downwards when it is below.
memmove(m, dest, src, n) ==
  LET down[i \in 0..n] == IF i = 0 THEN m ELSE Store(down[i - 1], dest, src, n - i)
  IN  CASE src > dest -> memcpy(m, dest, src, n)
        [] src < dest -> down[n]
        [] src = dest -> m

memset(m, s, c, n) == [a \in DOMAIN m |-> IF a \in s..(s + n - 1) THEN c ELSE m[a]]

Differences(m, s1, s2, n) == {i \in 0..(n - 1) : m[s1 + i] # m[s2 + i]}
Least(S) == CHOOSE i \in S : \A j \in S : i <= j

memcmp(m, s1, s2, n) ==
  LET at == Least(Differences(m, s1, s2, n))
  IN  IF Differences(m, s1, s2, n) = {} THEN 0
      ELSE IF DigitOf(m[s1 + at]) < DigitOf(m[s2 + at]) THEN -1 ELSE 1

\* 0 stands for the null pointer.
memchr(m, s, c, n) ==
  LET found == {i \in 0..(n - 1) : m[s + i] = c} IN IF found = {} THEN 0 ELSE s + Least(found)

\* A string in memory ends at its first Nul.
strlen(m, s) == Least({a \in DOMAIN m : a >= s /\ m[a] = Nul}) - s

strcmp(m, lhs, rhs) ==
  LET both == 0..Least({strlen(m, lhs), strlen(m, rhs)})
      stop == Least({i \in both : m[lhs + i] = Nul \/ m[lhs + i] # m[rhs + i]})
      code(c) == IF c = Nul THEN -1 ELSE DigitOf(c)
  IN  code(m[lhs + stop]) - code(m[rhs + stop])

strncmp(m, lhs, rhs, count) ==
  LET stop == Least({i \in 0..count : \/ i = count
                                      \/ m[lhs + i] = Nul
                                      \/ m[lhs + i] # m[rhs + i]})
      code(c) == IF c = Nul THEN -1 ELSE DigitOf(c)
  IN  IF stop = count THEN 0 ELSE code(m[lhs + stop]) - code(m[rhs + stop])

strcpy(m, dest, src) == memcpy(m, dest, src, strlen(m, src) + 1)

\* strncpy always ends the copy, one byte behind the count when the source is longer.
strncpy(m, dest, src, count) ==
  LET copied == IF strlen(m, src) < count THEN strlen(m, src) ELSE count
  IN  [memcpy(m, dest, src, copied) EXCEPT ![dest + copied] = Nul]

strcat(m, dest, src) == strcpy(m, dest + strlen(m, dest), src)

----------------------------------------------------------------------------
(* stdio/printf.c: an argument is an integer, or a text for %c and %s *)

\* va_arg of an unsigned and of a signed type that holds 0..2 * max + 1 values.
AsUnsigned(v, max) == v % (2 * max + 2)
AsSigned(v, max) ==
  IF AsUnsigned(v, max) > max THEN AsUnsigned(v, max) - (2 * max + 2) ELSE AsUnsigned(v, max)

IntegerConversions == {"b", "o", "d", "u", "x"}
TextConversions == {"c", "s"}
Takes(conv) == conv \in IntegerConversions \union TextConversions \union {"f"}

\* What one conversion writes of its argument, read with the given width.
Convert(conv, v, max) ==
  CASE conv = "b" -> utoa(AsUnsigned(v, max), 2)
    [] conv = "o" -> utoa(AsUnsigned(v, max), 8)
    [] conv = "x" -> utoa(AsUnsigned(v, max), 16)
    [] conv = "u" -> utoa(AsUnsigned(v, max), 10)
    [] conv = "d" -> itoa(AsSigned(v, max))
    [] conv = "f" -> ftoa(v)
    [] conv \in TextConversions -> v

Width(longs) == IF longs = 0 THEN IntMax ELSE LongMax

\* format_to_buffer: at most two l, then the conversion; an unknown one writes nothing.
RECURSIVE Render(_, _, _)
Render(format, i, args) ==
  LET longs == IF At(format, i + 1) # "l" THEN 0 ELSE IF At(format, i + 2) # "l" THEN 1 ELSE 2
      conv == At(format, i + 1 + longs)
  IN  IF i > Len(format) \/ (i = Len(format) /\ At(format, i) = "%") THEN ""
      ELSE IF At(format, i) # "%" THEN At(format, i) \o Render(format, i + 1, args)
      ELSE IF Takes(conv)
           THEN Convert(conv, Head(args), Width(longs))
                \o Render(format, i + 2 + longs, Tail(args))
           ELSE (IF conv = "%" THEN "%" ELSE "") \o Render(format, i + 2 + longs, args)

\* Mutant of Snprintf: no place is kept for the terminator.
SnprintfUnended(size, format, args) ==
  LET text == Render(format, 1, args) IN [length |-> Len(text), buffer |-> SubSeq(text, 1, size)]

\* vsnprintf: the length of the whole rendering, and the part that fits with its Nul.
Snprintf(size, format, args) ==
  LET text == Render(format, 1, args)
  IN  [length |-> Len(text),
       buffer |-> IF Len(text) < size THEN text ELSE SubSeq(text, 1, size - 1)]

\* vsprintf: the same with no limit on the size.
Sprintf(format, args) == Render(format, 1, args)

\* vfprintf: the l modifier is a case of its own, which eats the conversion behind
\* it and widens every later one; %% and unknown conversions write nothing.
RECURSIVE Vfprintf(_, _, _, _)
Vfprintf(format, i, args, longs) ==
  LET conv == At(format, i + 1)
      twice == At(format, i + 2) = "l"
      width == IF conv = "b" THEN LongMax ELSE Width(longs)
  IN  IF i > Len(format) THEN ""
      ELSE IF At(format, i) # "%" THEN At(format, i) \o Vfprintf(format, i + 1, args, longs)
      ELSE IF conv = "l"
           THEN IF twice THEN Vfprintf(format, i + 4, args, 2)
                ELSE Vfprintf(format, i + 3, args, 1)
      ELSE IF Takes(conv)
           THEN Convert(conv, Head(args), width) \o Vfprintf(format, i + 2, Tail(args), longs)
           ELSE Vfprintf(format, i + 2, args, longs)

Printf(format, args) == Vfprintf(format, 1, args, 0)
====
