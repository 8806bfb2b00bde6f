---- MODULE LibcNumbers ----
(***************************************************************************)
(* The C library's conversions between texts and numbers: ctype.c,         *)
(* stdlib/conversion.c and the number writers of stdio/printf.c.           *)
(*                                                                         *)
(* int and long have IntMax and LongMax in the place of the limits of      *)
(* limits.h.  A parser returns the number and the index of the first       *)
(* character it did not take (what str_end receives); with end 0 nothing   *)
(* is written there.  A double is a sign, the digits read and a power of   *)
(* ten: the rounding of the float types is left out.                       *)
(***************************************************************************)
EXTENDS Text

CONSTANTS IntMax, LongMax

\* atoi compares with the last digit of INT_MAX, which the code writes as 7.
ASSUME WidthAssumption == /\ IntMax \in Nat /\ LongMax \in Nat
                          /\ IntMax % 10 = 7 /\ IntMax <= LongMax

ULongMax == 2 * LongMax + 1
Overflow == -1

\* A sum of digits in a double is not checked: no text of a run reaches this one.
DoubleMax == 1000000000

----------------------------------------------------------------------------
(* ctype.c *)

isspace(c) == c \in {" ", "\f", "\n", "\r", "\t"}
isalpha(c) == c \in Letters
isdigit(c) == c \in Decimals

\* Value of a digit or letter; a character that is neither is above any base.
DigitOf(c) ==
  IF c \in DOMAIN CodeOf THEN CodeOf[c]
  ELSE IF c \in CapitalLetters THEN CapitalOf[c] ELSE 36

----------------------------------------------------------------------------
(* Reading *)

\* Mutant of Accumulate: the last digit is not checked against the limit.
RECURSIVE AccumulateLoosely(_, _, _, _, _, _)
AccumulateLoosely(s, i, stop, base, limit, n) ==
  IF i = stop THEN n
  ELSE IF n > limit \div base THEN Overflow
  ELSE AccumulateLoosely(s, i + 1, stop, base, limit, n * base + DigitOf(At(s, i)))

\* The accumulation loop, with the check before the digit is taken in.
RECURSIVE Accumulate(_, _, _, _, _, _)
Accumulate(s, i, stop, base, limit, n) ==
  IF i = stop THEN n
  ELSE LET c == DigitOf(At(s, i)) IN
    IF n > limit \div base \/ (n = limit \div base /\ c > limit % base)
    THEN Overflow
    ELSE Accumulate(s, i + 1, stop, base, limit, n * base + c)

AfterSign(s, i) == IF At(s, i) \in {"+", "-"} THEN i + 1 ELSE i

PrefixOf(base) == CASE base = 16 -> {"x", "X"} [] base = 2 -> {"b", "B"}
                    [] base = 8 -> {"o", "O"} [] OTHER -> {}

\* strtol, with strtoll its copy: sign, prefix, digits, clamped to the limits.
Strtol(s, base0) ==
  LET first == Span(s, 1, isspace)
      negative == At(s, first) = "-"
      p == AfterSign(s, first)
      zero == At(s, p) = "0"
      mark == At(s, p + 1)
      base == IF base0 # 0 THEN base0
              ELSE IF ~zero THEN 10
              ELSE IF mark \in PrefixOf(16) THEN 16
              ELSE IF mark \in PrefixOf(2) THEN 2 ELSE 8
      start == IF ~zero THEN p ELSE IF mark \in PrefixOf(base) THEN p + 2 ELSE p + 1
      stop == Span(s, start, LAMBDA c : DigitOf(c) < base)
      limit == IF negative THEN LongMax + 1 ELSE LongMax
      n == Accumulate(s, start, stop, base, limit, 0)
      magnitude == IF n = Overflow THEN limit ELSE n
  IN  IF base0 < 0 \/ base0 = 1 \/ base0 > 36
      THEN [value |-> 0, end |-> 0, range |-> FALSE]
      ELSE [value |-> IF negative THEN -magnitude ELSE magnitude,
            end |-> IF stop > start THEN stop ELSE IF zero THEN p + 1 ELSE 1,
            range |-> n = Overflow]

Strtoll(s, base) == Strtol(s, base)

\* strtoul, with strtoull its copy: only the hexadecimal prefix, and a sign that wraps.
Strtoul(s, base0) ==
  LET first == Span(s, 1, isspace)
      p == AfterSign(s, first)
      hex == base0 \in {0, 16} /\ At(s, p) = "0" /\ At(s, p + 1) \in {"x", "X"}
      base == CASE hex -> 16
                [] ~hex /\ base0 # 0 -> base0
                [] ~hex /\ base0 = 0 -> IF At(s, p) = "0" THEN 8 ELSE 10
      start == IF hex THEN p + 2 ELSE p
      stop == Span(s, start, LAMBDA c : DigitOf(c) < base)
      n == Accumulate(s, start, stop, base, ULongMax, 0)
  IN  [value |-> CASE n = Overflow -> ULongMax
                   [] n # Overflow /\ At(s, first) = "-" -> (-n) % (ULongMax + 1)
                   [] OTHER -> n,
       end |-> IF stop > start THEN stop ELSE 1,
       range |-> n = Overflow]

Strtoull(s, base) == Strtoul(s, base)

\* atoi: blanks are spaces only, and the sum is clamped to int.
Atoi(s) ==
  LET first == Span(s, 1, LAMBDA c : c = " ")
      negative == At(s, first) = "-"
      start == AfterSign(s, first)
      sum[i \in start..Span(s, start, isdigit)] ==
        IF i = start THEN 0
        ELSE LET n == sum[i - 1]
                 c == DigitOf(At(s, i - 1)) IN
             IF n = Overflow \/ n > IntMax \div 10 \/ (n = IntMax \div 10 /\ c > 7)
             THEN Overflow ELSE 10 * n + c
      n == sum[Span(s, start, isdigit)]
  IN  CASE n = Overflow -> IF negative THEN -(IntMax + 1) ELSE IntMax
        [] n # Overflow -> IF negative THEN -n ELSE n

\* strtod: sign, digits, fraction and exponent, the exponent given back when it has no digit.
Strtod(s) ==
  LET first == Span(s, 1, isspace)
      p == AfterSign(s, first)
      point == Span(s, p, isdigit)
      fraction == IF At(s, point) = "." THEN point + 1 ELSE point
      last == IF At(s, point) = "." THEN Span(s, fraction, isdigit) ELSE point
      any == point > p \/ last > fraction
      power == AfterSign(s, last + 1)
      exponential == At(s, last) \in {"e", "E"} /\ isdigit(At(s, power))
      digits(i, j) == Accumulate(s, i, j, 10, DoubleMax, 0)
      exponent == digits(power, Span(s, power, isdigit))
  IN  IF ~any THEN [negative |-> FALSE, mantissa |-> 0, exponent |-> 0, end |-> 1]
      ELSE [negative |-> At(s, first) = "-",
            mantissa |-> Accumulate(SubSeq(s, p, point - 1) \o SubSeq(s, fraction, last - 1),
                                    1, (point - p) + (last - fraction) + 1, 10, DoubleMax, 0),
            exponent |-> (IF ~exponential THEN 0
                          ELSE IF At(s, last + 1) = "-" THEN -exponent ELSE exponent)
                         - (last - fraction),
            end |-> IF exponential THEN Span(s, power, isdigit) ELSE last]

\* strtold and strtof are the same text over another float type.
Strtold(s) == Strtod(s)
Strtof(s) == Strtod(s)

----------------------------------------------------------------------------
(* Writing *)

\* Digits of a positive number, the lowest first, turned round by strreverse.
RECURSIVE Digits(_, _)
Digits(n, base) ==
  IF n = 0 THEN "" ELSE Digits(n \div base, base) \o Numeral(n % base)

itoa(n) == CASE n = 0 -> "0" [] n < 0 -> "-" \o Digits(-n, 10) [] n > 0 -> Digits(n, 10)

utoa(n, base) == IF base < 2 \/ base > 36 THEN ""
                 ELSE IF n = 0 THEN "0" ELSE Digits(n, base)

\* ftoa of a number of millionths: whole part, point, six padded decimals.
ftoa(millionths) ==
  LET n == IF millionths < 0 THEN -millionths ELSE millionths
      decimals == itoa(n % 1000000)
  IN  (IF millionths < 0 THEN "-" ELSE "") \o itoa(n \div 1000000) \o "."
      \o Repeat("0", 6 - Len(decimals)) \o decimals
====
