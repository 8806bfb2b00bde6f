---- MODULE Library ----
(***************************************************************************)
(* The libraries under the programs and the kernel, side by side: a run    *)
(* chooses one part and makes the calls a program may make of it.  The     *)
(* heap and the vectors keep state between calls; for the others a step    *)
(* is one call with its arguments, which the properties look at.           *)
(***************************************************************************)
EXTENDS LibcText, UserHeap

CONSTANTS Numbers,      \* numbers written and read back
          Arguments,    \* numbers printed
          Pieces,       \* pieces of a printf format
          MaxPieces,    \* bound on their count
          Braces,       \* format strings of formatString
          Words,        \* texts of a string, and arguments of formatString
          Memories,     \* contents of memory
          Archives,     \* files of an archive, in its order
          BlockSize,    \* characters of a block of it
          Queries,      \* paths asked for
          StaticSize,   \* characters of a static kernel string
          Vecs, Objects, MaxCount

VARIABLES part, call, vec, held

V == INSTANCE Vectors
K == INSTANCE KernelText
M == INSTANCE MelonText
F == INSTANCE Files
R == INSTANCE KernelMemory
C == INSTANCE CStrings

vars == <<part, call, heapVars, V!vectorVars>>

Bases == {2, 8, 10, 16}
NoCall == <<>>

Init == /\ part \in {"heap", "Melon", "Kiwi", "numbers", "formats", "braces", "memory", "files"}
        /\ call = NoCall
        /\ HeapInit /\ V!VectorInit

UsesHeap == part = "heap" /\ HeapNext /\ UNCHANGED <<part, call, vec, held>>
UsesMelon == part = "Melon" /\ V!MelonNext /\ UNCHANGED <<part, call, heapVars>>
UsesKiwi == part = "Kiwi" /\ V!KiwiNext /\ UNCHANGED <<part, call, heapVars>>

Calls(p, S) == /\ part = p /\ call = NoCall /\ call' \in S
               /\ UNCHANGED <<part, heapVars, vec, held>>
Converts == Calls("numbers", [n : Numbers, base : Bases])
Prints == Calls("formats", [n : 1..MaxPieces, pieces : [1..MaxPieces -> Pieces], arg : Arguments])
Formats == Calls("braces", [format : Braces, first : Words, second : Words])

\* Areas of memory the callers own.
Copies ==
  \E m \in Memories : \E dest, src \in DOMAIN m :
    Calls("memory", [m : {m}, dest : {dest}, src : {src},
                     n : {n \in 0..Cardinality(DOMAIN m) : {dest + n - 1, src + n - 1}
                                                            \subseteq 0..Cardinality(DOMAIN m)}])

Opens == Calls("files", Archives)

Next == UsesHeap \/ UsesMelon \/ UsesKiwi \/ Converts \/ Prints \/ Formats \/ Copies \/ Opens
Spec == Init /\ [][Next]_vars

----------------------------------------------------------------------------

\* Vectors keep the objects they were given in order across growth, copies and
\* moves (vector.hpp of both libraries).  A kernel vector whose slots a move or a
\* resize took counts what it cannot hold; a Melon one throws.
VectorsKeepObjects ==
  IF part = "Kiwi" THEN V!KiwiKeepsObjects ELSE V!MelonKeepsObjects

\* A number written by any of the three libraries is read back as itself by the
\* parsers of its own library and of the C library, in every base and up to the
\* limits of its type; out of them it is clamped (conversion.c, conversion.hpp).
Clamped(n, low, high) == IF n < low THEN low ELSE IF n > high THEN high ELSE n
Written(n, base) == IF n < 0 THEN "-" \o utoa(-n, base) ELSE utoa(n, base)
NumbersRoundTrip ==
  call # NoCall /\ part = "numbers" =>
    LET n == call.n
        base == call.base
        text == Written(n, base)
    IN
    /\ \A read \in {Strtol(text, base), Strtoll(text, base)} :
         read = [value |-> Clamped(n, -LongMax - 1, LongMax), end |-> Len(text) + 1,
                 range |-> n \notin (-LongMax - 1)..LongMax]
    /\ base = 10 => /\ Atoi(itoa(n)) = Clamped(n, -IntMax - 1, IntMax)
                    /\ \A read \in {Strtod(ftoa(n)), Strtold(ftoa(n)), Strtof(ftoa(n))} :
                         read = [negative |-> n < 0, mantissa |-> IF n < 0 THEN -n ELSE n,
                                 exponent |-> -6, end |-> Len(ftoa(n)) + 1]
    /\ n \in 0..ULongMax =>
         /\ Strtoul(text, base).value = n /\ Strtoull(text, base).value = n
         /\ M!Raw(M!uintToString(n, base)) = text
         /\ K!RawOf(K!uintToString(n, base)) = text
         /\ K!stringToInt(text, base) = n
         /\ K!staticUintToString(n, base, StaticSize) \in {text, K!Overflowed}
    /\ n \in -IntMax..IntMax =>
         /\ M!Raw(M!intToString(n, base)) = text
         /\ base = 10 => M!stringToInt(M!intToString(n, base)) = n
         /\ K!RawOf(K!intToString(n, base)) = text
         /\ K!staticIntToString(n, base, StaticSize) \in {text, K!Overflowed}

\* printf, sprintf and snprintf write the same text for the same arguments, and
\* snprintf its beginning with the whole length, for formats without the l modifier
\* and without negative %b (printf.c renders each format twice over).
PrintersAgree ==
  call # NoCall /\ part = "formats" =>
    LET format[i \in 0..call.n] == IF i = 0 THEN "" ELSE format[i - 1] \o call.pieces[i]
        arg(piece) == IF piece \in {"%c", "%s"} THEN "x" ELSE call.arg
        args[i \in 0..call.n] ==
          IF i = 0 THEN <<>>
          ELSE IF At(call.pieces[i], 1) = "%" THEN Append(args[i - 1], arg(call.pieces[i]))
          ELSE args[i - 1]
        text == Printf(format[call.n], args[call.n])
    IN  ("%b" \in {call.pieces[i] : i \in 1..call.n} => call.arg \in 0..IntMax) =>
          /\ text = Sprintf(format[call.n], args[call.n])
          /\ \A size \in 1..(Len(text) + 2) :
               LET written == Snprintf(size, format[call.n], args[call.n])
               IN  /\ written.length = Len(text) /\ Len(written.buffer) < size
                   /\ written.buffer = SubSeq(text, 1, Len(written.buffer))
                   /\ Len(text) < size => written.buffer = text

\* The kernel's strings and the programs' show the same text after the same calls,
\* format strings alike (string.hpp and fmt.hpp of the kernel against Melon's).
LibrariesAgree ==
  call # NoCall /\ part = "braces" =>
    LET args == <<call.first, call.second>>
        ours == K!formatString(call.format, <<K!String(call.first), K!String(call.second)>>)
        theirs == M!formatString(call.format, <<M!String(call.first), M!String(call.second)>>)
        fits == K!staticFormatString(call.format,
                  <<K!String(call.first), K!String(call.second)>>, StaticSize)
    IN  /\ K!RawOf(ours) = M!Raw(theirs)
        /\ fits \in {K!RawOf(ours), K!Overflowed}
        /\ K!Equal(ours, K!String(call.format)) = (K!RawOf(ours) = call.format)
        /\ K!staticAppendChar(K!RawOf(ours), "a", 100) = K!RawOf(K!appendChar(ours, "a"))
        /\ K!RawOf(K!Plus(ours, K!String(call.first)))
             = K!staticPlus(K!RawOf(ours), call.first, 100)
        /\ M!Raw(M!Plus(theirs, M!String(call.first))) = K!RawOf(ours) \o call.first
        /\ K!RawOf(ours) # "" => /\ K!RawOf(K!reverse(ours)) = M!Raw(M!reverse(theirs))
                                 /\ K!RawOf(K!reverse(ours)) = K!staticReverse(K!RawOf(ours))
        /\ \A i \in 0..K!length(ours) :
             /\ K!RawOf(K!subString(ours, i)) = K!staticSubString(K!RawOf(ours), i, 100)
             /\ M!Raw(M!substract(theirs, i)) = SubSeq(K!RawOf(ours), 1, Len(K!RawOf(ours)) - i)
        /\ M!trim(theirs, "a") # M!Thrown =>
             Chars(M!Raw(M!trim(theirs, "a"))) \ {"a"} = Chars(K!RawOf(ours)) \ {"a"}

\* What the libraries write does not depend on the way it is asked for: the printf
\* family (printf.c), and format strings and strings of the kernel and of Melon.
TextsAgree == PrintersAgree /\ LibrariesAgree

\* A copy arrives as it was before the call and nothing else changes: overlapping
\* areas with memmove, apart ones with memcpy, and strings with strcpy, strncpy and
\* strcat; the comparisons see it.  So it is in the C library (mem.c, strcpy.c,
\* strcat.c, strcmp.c), in the kernel, whose strcmp stops earlier and whose strcpy
\* has its arguments the other way round (memory.cpp, buffer.hpp), and in CString.
MemoriesAgree ==
  LET m == call.m
      dest == call.dest
      src == call.src
      n == call.n
      moved == [a \in DOMAIN m |-> IF a \in dest..(dest + n - 1) THEN m[src + a - dest] ELSE m[a]]
      area(s) == [i \in 1..n |-> m[s + i - 1]]
      apart(k) == dest + k <= src \/ src + k <= dest
  IN  /\ memmove(m, dest, src, n) = moved /\ R!memmove(m, dest, src, n) = moved
      /\ apart(n) => /\ memcpy(m, dest, src, n) = moved /\ R!memcpy(m, dest, src, n) = moved
                     /\ memcmp(moved, dest, src, n) = 0
      /\ (memcmp(m, dest, src, n) = 0) = (moved = m)
      /\ R!memcmp(m, dest, src, n) = R!compare(area(dest), area(src), n)
      /\ R!copy(area(src), area(dest), n) = area(src)
      /\ R!Equal(area(dest), area(src)) = (moved = m)
      /\ \A k \in 0..n :
           LET head == SubSeq(area(src), 1, k)
           IN  /\ R!Equal(head, area(dest)) = ~(\/ R!Less(head, area(dest))
                                               \/ R!Greater(head, area(dest)))
               /\ R!Less(head, area(dest)) = R!Greater(area(dest), head)
      /\ n > 0 => /\ memchr(memset(m, dest, "b", n), dest, "b", n) = dest
                  /\ R!set(area(dest), "b", n)
                       = [i \in 1..n |-> R!memset(m, dest, "b", n)[dest + i - 1]]
StringsAgree ==
  LET m == call.m
      dest == call.dest
      src == call.src
      n == call.n
      ends(s) == \E a \in DOMAIN m : a >= s /\ m[a] = Nul
      k == strlen(m, src) + 1
      apart == dest + k <= src \/ src + k <= dest
  IN  ends(src) =>
      /\ apart /\ dest + k - 1 \in DOMAIN m =>
           /\ strcmp(strcpy(m, dest, src), dest, src) = 0
           /\ strlen(strcpy(m, dest, src), dest) = k - 1
           /\ R!strcpy(m, src, dest) = strcpy(m, dest, src)
           /\ C!Constructed(m, dest, src) = strcpy(m, dest, src)
           /\ n < k => /\ strncmp(strncpy(m, dest, src, n), dest, src, n) = 0
                       /\ R!strstartswith(C!copy(m, src, dest, n), src, dest)
      /\ ends(dest) =>
           /\ dest + strlen(m, dest) + k - 1 < src =>
                /\ strlen(strcat(m, dest, src), dest) = strlen(m, dest) + k - 1
                /\ R!strcat(m, dest, src) = strcat(m, dest, src)
           /\ (R!strcmp(m, dest, src) = 0) = (strcmp(m, dest, src) = 0)
           /\ C!SmallerOrSame(m, dest, src) = ~C!Bigger(m, dest, src)
           /\ C!BiggerOrSame(m, dest, src) = ~C!Smaller(m, dest, src)
           /\ C!Smaller(m, dest, src) = C!Bigger(m, src, dest)
           /\ C!Same(m, dest, src) => \A i \in 0..(k - 1) :
                C!Character(m, dest, i) = C!Character(m, src, i)
                  /\ C!has(m, dest, m[src + i]) = C!has(m, src, m[src + i])
CopiesArrive == call # NoCall /\ part = "memory" => MemoriesAgree /\ StringsAgree

\* A path opens the file the archive keeps under it, unless an earlier entry took its
\* name or the name of a directory above it, and nothing else; and the streams read
\* of it what is in the archive: the whole, any bytes from the start, any line, the
\* lines in turn, and from where another user of the same File has left the cursor
\* (archive.cpp, path.cpp, node.cpp, file.cpp of ustar, of stdio and of Melon).
Opened(entries) ==
  LET parts == [i \in DOMAIN entries |-> F!parsePath(entries[i].name)]
      directory(i) == At(entries[i].name, Len(entries[i].name)) = "/"
      above(p, q) == Len(p) < Len(q) /\ p = SubSeq(q, 1, Len(p))
      hidden[i \in DOMAIN entries] ==
        \E j \in 1..(i - 1) : \/ parts[j] = parts[i]
                              \/ above(parts[i], parts[j])
                              \/ above(parts[j], parts[i]) /\ ~directory(j) /\ ~hidden[j]
      asked(path) == {i \in DOMAIN entries : /\ parts[i] = F!parsePath(From(path, 3))
                                             /\ ~directory(i) /\ ~hidden[i]}
      nodes == F!parseArchive(F!Tar(entries))
  IN  \A path \in Queries :
        LET nd == F!open(nodes, path)
        IN  IF nd = F!NoNode THEN asked(path) = {}
            ELSE \E i \in asked(path) : nodes[nd].data = entries[i].data

Beginning(text, n) == SubSeq(text, 1, IF n < Len(text) THEN n ELSE Len(text))
RECURSIVE LineOfText(_, _)
LineOfText(text, n) ==
  LET stop == Span(text, 1, LAMBDA c : c # "\n")
  IN  IF n = 0 THEN SubSeq(text, 1, stop - 1) ELSE LineOfText(From(text, stop + 1), n - 1)
RECURSIVE Gets(_, _)
Gets(file, count) ==
  LET got == F!fgets(file, count) IN IF got.str = "" THEN "" ELSE got.str \o Gets(got.file, count)
ReadsWhole(data) ==
  LET file == F!NewFile(data)
  IN  /\ F!readAll(file) = data
      /\ \A n \in 0..(Len(data) + 1) :
           LET first == F!read(file, n)
           IN  /\ F!readLine(first.file, n) = LineOfText(data, n)
               /\ F!readBytes(first.file, n) = Beginning(data, n)
               /\ n > 1 => Gets(file, n) = data
               /\ \A k \in 0..n :
                    /\ first.bytes \o F!read(first.file, k).bytes = Beginning(data, n + k)
                    /\ n <= Len(data) =>
                         F!read(F!seek(first.file, -k, "Curr"), k).bytes
                           = SubSeq(data, n - k + 1, n)
FilesReadable ==
  call # NoCall /\ part = "files" =>
    Opened(call) /\ \A i \in DOMAIN call : ReadsWhole(call[i].data)
====
