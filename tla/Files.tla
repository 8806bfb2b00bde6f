---- MODULE Files ----
(***************************************************************************)
(* The archived file system and what programs read of it: paths (path.cpp),*)
(* the archive's tree (fs/ustar), the File's cursor, and the C and C++     *)
(* libraries' streams (stdio/file.c, melon/src/filesystem/file.cpp).       *)
(*                                                                         *)
(* An archive is its blocks: a header is a record, a block of data a text. *)
(* The tree is the sequence of its nodes in the order of their creation;   *)
(* the root is node 0 and NoNode the null pointer.  An open File is the    *)
(* data it reads and a cursor of the size of a long.                       *)
(***************************************************************************)
EXTENDS KernelText

CONSTANT BlockSize   \* characters of a block, 512 in the code

Root == 0
NoNode == -1

----------------------------------------------------------------------------
(* path.cpp: what stands in front of the first slash is dropped *)

parsePath(path) ==
  LET parts[i \in 1..(Len(path) + 1)] ==
        LET stop == Span(path, i + 1, LAMBDA c : c # "/")
            part == SubSeq(path, i + 1, stop - 1)
        IN  IF i > Len(path) THEN <<>>
            ELSE IF At(path, i) # "/" THEN parts[i + 1]
            ELSE (IF part = "" THEN <<>> ELSE <<part>>) \o parts[stop]
  IN  IF path = "/" THEN <<"/">> ELSE parts[1]

----------------------------------------------------------------------------
(* fs/ustar: node.cpp, dir.cpp, archive.cpp *)

IsDirectory(nodes, nd) == nd = Root \/ nodes[nd].directory

\* The first child of that name.
lookup(nodes, nd, name) ==
  LET named == {i \in DOMAIN nodes : nodes[i].parent = nd /\ nodes[i].name = name}
  IN  IF ~IsDirectory(nodes, nd) THEN NoNode
      ELSE IF name = "/" THEN Root
      ELSE IF named = {} THEN NoNode ELSE CHOOSE i \in named : \A j \in named : i <= j

findDir(nodes, parent, name) ==
  LET existing == lookup(nodes, parent, name)
  IN  IF existing # NoNode /\ IsDirectory(nodes, existing) THEN existing ELSE NoNode

NewNode(parent, name, directory, data) ==
  [parent |-> parent, name |-> name, directory |-> directory, data |-> data]
createDir(nodes, parent, name) == Append(nodes, NewNode(parent, name, TRUE, ""))

\* The directory above the last part, created where it is missing.
Parent(nodes, parts) ==
  LET path[i \in 0..(Len(parts) - 1)] ==
        IF i = 0 THEN [nodes |-> nodes, at |-> Root]
        ELSE LET above == path[i - 1]
                 next == findDir(above.nodes, above.at, parts[i])
             IN  IF next # NoNode THEN [above EXCEPT !.at = next]
                 ELSE [nodes |-> createDir(above.nodes, above.at, parts[i]),
                       at |-> Len(above.nodes) + 1]
  IN  path[Len(parts) - 1]

\* Every entry makes a node, also when one of its name is there.
AddEntry(nodes, hdr, data) ==
  LET parts == parsePath(hdr.name)
      parent == Parent(nodes, parts)
  IN  IF parts = <<>> THEN nodes
      ELSE Append(parent.nodes, NewNode(parent.at, parts[Len(parts)], hdr.directory,
                                        IF hdr.directory THEN "" ELSE data))

Blocks(bytes) == (bytes + BlockSize - 1) \div BlockSize

\* Storage points behind the header.
Storage(archive, p, bytes) ==
  LET text[k \in 0..Blocks(bytes)] == IF k = 0 THEN "" ELSE text[k - 1] \o archive[p + k]
  IN  SubSeq(text[Blocks(bytes)], 1, bytes)

RECURSIVE ParseFrom(_, _, _)
ParseFrom(archive, p, nodes) ==
  LET hdr == archive[p]
      bytes == stringToInt(hdr.size, 8)
  IN  IF hdr.name = "" THEN nodes
      ELSE ParseFrom(archive, p + 1 + Blocks(bytes),
                     AddEntry(nodes, hdr, Storage(archive, p, bytes)))
parseArchive(archive) == ParseFrom(archive, 1, <<>>)

\* The archive tar writes of some files: full blocks, sizes in octal with leading
\* zeros, a header without a name at the end.
Tar(entries) ==
  LET data(e) == [k \in 1..((Len(e.data) + BlockSize - 1) \div BlockSize) |->
                    SubSeq(e.data \o Repeat("0", BlockSize), (k - 1) * BlockSize + 1, k * BlockSize)]
      header(e) == [name |-> e.name, size |-> "00" \o utoa(Len(e.data), 8),
                    directory |-> At(e.name, Len(e.name)) = "/"]
      blocks[i \in 0..Len(entries)] ==
        IF i = 0 THEN <<>> ELSE blocks[i - 1] \o <<header(entries[i])>> \o data(entries[i])
  IN  Append(blocks[Len(entries)], [name |-> "", size |-> "", directory |-> FALSE])

----------------------------------------------------------------------------
(* fs/vfs: node.cpp, file.cpp *)

\* The drive's letter and colon come first; the count of references is Vfs'.
lookupNode(nodes, path) ==
  LET parts == parsePath(From(path, 3))
      at[i \in 0..Len(parts)] ==
        IF i = 0 THEN Root
        ELSE IF at[i - 1] = NoNode THEN NoNode ELSE lookup(nodes, at[i - 1], parts[i])
  IN  IF Len(path) < 3 THEN NoNode ELSE at[Len(parts)]

\* A directory cannot be opened.
open(nodes, path) ==
  LET nd == lookupNode(nodes, path)
  IN  IF nd = NoNode \/ IsDirectory(nodes, nd) THEN NoNode ELSE nd

NewFile(data) == [data |-> data, cursor |-> 0]

\* Mutant of seek: Begin leaves the cursor where it is.
SeekFromCursor(file, position, whence) ==
  [file EXCEPT !.cursor = (@ + position) % (ULongMax + 1)]

\* SeekOrigin::End starts from the member size, which nothing sets: left out.
seek(file, position, whence) ==
  [file EXCEPT !.cursor =
     ((IF whence = "Begin" THEN 0 ELSE @) + position) % (ULongMax + 1)]

\* At the end of the data nothing is copied and the call fails.
read(file, n) ==
  LET rem == Len(file.data) - file.cursor
      copied == IF n < rem THEN n ELSE rem
  IN  IF file.cursor >= Len(file.data) THEN [bytes |-> "", eof |-> TRUE, file |-> file]
      ELSE [bytes |-> SubSeq(file.data, file.cursor + 1, file.cursor + copied), eof |-> FALSE,
            file |-> [file EXCEPT !.cursor = @ + copied]]

----------------------------------------------------------------------------
(* stdio/file.c and Melon's file.cpp: a stream reads one character at a time.  The   *)
(* byte 255, which a char takes for EOF, is none of the model's characters.          *)

\* EOF is -1, which no character is.
Eof == "eof"
fgetc(file) ==
  LET got == read(file, 1) IN [ch |-> IF got.eof THEN Eof ELSE got.bytes, file |-> got.file]

\* Characters up to the newline, and it too, or to the count less one.
RECURSIVE GetsFrom(_, _, _)
GetsFrom(file, count, str) ==
  LET got == fgetc(file)
  IN  IF count <= 1 \/ got.ch = Eof THEN [str |-> str, file |-> file]
      ELSE IF got.ch = "\n" THEN [str |-> str \o got.ch, file |-> got.file]
      ELSE GetsFrom(got.file, count - 1, str \o got.ch)
fgets(file, count) == GetsFrom(file, count, "")

RECURSIVE LineFrom(_, _)
LineFrom(file, str) ==
  LET got == fgetc(file)
  IN  IF got.ch \in {Eof, "\n"} THEN str ELSE LineFrom(got.file, str \o got.ch)

RECURSIVE Below(_, _)
Below(file, lineno) ==
  LET got == fgetc(file)
  IN  IF lineno = 0 \/ got.ch = Eof THEN file
      ELSE Below(got.file, IF got.ch = "\n" THEN lineno - 1 ELSE lineno)
readLine(file, lineno) == LineFrom(Below(seek(file, 0, "Begin"), lineno), "")

RECURSIVE BytesFrom(_, _)
BytesFrom(file, bytes) ==
  LET got == fgetc(file)
  IN  IF got.ch = Eof THEN bytes ELSE BytesFrom(got.file, bytes \o got.ch)
readAll(file) == BytesFrom(seek(file, 0, "Begin"), "")

readBytes(file, n) == read(seek(file, 0, "Begin"), n).bytes
====
