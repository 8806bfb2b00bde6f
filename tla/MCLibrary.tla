---- MODULE MCLibrary ----
\* Values of the library's constants that a .cfg cannot write.
EXTENDS Library, TLC

MCNumbers == (-520..520) \union {-1030, 1022, 1023, 1024}
MCArguments == {-128, -1, 0, 9, 127, 255}
MCPieces == {"a", "%d", "%u", "%x", "%o", "%b", "%s", "%f"}
MCBraces == TextsOf({"a", "{", "}"}, 5)
MCWords == {"", "a", "xa", "{}"}
MCEntries == [name : {"./a", "./d/a", "./d", "./d/a/c"}, data : {"x", "xyz"}]
               \union [name : {"./", "./d/"}, data : {""}]
MCArchives == UNION {[1..n -> MCEntries] : n \in 1..3}
                \union [1..1 -> [name : {"./a"}, data : TextsOf({"x", "\n"}, 5)]]
MCQueries == {"I:/a", "I://a", "I:/d", "I:/d/", "I:/d/a", "I:/d//a/", "I:/d/a/c", "I:/", "I:", "I:/b"}
MCMemories == [1..5 -> {"a", "b", Nul}]
\* Vectors and objects are only compared, never chosen among.
MCSymmetry == Permutations(Vecs) \union Permutations(Objects)
====
