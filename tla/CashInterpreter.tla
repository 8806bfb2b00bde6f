---- MODULE CashInterpreter ----
(***************************************************************************)
(* CASH: symbol.cpp, value.cpp and the evaluation of interpreter.cpp.      *)
(*                                                                         *)
(* A value is <<"null">>, <<"string", s>>, <<"int", n>>, <<"bool", b>> or  *)
(* <<"list", values>>.  int is the two's complement type of LibcNumbers.   *)
(* Evaluating a node gives its value and the symbol table it leaves, or    *)
(* fault when the shell does not survive it: a null node, the node an      *)
(* uninitialised pointer designates, the division idiv refuses.  junk is   *)
(* what that pointer holds: "null" or "stray".                             *)
(***************************************************************************)
EXTENDS CashParser

Null == <<"null">>
OfInt(n) == <<"int", n>>
OfBool(b) == <<"bool", b>>
OfText(s) == <<"string", s>>
OfList(values) == <<"list", values>>

----------------------------------------------------------------------------
(* value.cpp *)

\* Values without a text: toString, of the elements of a list too, throws on the least int.
RECURSIVE Unprintable(_)
Unprintable(value) ==
  \/ value = OfInt(-IntMax - 1)
  \/ value[1] = "list" /\ \E i \in DOMAIN value[2] : Unprintable(value[2][i])

ToInt(value) == CASE value[1] = "string" -> Atoi(value[2])
                  [] value[1] = "int" -> value[2]
                  [] value[1] = "bool" -> IF value[2] THEN 1 ELSE 0
                  [] value[1] \in {"null", "list"} -> 0

ToVector(value) == IF value[1] = "list" THEN value[2] ELSE <<>>

----------------------------------------------------------------------------
(* symbol.cpp: the first symbol stands for the names that are not declared *)

Undefined == "__undefined__"
Symbol(name, value, type) == [name |-> name, value |-> value, type |-> type]
NewTable == <<Symbol(Undefined, Null, "Constant")>>

SlotsOf(table, name) == {i \in DOMAIN table : table[i].name = name}
HasSymbol(table, name) == SlotsOf(table, name) # {}

GetSymbol(table, name) ==
  IF HasSymbol(table, name)
  THEN table[CHOOSE i \in SlotsOf(table, name) : \A j \in SlotsOf(table, name) : i <= j]
  ELSE table[1]

\* Mutant of AddSymbol: a second declaration is one more symbol.
AddSymbolAgain(table, symbol) == Append(table, symbol)

AddSymbol(table, symbol) ==
  IF HasSymbol(table, symbol.name) THEN table ELSE Append(table, symbol)

SetSymbolValue(table, name, value) ==
  IF ~HasSymbol(table, name) \/ GetSymbol(table, name).type = "Constant" THEN table
  ELSE LET slot == CHOOSE i \in SlotsOf(table, name) : \A j \in SlotsOf(table, name) : i <= j
       IN  [table EXCEPT ![slot].value = value]

\* Erases the symbols in front of the undefined one: none.
ClearSymbols(table) ==
  SubSeq(table, CHOOSE i \in SlotsOf(table, Undefined) :
                  \A j \in SlotsOf(table, Undefined) : i <= j, Len(table))

----------------------------------------------------------------------------
(* interpreter.cpp *)

Result(value, table) == [value |-> value, table |-> table, fault |-> FALSE]
Crash(table) == [value |-> Null, table |-> table, fault |-> TRUE]

\* The overflow of int, undefined in C++: the processor's wrap.
Wrap(n) == ((n + IntMax + 1) % (2 * IntMax + 2)) - IntMax - 1
Magnitude(n) == IF n < 0 THEN -n ELSE n
Quotient(l, r) == IF (l < 0) = (r < 0) THEN Magnitude(l) \div Magnitude(r)
                  ELSE -(Magnitude(l) \div Magnitude(r))

Unary(op, n) == CASE op = "Not" -> OfBool(n = 0)
                  [] op = "Plus" -> OfInt(n)
                  [] op = "Minus" -> OfInt(Wrap(-n))

\* Texts are only added and compared for equality; anything else is made an int.
Binary(op, left, right) ==
  LET l == ToInt(left)
      r == ToInt(right)
      texts == left[1] = "string" /\ right[1] = "string"
  IN  CASE op = "Plus" -> IF texts THEN OfText(left[2] \o right[2]) ELSE OfInt(Wrap(l + r))
        [] op = "EqualEqual" -> OfBool(IF texts THEN left[2] = right[2] ELSE l = r)
        [] op = "NotEqual" -> OfBool(IF texts THEN left[2] # right[2] ELSE l # r)
        [] op = "And" -> OfBool(l # 0 /\ r # 0)
        [] op = "Or" -> OfBool(l # 0 \/ r # 0)
        [] op = "Xor" -> OfBool(l # r)
        [] op = "LesserThan" -> OfBool(l < r)
        [] op = "LesserThanEqual" -> OfBool(l <= r)
        [] op = "GreaterThan" -> OfBool(l > r)
        [] op = "GreaterThanEqual" -> OfBool(l >= r)
        [] op = "Minus" -> OfInt(Wrap(l - r))
        [] op = "Star" -> OfInt(Wrap(l * r))
        [] op = "Slash" -> IF r = 0 THEN Null ELSE OfInt(Quotient(l, r))

DivisionTraps(op, left, right) ==
  op = "Slash" /\ ToInt(left) = -IntMax - 1 /\ ToInt(right) = -1

RECURSIVE Evaluate(_, _, _), EvaluateAll(_, _, _)

\* The nodes of a sequence from left to right: the value is the sequence of theirs.
EvaluateAll(nodes, table, junk) ==
  LET Joined(first, rest) == IF rest.fault THEN rest
                             ELSE Result(<<first>> \o rest.value, rest.table)
      Behind(first) == IF first.fault THEN first
                       ELSE Joined(first.value, EvaluateAll(Tail(nodes), first.table, junk))
  IN  IF nodes = <<>> THEN Result(<<>>, table) ELSE Behind(Evaluate(Head(nodes), table, junk))

Operated(op, both) ==
  IF both.fault \/ DivisionTraps(op, both.value[1], both.value[2]) THEN Crash(both.table)
  ELSE Result(Binary(op, both.value[1], both.value[2]), both.table)

\* The vector a name stands for, and the place an index designates in it.
VectorOf(table, name) == ToVector(GetSymbol(table, name).value)
Place(index) == ToInt(index.value) + 1

Element(name, index) ==
  LET vector == VectorOf(index.table, name)
  IN  IF index.fault THEN index
      ELSE Result(IF Place(index) \in DOMAIN vector THEN vector[Place(index)] ELSE Null,
                  index.table)

\* A word that is not declared is itself in a command and null in an expression.
EvaluateName(node, table, junk) ==
  LET symbol == GetSymbol(table, node[2])
  IN  IF symbol.name = Undefined
      THEN Result(IF node[3] = "" THEN Null ELSE OfText(node[3]), table)
      ELSE IF node[4] = NoNode THEN Result(symbol.value, table)
      ELSE Element(node[2], Evaluate(node[4], table, junk))

\* The store, which a constant refuses, and the value the name then has.
Stored(name, table, value) ==
  LET stored == SetSymbolValue(table, name, value)
  IN  Result(GetSymbol(stored, name).value, stored)

StoredAt(name, index, value) ==
  LET vector == VectorOf(index.table, name)
  IN  IF index.fault THEN index
      ELSE IF Place(index) \in DOMAIN vector
      THEN Stored(name, index.table, OfList([vector EXCEPT ![Place(index)] = value]))
      ELSE Result(Null, index.table)

\* The value, then the index, then the store.
EvaluateAssign(node, value, junk) ==
  IF value.fault THEN value
  ELSE IF GetSymbol(value.table, node[2]).name = Undefined THEN Result(Null, value.table)
  ELSE IF node[3] = NoNode \/ (node[3] = Junk /\ junk = "null")
  THEN Stored(node[2], value.table, value.value)
  ELSE StoredAt(node[2], Evaluate(node[3], value.table, junk), value.value)

Declare(node, value, type) ==
  IF value.fault THEN value
  ELSE Result(Null, AddSymbol(value.table, Symbol(node[2], value.value, type)))

\* A result with another value, unless it is a fault.
Given(result, Value(_)) ==
  IF result.fault THEN result ELSE Result(Value(result.value), result.table)

\* Every node but a command, which RunCommand of module Cash takes.
Evaluate(node, table, junk) ==
  IF node = NoNode \/ node = Junk THEN Crash(table)
  ELSE CASE node[1] = "VarDecl" -> Declare(node, Evaluate(node[3], table, junk), "Variable")
         [] node[1] = "ConstDecl" -> Declare(node, Evaluate(node[3], table, junk), "Constant")
         [] node[1] = "Unary" -> Given(Evaluate(node[3], table, junk),
                                       LAMBDA v : Unary(node[2], ToInt(v)))
         [] node[1] = "Binary" ->
              Operated(node[2], EvaluateAll(<<node[3], node[4]>>, table, junk))
         [] node[1] = "Integer" -> Result(OfInt(Atoi(node[2])), table)
         [] node[1] = "Bool" -> Result(OfBool(node[2] = "true"), table)
         [] node[1] = "String" -> Result(OfText(node[2]), table)
         [] node[1] = "Name" -> EvaluateName(node, table, junk)
         [] node[1] = "Assign" -> EvaluateAssign(node, Evaluate(node[4], table, junk), junk)
         [] node[1] = "List" -> Given(EvaluateAll(node[2], table, junk), OfList)
====
