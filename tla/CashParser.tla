---- MODULE CashParser ----
(***************************************************************************)
(* CASH: parser.cpp, over the tokens t of a text.  Every function gives    *)
(* the node it built, NoNode when it built none, and the cursor it leaves, *)
(* which a failure often leaves behind what it read.  fault says that a    *)
(* token behind the last one was read: Vector throws OutOfRange and        *)
(* nothing in the shell catches it.  Error messages are left out.          *)
(*                                                                         *)
(* Nodes (ast.hpp) are tuples that begin with their type.  An assignment   *)
(* without an index has Junk for index, the pointer parseAssign declares   *)
(* and sets only behind a bracket.                                         *)
(***************************************************************************)
EXTENDS CashLexer

NoNode == <<>>
Junk == <<"Junk">>

NodeVarDecl(name, value) == <<"VarDecl", name, value>>
NodeConstDecl(name, value) == <<"ConstDecl", name, value>>
NodeUnaryOp(op, value) == <<"Unary", op, value>>
NodeBinaryOp(op, left, right) == <<"Binary", op, left, right>>
NodeInteger(value) == <<"Integer", value>>
NodeBool(value) == <<"Bool", value>>
NodeName(name, fallback, index) == <<"Name", name, fallback, index>>
NodeString(value) == <<"String", value>>
NodeAssign(name, index, value) == <<"Assign", name, index, value>>
NodeList(content) == <<"List", content>>
NodeCommand(words) == <<"Command", words>>

Found(node, i) == [node |-> node, at |-> i, fault |-> FALSE]
Lost(i) == Found(NoNode, i)
Fault == [node |-> NoNode, at |-> 0, fault |-> TRUE]
Failed(r) == r.fault \/ r.node = NoNode

\* expect
Is(t, i, type) == i <= Len(t) /\ t[i].type = type
IsOneOf(t, i, types) == i <= Len(t) /\ t[i].type \in types

\* What a missing token costs: its error message reads the token at the cursor.
Missing(t, i) == IF i > Len(t) THEN Fault ELSE Lost(i)

SumOperators == {"Plus", "Minus", "Or", "Xor", "EqualEqual", "NotEqual", "LesserThan",
                 "LesserThanEqual", "GreaterThan", "GreaterThanEqual"}
ProductOperators == {"Star", "Slash", "And"}
UnaryOperators == {"Plus", "Minus", "Not"}

RECURSIVE ParseExpr(_, _), ExprTail(_, _), ParseTerm(_, _), TermTail(_, _),
          ParsePrimaryExpr(_, _), ParseUnaryOp(_, _), ParseName(_, _),
          ParseAssign(_, _), ParseList(_, _), ListTail(_, _, _)

\* Mutant of ExprTail: the operators are applied from the right.
ExprTailFromRight(t, left) ==
  LET right == ParseExpr(t, left.at + 1)
  IN  IF Failed(left) \/ ~IsOneOf(t, left.at, SumOperators) THEN left
      ELSE IF Failed(right) THEN right
      ELSE Found(NodeBinaryOp(t[left.at].type, left.node, right.node), right.at)

\* Terms with operators between them, the leftmost applied first.
ExprTail(t, left) ==
  LET right == ParseTerm(t, left.at + 1)
  IN  IF Failed(left) \/ ~IsOneOf(t, left.at, SumOperators) THEN left
      ELSE IF Failed(right) THEN right
      ELSE ExprTail(t, Found(NodeBinaryOp(t[left.at].type, left.node, right.node), right.at))

ParseExpr(t, i) == ExprTail(t, ParseTerm(t, i))

TermTail(t, left) ==
  LET right == ParsePrimaryExpr(t, left.at + 1)
  IN  IF Failed(left) \/ ~IsOneOf(t, left.at, ProductOperators) THEN left
      ELSE IF Failed(right) THEN right
      ELSE TermTail(t, Found(NodeBinaryOp(t[left.at].type, left.node, right.node), right.at))

ParseTerm(t, i) == TermTail(t, ParsePrimaryExpr(t, i))

\* The alternatives are tried in the order of the code, the later ones from where a
\* failed assignment or list left the cursor.
ListOrName(t, list) ==
  IF list.fault \/ list.node # NoNode THEN list ELSE ParseName(t, list.at)

AssignOrLater(t, assign) ==
  IF assign.fault \/ assign.node # NoNode THEN assign
  ELSE IF Is(t, assign.at, "String")
  THEN Found(NodeString(t[assign.at].value), assign.at + 1)
  ELSE ListOrName(t, ParseList(t, assign.at))

ParsePrimaryExpr(t, i) ==
  LET inner == ParseExpr(t, i + 1)
  IN  CASE IsOneOf(t, i, UnaryOperators) -> ParseUnaryOp(t, i)
        [] Is(t, i, "LeftParenthesis") ->
             IF inner.fault THEN Fault
             ELSE IF Is(t, inner.at, "RightParenthesis") THEN [inner EXCEPT !.at = @ + 1]
             ELSE Lost(inner.at)
        [] Is(t, i, "Integer") -> Found(NodeInteger(t[i].value), i + 1)
        [] IsOneOf(t, i, {"True", "False"}) -> Found(NodeBool(t[i].value), i + 1)
        [] OTHER -> AssignOrLater(t, ParseAssign(t, i))

\* The operand is one primary expression.
ParseUnaryOp(t, i) ==
  LET operand == ParsePrimaryExpr(t, i + 1)
  IN  IF Failed(operand) THEN operand
      ELSE Found(NodeUnaryOp(t[i].type, operand.node), operand.at)

\* A name, or an element of a list: the cursor stays on the closing bracket.
ParseName(t, i) ==
  LET index == ParseExpr(t, i + 2)
  IN  IF ~Is(t, i, "Name") THEN Lost(i)
      ELSE IF ~Is(t, i + 1, "LeftSquareBrace")
      THEN Found(NodeName(t[i].value, "", NoNode), i + 1)
      ELSE IF index.fault THEN Fault
      ELSE IF Is(t, index.at, "RightSquareBrace")
      THEN Found(NodeName(t[i].value, "", index.node), index.at)
      ELSE Missing(t, index.at)

\* A failed assignment gives its tokens back, unless a bracket is missing.
ParseAssign(t, i) ==
  LET indexed == Is(t, i + 1, "LeftSquareBrace")
      index == ParseExpr(t, i + 2)
      j == IF indexed THEN index.at + 1 ELSE i + 1
      value == ParseExpr(t, j + 1)
  IN  IF ~Is(t, i, "Name") THEN Lost(i)
      ELSE IF indexed /\ index.fault THEN Fault
      ELSE IF indexed /\ ~Is(t, index.at, "RightSquareBrace") THEN Missing(t, index.at)
      ELSE IF ~Is(t, j, "Equal") THEN Lost(i)
      ELSE IF value.fault THEN Fault
      ELSE IF value.node = NoNode THEN Lost(i)
      ELSE Found(NodeAssign(t[i].value, IF indexed THEN index.node ELSE Junk, value.node),
                 value.at)

ParseList(t, i) ==
  IF ~Is(t, i, "LeftSquareBrace") THEN Lost(i)
  ELSE IF Is(t, i + 1, "RightSquareBrace") THEN Found(NodeList(<<>>), i + 2)
  ELSE ListTail(t, i + 1, <<>>)

\* Mutant of ListTail: the end of the tokens is not checked behind an element.
ListTailUnchecked(t, i, content) ==
  LET element == ParseExpr(t, i)
      more == Append(content, element.node)
  IN  IF Failed(element) THEN element
      ELSE CASE Is(t, element.at, "Comma") -> ListTail(t, element.at + 1, more)
             [] Is(t, element.at, "RightSquareBrace") ->
                  Found(NodeList(more), element.at + 1)
             [] OTHER -> Missing(t, element.at)

ListTail(t, i, content) ==
  LET element == ParseExpr(t, i)
      more == Append(content, element.node)
  IN  IF Failed(element) THEN element
      ELSE CASE Is(t, element.at, "Comma") -> ListTail(t, element.at + 1, more)
             [] Is(t, element.at, "RightSquareBrace") ->
                  Found(NodeList(more), element.at + 1)
             [] OTHER -> Lost(element.at)

----------------------------------------------------------------------------

\* Words of a raw line: quotes keep blanks in a word and are dropped themselves.
RECURSIVE Words(_, _, _, _)
Words(s, i, curr, quoted) ==
  LET flushed == IF curr = "" THEN <<>> ELSE <<curr>>
      c == At(s, i)
  IN  IF i > Len(s) THEN flushed
      ELSE CASE c = "\"" -> Words(s, i + 1, curr, ~quoted)
             [] isspace(c) /\ ~quoted -> flushed \o Words(s, i + 1, "", quoted)
             [] OTHER -> Words(s, i + 1, curr \o c, quoted)

\* flushCommandWord: a word is a name whose fallback is itself.
CommandWord(word) == NodeName(word, word, NoNode)

ParseCommand(t, i) ==
  LET words == Words(t[i].value, 1, "", FALSE)
  IN  IF words = <<>> THEN Lost(i + 1)
      ELSE Found(NodeCommand([k \in DOMAIN words |-> CommandWord(words[k])]), i + 1)

\* A declaration without an expression behind the = still gives a node.
Declaration(constant, t, i) ==
  LET value == ParseExpr(t, i + 2)
  IN  IF ~Is(t, i, "Name") THEN Lost(i)
      ELSE IF ~Is(t, i + 1, "Equal") THEN Lost(i + 1)
      ELSE IF value.fault THEN Fault
      ELSE Found(IF constant THEN NodeConstDecl(t[i].value, value.node)
                 ELSE NodeVarDecl(t[i].value, value.node), value.at)

ParseVarDecl(t, i) == Declaration(FALSE, t, i)
ParseConstDecl(t, i) == Declaration(TRUE, t, i)

ParseDecl(t, i) == CASE Is(t, i, "Var") -> ParseVarDecl(t, i + 1)
                     [] Is(t, i, "Const") -> ParseConstDecl(t, i + 1)
                     [] OTHER -> Lost(i)

\* A declaration, else a command, else an expression.
CommandOrExpr(t, command) ==
  IF command.node # NoNode THEN command ELSE ParseExpr(t, command.at)

ParseStatement(t, decl) ==
  IF decl.fault \/ decl.node # NoNode THEN decl
  ELSE CommandOrExpr(t, IF Is(t, decl.at, "RawLine") THEN ParseCommand(t, decl.at) ELSE decl)

\* Statements until none is found: the rest is dropped.
RECURSIVE ParseFrom(_, _, _)
ParseFrom(t, i, nodes) ==
  LET Then(next) == IF Failed(next) THEN [nodes |-> nodes, fault |-> next.fault]
                    ELSE ParseFrom(t, next.at, Append(nodes, next.node))
  IN  IF i > Len(t) THEN [nodes |-> nodes, fault |-> FALSE]
      ELSE Then(ParseStatement(t, ParseDecl(t, i)))

Parse(t) == ParseFrom(t, 1, <<>>)
====
