---- MODULE CashGrammar ----
(***************************************************************************)
(* The expressions of CASH as they are meant to be read: how a tree is     *)
(* written with no parenthesis its operators do without.  Operators of one *)
(* level apply from left to right; products bind tighter than sums; a sign *)
(* or not binds tighter than both; an assignment takes all that follows.   *)
(***************************************************************************)
EXTENDS CashParser

\* The trees shown, with every part of each.
CONSTANT Trees

Spelling == [op \in SumOperators \union ProductOperators \union UnaryOperators |->
  CASE op = "Plus" -> "+" [] op = "Minus" -> "-" [] op = "Star" -> "*" [] op = "Slash" -> "/"
    [] op = "Or" -> "or" [] op = "Xor" -> "xor" [] op = "And" -> "and" [] op = "Not" -> "not"
    [] op = "EqualEqual" -> "==" [] op = "NotEqual" -> "!="
    [] op = "LesserThan" -> "<" [] op = "LesserThanEqual" -> "<="
    [] op = "GreaterThan" -> ">" [] op = "GreaterThanEqual" -> ">="]

Level(tree) == CASE tree[1] = "Assign" -> 0
                 [] tree[1] = "Binary" -> IF tree[2] \in SumOperators THEN 1 ELSE 2
                 [] OTHER -> 3

Show[tree \in Trees] ==
  LET Part(i, least) == IF Level(tree[i]) < least THEN "( " \o Show[tree[i]] \o " )"
                        ELSE Show[tree[i]]
      shown == [i \in DOMAIN tree[2] |-> Show[tree[2][i]]]
      joined[i \in 0..Len(tree[2])] ==
        IF i = 0 THEN "" ELSE joined[i - 1] \o (IF i = 1 THEN "" ELSE " , ") \o shown[i]
  IN  CASE tree[1] \in {"Integer", "Bool", "Name"} -> tree[2]
        [] tree[1] = "String" -> "\"" \o tree[2] \o "\""
        [] tree[1] = "Unary" -> Spelling[tree[2]] \o " " \o Part(3, 3)
        [] tree[1] = "Binary" -> Part(3, Level(tree)) \o " " \o Spelling[tree[2]] \o " "
                                 \o Part(4, Level(tree) + 1)
        [] tree[1] = "Assign" -> tree[2] \o " = " \o Part(4, 0)
        [] tree[1] = "List" -> "[ " \o joined[Len(tree[2])] \o " ]"

\* A blank in front keeps a line that starts with a name from being a command.
LineOf(tree) == " " \o Show[tree]
Expressions == {LineOf(tree) : tree \in Trees}
====
