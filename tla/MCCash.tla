---- MODULE MCCash ----
(* An instance of Cash for TLC. *)
EXTENDS Cash

MCStatements ==
  {"var a = 1", "const a = 2", "const b = [ 1 , a ]", "var b = \"x\"", " a = 2", " a [ 0 ] = 7",
   " b [ 1 ] = a = 2", " a + b [ 0 ]", "a", "ls a \"b c\"", "ls\n/d -e", "const c =", "!",
   "var a = [ 3 , 0 ]", " 1 / 0 - 127 - 1", " b = a == a"}

Atoms == {NodeInteger("1"), NodeName("b", "", NoNode)}
Ops == {"Minus", "LesserThan", "Star"}
Grown(trees) == trees \union {NodeBinaryOp(op, l, r) : op \in Ops, l \in trees, r \in trees}
                      \union {NodeUnaryOp(op, t) : op \in {"Minus", "Not"}, t \in trees}
Small == Grown(Atoms)
Lists == {NodeList(<<l, NodeBool("true")>>) : l \in Small}
Assigns == {NodeAssign("b", Junk, t) : t \in Small}
MCTrees == Small \union Grown({t \in Small : t[1] # "Unary" \/ t[2] = "Minus"})
             \union Lists \union Assigns \union {NodeBool("true")}
             \union {NodeBinaryOp(op, l, r) : op \in Ops, l \in Assigns, r \in Atoms}
             \union {NodeList(<<l>>) : l \in Assigns}

\* Lines of tokens in any order, most of them wrong.
Glyphs == {" a", " [", " ]", " 1", " (", " = ", " ,"}
Jumble[n \in Nat] == IF n = 0 THEN {""} ELSE {g \o l : g \in Glyphs, l \in Jumble[n - 1]}
MCWrong == UNION {Jumble[n] : n \in 1..4}
              \union {"var" \o l : l \in Jumble[3]}
====
