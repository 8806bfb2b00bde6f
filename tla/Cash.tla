---- MODULE Cash ----
(***************************************************************************)
(* CASH: repl.cpp, main.cpp and runCommand of interpreter.cpp.             *)
(*                                                                         *)
(* A line, or a file given with -f, is lexed, parsed and interpreted node  *)
(* by node.  A command forks: the parent waits, the child executes the     *)
(* program, and when exec fails the child is one more shell, which goes on *)
(* with the rest of the line.  shells is that chain of processes: the last *)
(* one runs, each of the others waits for the one behind it.  The program  *)
(* a child becomes is external.                                            *)
(***************************************************************************)
EXTENDS CashInterpreter, CashGrammar, FiniteSets

CONSTANTS Statements,  \* texts the user types or files hold
          Wrong,       \* and, as a first line only, with the expressions, texts that are
                       \* no lines of the language
          MaxShells    \* bound on the chain of shells

VARIABLES mode,        \* "repl", or "file" when the arguments name files
          stage,       \* what the running shell does next
          shells       \* line, tokens, nodes left, values and symbols of each shell
vars == <<mode, stage, shells>>

Probes == Wrong \union Expressions

Running == Len(shells)
Shell == shells[Running]
NextNode == Head(Shell.nodes)

Init == /\ mode \in {"repl", "file"}
        /\ stage = "reading"
        /\ shells = <<[line |-> "", tokens |-> <<>>,
                      nodes |-> <<>>, values |-> <<>>, table |-> NewTable]>>

\* An uncaught exception ends the shell; the one that waits for it goes on.
Dies == /\ shells' = IF Running = 1 THEN shells ELSE SubSeq(shells, 1, Running - 1)
        /\ stage' = IF Running = 1 THEN "ended" ELSE "interpreting"

\* A line with an illegal character is given up; so are the files behind one.
Read(l) ==
  LET lexed == Lex(l)
  IN  /\ stage = "reading" /\ l # ""
      /\ shells' = [shells EXCEPT ![Running].line = l, ![Running].tokens = lexed.tokens]
      /\ stage' = IF lexed.ok THEN "parsing" ELSE IF mode = "file" THEN "ended" ELSE "reading"
      /\ UNCHANGED mode

\* main returns behind its last argument.
EndOfArguments == /\ stage = "reading" /\ mode = "file"
                  /\ stage' = "ended" /\ UNCHANGED <<mode, shells>>

\* The parser's nodes go to the interpreter, which is reset.
ParseLine ==
  LET parsed == Parse(Shell.tokens)
      shell == [Shell EXCEPT !.nodes = parsed.nodes, !.values = <<>>,
                             !.table = ClearSymbols(@)]
  IN  /\ stage = "parsing"
      /\ IF parsed.fault THEN Dies
         ELSE stage' = "interpreting" /\ shells' = [shells EXCEPT ![Running] = shell]
      /\ UNCHANGED mode

\* The shell behind its next node, whose value is the given one.
Behind(shell, value, table) ==
  [shell EXCEPT !.nodes = Tail(@), !.values = Append(@, value), !.table = table]

EvaluateNode ==
  /\ stage = "interpreting" /\ Shell.nodes # <<>>
  /\ NextNode[1] # "Command"
  /\ \E result \in {Evaluate(NextNode, Shell.table, junk) : junk \in {"null", "stray"}} :
       IF result.fault THEN Dies
       ELSE /\ shells' = [shells EXCEPT ![Running] = Behind(@, result.value, result.table)]
            /\ UNCHANGED stage
  /\ UNCHANGED mode

\* The words are evaluated and made texts, then the shell forks.
RunCommand ==
  /\ stage = "interpreting" /\ Shell.nodes # <<>> /\ NextNode[1] = "Command"
  /\ Running < MaxShells
  /\ LET argv == EvaluateAll(NextNode[2], Shell.table, "null")
     IN  IF \E i \in DOMAIN argv.value : Unprintable(argv.value[i]) THEN Dies
         ELSE shells' = Append(shells, Shell) /\ stage' = "executing"
  /\ UNCHANGED mode

\* Both sides of the fork give null for the command.
AfterCommand(k) == [shells EXCEPT ![k] = Behind(@, Null, @.table)]

\* The program the child became runs and ends: wait returns in the shell.
ProgramEnds == /\ stage = "executing"
               /\ stage' = "interpreting"
               /\ shells' = SubSeq(AfterCommand(Running - 1), 1, Running - 1)
               /\ UNCHANGED mode

\* exec returns: the child goes on as a shell while its parent waits.
ExecFails ==
  /\ stage = "executing"
  /\ stage' = "interpreting"
  /\ shells' = [k \in DOMAIN shells |->
                  IF k >= Running - 1 THEN Behind(shells[k], Null, shells[k].table)
                  ELSE shells[k]]
  /\ UNCHANGED mode

\* The values that are not null are printed, and the next line is read.
PrintValues ==
  /\ stage = "interpreting" /\ Shell.nodes = <<>>
  /\ IF \E i \in DOMAIN Shell.values : Unprintable(Shell.values[i]) THEN Dies
     ELSE stage' = "reading" /\ UNCHANGED shells
  /\ UNCHANGED mode

Next == \/ \E l \in Statements : Read(l)
        \/ Shell.line = "" /\ \E l \in Probes : Read(l)
        \/ EndOfArguments
        \/ ParseLine
        \/ EvaluateNode
        \/ RunCommand
        \/ ProgramEnds
        \/ ExecFails
        \/ PrintValues

Spec == Init /\ [][Next]_vars

----------------------------------------------------------------------------

\* An expression is parsed to the tree it shows: precedence and the order of the
\* operators are those of the grammar, and every token is used, whatever the depth.
ExpressionsParse ==
  stage = "interpreting" /\ Shell.line \in Expressions /\ Shell.values = <<>>
    => /\ Len(Shell.nodes) = 1 /\ Shell.nodes[1] \in Trees
       /\ LineOf(Shell.nodes[1]) = Shell.line

\* The parser leaves the tokens only where an element of a list is left open: any
\* other text, however wrong, gives nodes and leaves the shell running.
OpenBracket(t) ==
  \E i \in DOMAIN t :
    LET from == i..Len(t)
    IN  /\ t[i].type = "Name" /\ Is(t, i + 1, "LeftSquareBrace")
        /\ Cardinality({j \in from : t[j].type = "RightSquareBrace"})
             < Cardinality({j \in from : t[j].type = "LeftSquareBrace"})
ParserFaultsAtOpenBracket ==
  [][stage = "parsing" /\ ~OpenBracket(Shell.tokens)
       => stage' = "interpreting" /\ Len(shells') = Running]_vars

\* A declaration is final: whatever lines, assignments within expressions and
\* further declarations follow, a symbol keeps its slot, its name and its type, a
\* constant its value, and no name has two symbols.
DeclarationsFinal ==
  [][\A k \in DOMAIN shells \intersect DOMAIN shells' :
       LET old == shells[k].table
           new == shells'[k].table
       IN  /\ \A i \in DOMAIN old :
                /\ i \in DOMAIN new
                /\ new[i].name = old[i].name /\ new[i].type = old[i].type
                /\ old[i].type = "Constant" => new[i].value = old[i].value
           /\ \A i, j \in DOMAIN new : new[i].name = new[j].name => i = j]_vars
====
