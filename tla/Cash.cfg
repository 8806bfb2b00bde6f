\* Statements in any order, and expressions and wrong lines of up to four tokens.
SPECIFICATION Spec
CONSTANTS
    IntMax = 127
    LongMax = 511
    Statements <- MCStatements
    Wrong <- MCWrong
    Trees <- MCTrees
    MaxShells = 2
INVARIANTS
    ExpressionsParse
PROPERTIES
    ParserFaultsAtOpenBracket
    DeclarationsFinal
\* A shell ends with its files or an uncaught exception.
CHECK_DEADLOCK FALSE
