---- MODULE CashLexer ----
(***************************************************************************)
(* CASH, the shell: lexer.cpp.  A token is a type and the text it stands   *)
(* for; its position, which only error messages show, is left out.  The    *)
(* byte 0xFF, which the lexer takes for the end of a file, is not among    *)
(* the characters.                                                         *)
(***************************************************************************)
EXTENDS LibcNumbers
LOCAL INSTANCE TLC

IsWordChar(c) == isalpha(c) \/ isdigit(c) \/ c = "_"

Keywords == "var" :> "Var" @@ "const" :> "Const" @@ "true" :> "True" @@ "false" :> "False"
            @@ "and" :> "And" @@ "or" :> "Or" @@ "xor" :> "Xor" @@ "not" :> "Not"

Symbols == "+" :> "Plus" @@ "-" :> "Minus" @@ "*" :> "Star" @@ "/" :> "Slash"
           @@ "(" :> "LeftParenthesis" @@ ")" :> "RightParenthesis"
           @@ "[" :> "LeftSquareBrace" @@ "]" :> "RightSquareBrace" @@ "," :> "Comma"

\* Characters that, with an = behind them, are another token.
Widened == "=" :> [alone |-> "Equal", wide |-> "EqualEqual"]
           @@ "<" :> [alone |-> "LesserThan", wide |-> "LesserThanEqual"]
           @@ ">" :> [alone |-> "GreaterThan", wide |-> "GreaterThanEqual"]

Token(type, value) == [type |-> type, value |-> value]
NameToken(word) == Token(IF word \in DOMAIN Keywords THEN Keywords[word] ELSE "Name", word)

\* Whether the line that starts at i is a command: it starts with a word that no
\* operator follows, or with a character that starts no expression.
LooksLikeCommandStart(s, i) ==
  LET c == At(s, i)
      stop == Span(s, i, IsWordChar)
      next == At(s, Span(s, stop, isspace))
  IN  /\ ~isdigit(c) /\ c \notin {"+", "-", "(", "\"", "["}
      /\ isalpha(c) \/ c = "_" =>
           /\ SubSeq(s, i, stop - 1) \notin DOMAIN Keywords
           /\ next \notin {"=", "+", "-", "*", "/", "!", "<", ">", "["}

\* The column is 0 on the first character of the text and behind a newline.
AtColumn0(s, i) == i = 1 \/ At(s, i - 1) = "\n"

\* Tokens from i on; ok is FALSE when an illegal character stopped the lexer.  The
\* character behind =, < or > is skipped even when it belongs to no operator.
RECURSIVE LexFrom(_, _)
LexFrom(s, from) ==
  LET i == Span(s, from, isspace)
      c == At(s, i)
      wide == At(s, i + 1) = "="
      Until(P(_)) == Span(s, i, P)
      quote == Span(s, i + 1, LAMBDA d : d # "\"")
      Then(token, next) == LET rest == LexFrom(s, next)
                           IN  [rest EXCEPT !.tokens = <<token>> \o @]
      raw == Until(LAMBDA d : d # "\n")
  IN  IF from > Len(s) \/ i > Len(s) THEN [tokens |-> <<>>, ok |-> TRUE]
      ELSE IF AtColumn0(s, i) /\ LooksLikeCommandStart(s, i)
      THEN Then(Token("RawLine", SubSeq(s, i, raw - 1)), raw)
      ELSE CASE isdigit(c) ->
                  Then(Token("Integer", SubSeq(s, i, Until(isdigit) - 1)), Until(isdigit))
             [] isalpha(c) \/ c = "_" ->
                  Then(NameToken(SubSeq(s, i, Until(IsWordChar) - 1)), Until(IsWordChar))
             [] c \in DOMAIN Symbols -> Then(Token(Symbols[c], c), i + 1)
             [] c \in DOMAIN Widened ->
                  Then(IF wide THEN Token(Widened[c].wide, c \o "=")
                       ELSE Token(Widened[c].alone, c), i + 2)
             [] c = "\"" -> Then(Token("String", SubSeq(s, i + 1, quote - 1)), quote + 1)
             [] c = "!" /\ wide -> Then(Token("NotEqual", "!="), i + 2)
             [] OTHER -> [tokens |-> <<>>, ok |-> FALSE]

Lex(s) == LexFrom(s, 1)
====
