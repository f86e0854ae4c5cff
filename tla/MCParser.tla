------------------------------ MODULE MCParser ------------------------------
EXTENDS Parser, SequencesExt

\* A program is its lines, each an indentation level and tokens.  Together they
\* use every construct; comments, directives and semicolons included.
I == "IDENTIFIER"
F == <<0, <<"FUNC", I, "LPAREN", "RPAREN">>>>
In(lines) == <<F>> \o lines
At1(ts) == <<1, ts>>
Assign(e) == In(<<At1(<<I, "WALRUS">> \o e)>>)

Headers ==
  { << <<0, <<"PETIOLE", I>>>>, <<0, <<"SKILL", I>>>>, <<1, <<I, "COLON", "STRING">>>>,
       <<0, <<"IMPORT", "STRING", "AS", I>>>>, <<0, <<"IMPORT", "LPAREN", I, "STRING", "RPAREN">>>>,
       <<0, <<"CONST", I, "ASSIGN", "INTEGER">>>> >>,
    << <<0, <<"DIRECTIVE">>>>, <<0, <<"TYPE", I>>>>, <<1, <<I, I, "AS", "STRING", "COMMENT">>>>,
       <<1, <<I, "MAP", "OF", I, "TO", "LIST", "OF", I, I, "COLON", "STRING">>>>,
       <<0, <<"DIRECTIVE">>>>, F, <<1, <<"RETURN">>>> >>,
    << <<0, <<"TYPE", I, "FUNC", "LPAREN", I, "COMMA", "STAR", I, "RPAREN", "LPAREN", I, "COMMA", "ERROR", "RPAREN">>>>,
       <<0, <<"DIRECTIVE">>>>, <<0, <<"INTERFACE", I>>>>, <<1, <<I, "LPAREN", "RPAREN", "REFERENCE", I>>>>,
       <<0, <<"TYPE", I, "ASSIGN", "CHANNEL", "OF", I>>>> >>,
    << <<0, <<"ENUM", I>>>>, <<1, <<I>>>>, <<2, <<I, I>>>>, <<1, <<I, "ASSIGN", "INTEGER">>>>,
       <<0, <<"DIRECTIVE">>>>, <<0, <<"CONST">>>>, <<1, <<I, "ASSIGN", "INTEGER">>>>,
       <<0, <<"VAR", I, "COMMA", I, I, "ASSIGN", "STRING", "COMMA", "BOOL">>>> >>,
    << <<0, <<"FUNC", "LPAREN", I, "STAR", I, "RPAREN", I, "LPAREN", I, I, "COMMA", I, I, "ASSIGN", "INTEGER", "RPAREN">>>>,
       <<1, <<"RETURN">>>>,
       <<0, <<"FUNC", I, "ON", I, I, "LPAREN", "MANY", I, "RPAREN", "LPAREN", I, "COMMA", "ERROR", "RPAREN">>>>,
       <<1, <<"DIRECTIVE">>>>, <<1, <<"RETURN", I, "ONERR", I, "COMMA", "EMPTY">>>>,
       <<0, <<"FUNC", I>>>>, <<1, <<"BREAK">>>> >> }

Bodies ==
  { In(<< <<1, <<"IF", I, "WALRUS", I, "SEMICOLON", I, "COMPARE", "INTEGER">>>>, <<2, <<"RETURN", "INTEGER", "COMMA", I>>>>,
          <<1, <<"ELSE", "IF", I>>>>, <<2, <<"CONTINUE">>>>, <<1, <<"ELSE">>>>, <<2, <<I, "PLUS_PLUS">>>> >>),
    In(<< <<1, <<"SWITCH", I>>>>, <<2, <<"CASE", "INTEGER", "COMMA", I>>>>, <<3, <<"BREAK">>>>,
          <<2, <<"DEFAULT">>>>, <<3, <<I, "ASSIGN", I, "ONERR", "RETURN">>>> >>),
    In(<< <<1, <<"SWITCH", I, "AS", I>>>>, <<2, <<"CASE", "REFERENCE", I>>>>, <<3, <<"RETURN">>>>,
          <<1, <<I, "PIPE", "SWITCH">>>>, <<2, <<"DEFAULT">>>>, <<3, <<"RETURN">>>>,
          <<1, <<"RETURN", I, "PIPE", "SWITCH", "AS", I>>>>, <<2, <<"CASE", I>>>>, <<3, <<"BREAK">>>> >>),
    In(<< <<1, <<"SELECT">>>>, <<2, <<"CASE", I, "WALRUS", "RECEIVE", "FROM", I>>>>, <<3, <<"BREAK">>>>,
          <<2, <<"CASE", "RECEIVE", "FROM", I>>>>, <<3, <<"BREAK">>>>,
          <<2, <<"CASE", "SEND", I, "TO", I>>>>, <<3, <<"BREAK">>>> >>),
    In(<< <<1, <<"FOR", I, "IN", I>>>>, <<2, <<"FOR">>>>, <<3, <<"BREAK">>>>,
          <<1, <<"FOR", I, "COMMA", I, "IN", I>>>>, <<2, <<"TYPE", I>>>>, <<3, <<I, I>>>> >>),
    In(<< <<1, <<"FOR", I, "FROM", "INTEGER", "THROUGH", I>>>>, <<2, <<"BREAK">>>>,
          <<1, <<"FOR", I, "COMPARE", I>>>>, <<2, <<"SEND", I, "TO", I>>>> >>),
    In(<< <<1, <<"DEFER", I, "DOT", I, "LPAREN", "RPAREN">>>>, <<1, <<"GO">>>>, <<2, <<I, "LPAREN", "RPAREN">>>>,
          <<1, <<"DEFER">>>>, <<2, <<"CLOSE", I>>>>, <<1, <<"GO", I, "LPAREN", "RPAREN">>>> >>),
    In(<< <<1, <<I, "COMMA", I, "WALRUS", I, "LPAREN", "RPAREN", "ONERR", "AS", I>>>>, <<2, <<"PANIC", I>>>>,
          <<1, <<I, "DOT", I, "ASSIGN", I, "LPAREN", "RPAREN">>>>, <<1, <<"ONERR", "EXPLAIN", "STRING">>>>,
          <<1, <<I, "COMMA", I, "ASSIGN", I, "COMMA", I>>>> >>),
    In(<< <<1, <<I, "LPAREN", I, "COMMA", I, "COLON", I, "RPAREN", "ONERR", I, "EXPLAIN", "STRING_HEAD", I, "STRING_MID", I, "STRING_TAIL">>>>,
          <<1, <<I, "LPAREN", "RPAREN">>>>, <<1, <<"ONERR">>>>, <<2, <<I, "LPAREN", "MANY", I, "COMMA", "RPAREN">>>> >>),
    In(<< <<1, <<I, "WALRUS", I, "LPAREN", "FUNC", "LPAREN", I, I, "RPAREN", I>>>>, <<2, <<"RETURN", I>>>>, <<1, <<"RPAREN">>>>,
          <<1, <<I, "LPAREN", I, "FAT_ARROW">>>>, <<2, <<"RETURN", I>>>>, <<1, <<"RPAREN">>>> >>),
    In(<< <<1, <<I, "WALRUS", I, "FAT_ARROW">>>>, <<1, <<"RETURN", I>>>>, <<1, <<I, "WALRUS", I, "FAT_ARROW">>>>,
          <<1, <<"IF", I, "THEN", I, "ELSE", I>>>>, <<1, <<I, "LPAREN", "RPAREN", "ONERR", "AS", I>>>>,
          <<1, <<"RETURN">>>>, <<1, <<I, "LPAREN", "RPAREN", "ONERR">>>>, <<1, <<"BREAK">>>> >>),
    In(<< <<1, <<"IF", I, "WALRUS", I, "SEMICOLON", "IF", I, "THEN", I, "ELSE", I>>>>, <<2, <<"RETURN">>>>,
          <<1, <<"ELSE">>>>, <<1, <<"IF", I>>>>, <<2, <<"CONTINUE">>>>,
          <<1, <<"TYPE", "SEND">>>>, <<2, <<"SELECT", I>>>>, <<2, <<"SEND", I>>>> >>),
    In(<< <<1, <<I, "WALRUS", I>>>>, <<2, <<I, "COLON", I>>>>, <<1, <<"RETURN", I, "LBRACE", I, "COLON", I, "COMMA", "RBRACE">>>> >>) }

Expressions ==
  { <<"NOT", I, "OR", "MINUS", I, "AND", I, "BIT_OR", I, "BIT_AND", I, "PLUS", I, "STAR", "FLOAT">>,
    <<I, "NOT", "IN", I, "IS", I, "AS", I>>,
    <<I, "DOT", I, "LBRACE", I, "COLON", I, "RBRACE", "LBRACKET", I, "COLON", "RBRACKET">>,
    <<I, "LBRACKET", "COLON", I, "RBRACKET", "DOT", "LPAREN", I, "RPAREN", "AS", I, "DOT", I>>,
    <<I, "PIPE", I, "LPAREN", "RPAREN", "PIPE", "DOT", I, "LPAREN", I, "RPAREN">>,
    <<"IF", I, "THEN", I, "ELSE", "IF", I, "THEN", I, "ELSE", I>>,
    <<"LPAREN", I, I, "COMMA", I, I, "RPAREN", "FAT_ARROW", I>>,
    <<"LPAREN", I, "EQUALS", "EMPTY", "RPAREN">>,
    <<"EMPTY", "LIST", "OF", I>>, <<"ERROR", "STRING">>,
    <<"REFERENCE", "OF", I>>, <<"DEREFERENCE", I>>, <<"BIT_AND", I>>,
    <<"MAKE", "LPAREN", "CHANNEL", "OF", I, "COMMA", "INTEGER", "RPAREN">>,
    <<"RECEIVE", "FROM", I>>, <<"RECOVER", "LPAREN", "RPAREN">>,
    <<"LBRACKET", I, "COMMA", I, "RBRACKET">>, <<"LBRACKET", "RBRACKET", I, "LBRACE", I, "RBRACE">>,
    <<"LIST", "OF", I, "LBRACE", I, "RBRACE">>, <<"LIST", "LBRACKET", I, "RBRACKET">>,
    <<"MAP", "OF", I, "TO", I, "LBRACE", I, "COLON", I, "RBRACE">>,
    <<"MAP", "LBRACKET", I, "RBRACKET", I, "LBRACE", "RBRACE">>,
    <<"LBRACE", I, "COLON", I, "COMMA", I, "COLON", I, "RBRACE">>, <<"LBRACE", I, "COMMA", I, "RBRACE">> }
Programs == Headers \cup Bodies \cup {Assign(e) : e \in Expressions}

-----------------------------------------------------------------------------
(* What is typed: the program, one with a line gone, or one with a token   *)
(* of a line gone or another.  Brackets and strings stay as they are: the  *)
(* lexer would lay the rest of the file out otherwise.                     *)

Paired == {"LPAREN", "RPAREN", "LBRACKET", "RBRACKET", "LBRACE", "RBRACE",
           "STRING_HEAD", "STRING_MID", "STRING_TAIL"}
CONSTANT Typed          \* the tokens a slip may leave instead

Balanced(ts) == Len(SelectSeq(ts, LAMBDA t : t = "LPAREN")) = Len(SelectSeq(ts, LAMBDA t : t = "RPAREN"))
LinesGone(p) == {RemoveAt(p, i) : i \in {k \in 1..Len(p) : Balanced(p[k][2])}}
TokensGone(p) ==
  UNION { { [p EXCEPT ![i][2] = RemoveAt(@, j)] : j \in {k \in 1..Len(p[i][2]) : p[i][2][k] \notin Paired} }
          : i \in {k \in 1..Len(p) : Len(p[k][2]) > 1} }
TokensOther(p) ==
  UNION { UNION { { [p EXCEPT ![i][2][j] = t] : t \in Typed }
                  : j \in {k \in 1..Len(p[i][2]) : p[i][2][k] \notin Paired} }
          : i \in 1..Len(p) }

\* The lexer's layout of lines: blocks open and close with their indentation.
Layout(p) ==
  LET Shift(n, m) == IF m > n THEN [k \in 1..m - n |-> "INDENT"] ELSE [k \in 1..n - m |-> "DEDENT"]
      LineFrom(i) == Shift(IF i = 1 THEN 0 ELSE p[i - 1][1], p[i][1]) \o p[i][2] \o <<"NEWLINE">>
  IN  FlattenSeq([i \in 1..Len(p) |-> LineFrom(i)])
      \o Shift(IF p = <<>> THEN 0 ELSE p[Len(p)][1], 0) \o <<"EOF">>

\* An indentation of two levels at once is one INDENT; those programs are left out.
Steps(p) == \A i \in 1..Len(p) : p[i][1] <= 1 + IF i = 1 THEN 0 ELSE p[i - 1][1]
Lexed == {Layout(p) : p \in {q \in UNION {{p} \cup LinesGone(p) \cup TokensGone(p) \cup TokensOther(p)
                                          : p \in Programs} : Steps(q)}}
MCInputs == Lexed
=============================================================================
