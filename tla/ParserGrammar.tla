---------------------------- MODULE ParserGrammar ----------------------------
(***************************************************************************)
(* The procedures of the recursive-descent parser (internal/parser), one   *)
(* definition each, as sequences of instructions that module Parser runs.  *)
(* Token kinds have the lexer's names; COMPARE stands for ==, !=, <, >,    *)
(* <=, >= and 'isnt', BOOL for true and false, PLUS_PLUS for -- too, STAR  *)
(* for / and %.  The types int, string, ... are names like any other.      *)
(***************************************************************************)
EXTENDS Sequences

-----------------------------------------------------------------------------
(* Instructions.                                                           *)

Adv              == [op |-> "adv"]                       \* advance
Need(t)          == [op |-> "need", t |-> t]             \* consume(t)
Skip             == [op |-> "skip"]                      \* skipNewlines
Err              == [op |-> "err"]                       \* error
Call(f)          == [op |-> "call", f |-> f]
Ret(k)           == [op |-> "ret", k |-> k]              \* the value to return
If(on, S, a, b)  == [op |-> "if", on |-> on, s |-> S, a |-> a, b |-> b]
When(S, a, b)    == If("peek", S, a, b)                  \* check
Got(S, a, b)     == If("tok", S, a, b)                   \* what advance returned
Was(S, a, b)     == If("ret", S, a, b)                   \* what a call returned
Look(p, a, b)    == If("look", {p}, a, b)                \* a longer lookahead
Take(S, a, b)    == [op |-> "take", s |-> S, a |-> a, b |-> b]       \* match
Opt(S, a)        == Take(S, a, <<>>)
Many(S, body)    == [op |-> "take", s |-> S, a |-> body, b |-> <<>>, again |-> TRUE]
While(S, body)   == [op |-> "while", s |-> S, body |-> body]
Until(S, body)   == [op |-> "until", s |-> S, body |-> body]
Switch(on, b)    == [op |-> "switch", on |-> on, b |-> b]
Sections(f, dup) == [op |-> "sections", f |-> f, dup |-> dup]
Quiet(body)      == [op |-> "quiet", body |-> body]
Inline(b)        == [op |-> "inline", v |-> b]
SavePos          == [op |-> "save"]
RestorePos       == [op |-> "restore"]
Opened           == [op |-> "opened"]                    \* past an INDENT
Close            == [op |-> "close"]                     \* consume(DEDENT)
Begin            == [op |-> "begin"]                     \* a statement starts
SplitInit        == [op |-> "split"]
PastInit         == [op |-> "past"]
Drain            == [op |-> "drain"]
Attach(k, p, ds) == [op |-> "attach", kind |-> k, at |-> p, dirs |-> ds]

\* f, then again after every comma that a closer does not follow.
Items(f, close) == <<Call(f), Many({"COMMA"}, <<When({close}, <<>>, <<Call(f)>>)>>)>>
\* for !check(DEDENT) && !isAtEnd() { skipNewlines; if check(DEDENT) break; ... }
Lines(body) == Until({"DEDENT", "EOF"}, <<Skip, When({"DEDENT"}, <<>>, body)>>)
\* An indented body, or an error and no move.
Indented(body, after, otherwise) ==
  Take({"INDENT"}, <<Opened, Lines(body), Close>> \o after, <<Err>> \o otherwise)

-----------------------------------------------------------------------------
(* Names, types, parameters.                                               *)

\* isIdentifierToken: keywords that may stand where a name is expected.
isIdentifierToken ==
  {"IDENTIFIER", "EMPTY", "ERROR", "CLOSE", "MAKE", "SEND", "RECEIVE", "PANIC", "RECOVER",
   "MAP", "LIST", "CHANNEL", "SELECT", "TYPE", "SKILL", "ENUM", "ON", "OF", "AS", "FROM",
   "TO", "IN", "DEFAULT", "DISCARD", "MANY"}

\* Always moves; "_" stands in for what is not a name.
parseIdentifier == <<Adv, Got(isIdentifierToken, <<>>, <<Err>>), Ret("ident")>>
Name == Call("parseIdentifier")
Type == Call("parseTypeAnnotation")
Expr == Call("parseExpression")
Block == Call("parseBlock")

\* The names of a type in brackets, or one.
parseReturnTypes ==
  <<Take({"LPAREN"}, <<Type, Many({"COMMA"}, <<Type>>), Need("RPAREN")>>, <<Type>>)>>

\* An unexpected token is an error and stays where it is.
parseTypeAnnotation ==
  <<Switch(
     [LBRACKET   |-> <<Adv, Need("RBRACKET"), Type, Ret("type")>>,
      REFERENCE  |-> <<Adv, Type, Ret("type")>>,
      STAR       |-> <<Adv, Type, Ret("type")>>,
      LIST       |-> <<Adv, Need("OF"), Type, Ret("type")>>,
      MAP        |-> <<Adv, Take({"LBRACKET"}, <<Type, Need("RBRACKET"), Type>>,
                                               <<Need("OF"), Type, Need("TO"), Type>>),
                       Ret("type")>>,
      CHANNEL    |-> <<Adv, Need("OF"), Type, Ret("type")>>,
      FUNC       |-> <<Adv, Need("LPAREN"),
                       When({"RPAREN"}, <<>>, <<Type, Many({"COMMA"}, <<Type>>)>>),
                       Need("RPAREN"),
                       When({"NEWLINE", "COMMA", "RPAREN", "EOF", "INDENT", "DEDENT"}, <<>>,
                            parseReturnTypes),
                       Ret("type")>>,
      ERROR      |-> <<Adv, Ret("named")>>,
      IDENTIFIER |-> <<Adv, Opt({"DOT"}, <<Need("IDENTIFIER")>>), Ret("named")>>],
     <<Err, Ret("named")>>)>>

\* One parameter and the rest; seen: one before it had a default value.
Parameter(seen, variadic) ==
  <<Name,
    When({"COMMA", "RPAREN", "ASSIGN"}, <<>>, <<Type>>),
    Take({"ASSIGN"},
         <<Expr>> \o (IF variadic THEN <<Err>> ELSE <<>>) \o <<Opt({"COMMA"}, <<Call("moreDefaults")>>)>>,
         IF seen THEN <<Err, Opt({"COMMA"}, <<Call("moreDefaults")>>)>>
                 ELSE <<Opt({"COMMA"}, <<Call("moreParameters")>>)>>)>>
moreParameters == <<Take({"MANY"}, Parameter(FALSE, TRUE), Parameter(FALSE, FALSE))>>
moreDefaults == <<Take({"MANY"}, Parameter(TRUE, TRUE), Parameter(TRUE, FALSE))>>
parseParameters == <<When({"RPAREN"}, <<>>, <<Call("moreParameters")>>)>>

-----------------------------------------------------------------------------
(* Declarations.                                                           *)

Parse ==
  <<Skip, When({"PETIOLE"}, <<Call("parsePetioleDecl")>>, <<>>),
    Skip, When({"SKILL"}, <<Call("parseSkillDecl")>>, <<>>),
    Skip, While({"IMPORT"}, <<Look("importGroup", <<Call("parseGroupedImports")>>,
                                                  <<Call("parseImportDecl")>>), Skip>>),
    Until({"EOF"}, <<Skip, Drain>>)>>

parsePetioleDecl == <<Adv, Skip, Name, Skip>>

parseSkillDecl ==
  <<Adv, Skip, Name, Skip,
    Opt({"INDENT"},
        <<Opened,
          Lines(<<Adv, Got({"IDENTIFIER"},
                           <<Need("COLON"), Adv, Got({"STRING"}, <<>>, <<Err>>)>>, <<Err>>),
                  Skip>>),
          Close, Skip>>)>>

parseImportDecl == <<Adv, Skip, Call("parseImportSpec")>>
parseImportSpec ==
  <<Look("aliasFirst", <<Name, Adv>>,
         <<Adv, Got({"STRING"}, <<Opt({"AS"}, <<Name>>)>>, <<Err>>)>>)>>

skipGroupedImportWhitespace == While({"NEWLINE", "INDENT", "DEDENT"}, <<Adv>>)
parseGroupedImports ==
  <<Adv, skipGroupedImportWhitespace, Need("LPAREN"), skipGroupedImportWhitespace,
    Until({"RPAREN", "EOF"},
          <<skipGroupedImportWhitespace,
            When({"RPAREN"}, <<>>, <<Call("parseImportSpec"), skipGroupedImportWhitespace>>)>>),
    Need("RPAREN"), Skip>>

parseFieldAlias ==
  <<Take({"AS"}, <<When({"STRING"}, <<Adv, Ret("alias")>>, <<Err, Ret("none")>>)>>, <<Ret("none")>>)>>
\* Without a colon the identifier is given back.
parseStructTag ==
  <<When({"IDENTIFIER"},
      <<SavePos, Adv,
        When({"COLON"}, <<Need("COLON"), When({"STRING"}, <<Adv, Ret("tag")>>, <<Err, Ret("none")>>)>>,
                        <<RestorePos, Ret("none")>>)>>,
      <<Ret("none")>>)>>
parseTypeDecl ==
  <<Adv, Skip, Name, Skip,
    Take({"ASSIGN"}, <<Type, Skip, Ret("decl")>>, <<When({"FUNC"}, <<Type, Skip, Ret("decl")>>,
      <<Indented(<<Name, Type, Call("parseFieldAlias"),
                   Was({"alias"}, <<Call("parseStructTag"), Was({"tag"}, <<Err>>, <<>>)>>,
                                  <<Call("parseStructTag")>>),
                   Skip>>,
                 <<Skip, Ret("decl")>>, <<Ret("nil")>>)>>)>>)>>

parseInterfaceDecl ==
  <<Adv, Skip, Name, Skip,
    Indented(<<Name, Need("LPAREN"), Call("parseParameters"), Need("RPAREN"),
               When({"NEWLINE", "DEDENT"}, <<>>, parseReturnTypes), Skip>>,
             <<Skip, Ret("decl")>>, <<Ret("nil")>>)>>

Receiver == <<Name, Type>>
parseFunctionDecl ==
  <<Adv, Skip,
    Look("receiver", <<Adv>> \o Receiver \o <<Need("RPAREN"), Skip, Name>>,
                     <<Name, Opt({"ON"}, Receiver)>>),
    Opt({"LPAREN"}, <<Call("parseParameters"), Need("RPAREN")>>),
    When({"NEWLINE", "INDENT"}, <<>>, parseReturnTypes),
    Skip, Block, Ret("decl")>>

parseConstSpec == <<Name, Need("ASSIGN"), Expr>>
parseConstDecl ==
  <<Adv,
    When({"NEWLINE", "INDENT"},
         <<Skip, Indented(parseConstSpec \o <<Skip>>, <<Skip, Ret("decl")>>, <<Ret("nil")>>)>>,
         parseConstSpec \o <<Skip, Ret("decl")>>)>>

parseVarDeclaration ==
  <<Adv, Skip, Name, Many({"COMMA"}, <<Name>>),
    When({"ASSIGN"}, <<>>, <<Type>>),
    Opt({"ASSIGN"}, <<Call("parseExpressionList")>>), Skip, Ret("decl")>>

parseEnumFlat ==
  <<Adv, Skip, Name, Skip,
    Indented(<<Name, Skip, Take({"ASSIGN"}, <<Expr>>, <<Opt({"INDENT"}, <<>>)>>), Skip>>,
             <<Skip, Ret("decl")>>, <<Ret("nil")>>)>>
\* A case may have a value, or fields in a block of their own.
parseEnumDecl ==
  <<Adv, Skip, Name, Skip,
    Indented(<<Name, Skip,
               Take({"ASSIGN"}, <<Expr>>,
                    <<Opt({"INDENT"}, <<Opened, Lines(<<Name, Type, Skip>>), Close>>)>>),
               Skip>>,
             <<Skip, Ret("decl")>>, <<Ret("nil")>>)>>

-----------------------------------------------------------------------------
(* Statements.                                                             *)

\* Positional and named arguments; named: a named one has been given.
MoreArguments(named) ==
  <<Opt({"COMMA"}, <<When({"RPAREN"}, <<>>,
                          <<Call(IF named THEN "namedArguments" ELSE "arguments")>>)>>)>>
Argument(named) ==
  <<Opt({"MANY"}, <<>>),
    Look("namedArgument", <<Adv, Adv, Expr>> \o MoreArguments(TRUE),
         (IF named THEN <<Err>> ELSE <<>>) \o <<Expr>> \o MoreArguments(named))>>
parseCallArguments == <<When({"RPAREN"}, <<>>, Argument(FALSE))>>

parseBlock == <<Indented(<<Call("parseStatement")>>, <<>>, <<>>)>>

parseContinueStmt == <<Adv, Skip>>
parseBreakStmt == <<Adv, Skip>>
parseStatement ==
  <<Skip, Begin,
    Switch([RETURN |-> <<Call("parseReturnStmt")>>,
            SWITCH |-> <<Call("parseSwitchOrTypeSwitchStmt")>>, SELECT |-> <<Call("parseSelectStmt")>>,
            FOR |-> <<Call("parseForStmt")>>, DEFER |-> <<Call("parseDeferStmt")>>,
            GO |-> <<Call("parseGoStmt")>>, SEND |-> <<Call("parseSendStmt")>>,
            CONTINUE |-> parseContinueStmt, BREAK |-> parseBreakStmt,
            TYPE |-> <<Call("parseTypeDecl")>>],
           <<When({"IF"}, <<Call("parseIfStmt")>>, <<Call("parseExpressionOrAssignmentStmt")>>)>>)>>

parseReturnAcross ==
  <<Adv, Skip, When({"DEDENT", "EOF"}, <<>>, <<Expr, Many({"COMMA"}, <<Expr>>)>>), Skip>>
parseReturnStmt ==
  <<Adv, When({"NEWLINE", "DEDENT", "EOF"}, <<>>, <<Expr, Many({"COMMA"}, <<Expr>>)>>), Skip>>

parseIfStmt ==
  <<Adv,
    Look("initSemicolon", <<SplitInit, Call("parseExpressionOrAssignmentStmt"), PastInit, Expr>>,
                          <<Expr>>),
    Skip, Block, Skip,
    When({"ELSE"}, <<Adv, Skip, When({"IF"}, <<Call("parseIfStmt")>>, <<Block>>)>>, <<>>),
    Skip>>

Cases(body) == <<Skip, Take({"INDENT"}, <<Opened, Sections(body, FALSE), Close, Skip>>, <<Err>>)>>
parseSwitchBody == Cases("switchCase")
parseTypeSwitchBody == Cases("typeCase")
switchCase == <<Expr, Many({"COMMA"}, <<Expr>>), Skip, Block>>
typeCase == <<Type, Skip, Block>>
\* 'switch e as v' has been read as a cast to the name v.
parseSwitchOrTypeSwitchStmt ==
  <<Adv, When({"NEWLINE", "INDENT", "EOF"}, <<Ret("none")>>, <<Expr>>),
    Was({"cast"}, parseTypeSwitchBody, parseSwitchBody)>>

parseSelectStmt == <<Adv>> \o Cases("parseSelectCase")
parseSelectCase ==
  <<Switch([RECEIVE |-> <<Call("parseReceiveExpr"), Skip, Block>>,
            SEND |-> <<Call("parseSendStmt"), Block>>,
            IDENTIFIER |-> <<Adv, Opt({"COMMA"}, <<Need("IDENTIFIER")>>), Need("WALRUS"),
                             Call("parseReceiveExpr"), Skip, Block>>],
           <<Err, Skip, Block>>)>>

Loop == <<Expr, Skip, Block>>
\* A name that no 'in', ',' or 'from' follows is given back.
parseForStmt ==
  <<Adv,
    When({"NEWLINE", "INDENT"}, <<Skip, Block>>,
      <<SavePos,
        Take({"IDENTIFIER"},
          <<Take({"IN"}, Loop, <<Take({"COMMA"}, <<Name, Need("IN")>> \o Loop, <<Take({"FROM"},
              <<Expr, Take({"THROUGH"}, <<>>, <<Need("TO")>>)>> \o Loop,
              <<RestorePos>> \o Loop)>>)>>)>>,
          <<RestorePos>> \o Loop)>>)>>

\* What is not a call is an error; the newlines after it stay.
OfCall == <<Expr, Was({"call"}, <<Skip>>, <<Err>>)>>
parseDeferStmt == <<Adv, Skip, When({"INDENT"}, <<Block, Skip>>, OfCall)>>
parseGoStmt ==
  <<Adv, When({"NEWLINE", "INDENT"}, <<Skip, When({"INDENT"}, <<Block, Skip>>, OfCall)>>, OfCall)>>
parseSendStmt == <<Adv, Expr, Need("TO"), Expr, Skip>>

parseExpressionList == <<Expr, Many({"COMMA"}, <<Expr>>)>>
parseStatementExpression == Quiet(<<Expr>>)
parseStatementExpressionList == Quiet(parseExpressionList)
OnErr(refused) ==
  When({"ONERR"}, (IF refused THEN <<Err>> ELSE <<>>) \o <<Call("parseOnErrClause")>>, <<>>)

\* The clause may stand on the next line here; after several targets it may not.
parseExpressionOrAssignmentStmt ==
  <<Look("multiValue", <<Call("parseMultiValueAssignmentStmt")>>,
     <<parseStatementExpression,
       Switch([PLUS_PLUS      |-> <<Adv, Skip>>,
               ASSIGN         |-> <<Adv, parseStatementExpressionList, Skip, OnErr(FALSE), Skip>>,
               BIT_AND_ASSIGN |-> <<Adv, parseStatementExpressionList, Skip, OnErr(TRUE), Skip>>,
               WALRUS         |-> <<Adv, Was({"ident"},
                                    <<parseStatementExpressionList, Skip, OnErr(FALSE), Skip>>,
                                    <<Err>>)>>],
              <<Skip, OnErr(FALSE), Skip>>)>>)>>
parseMultiValueAssignmentStmt ==
  LET Target == Take({"IDENTIFIER", "EMPTY", "ERROR"}, <<>>, <<Err>>)
  IN  <<Target, Many({"COMMA"}, <<Target>>),
        Take({"WALRUS", "ASSIGN"}, <<parseStatementExpressionList, OnErr(FALSE), Skip>>, <<Err>>)>>

parseOnErrClause ==
  <<Adv, Take({"AS"},
      <<Adv, Got({"IDENTIFIER"},
                 <<Skip, When({"INDENT"}, <<Block>>, <<Call("parseInlineOnErrHandler")>>)>>, <<Err>>)>>,
      <<Skip, When({"INDENT"}, <<Block>>, <<Call("parseInlineOnErrHandler")>>)>>)>>
\* return, continue and break are shorthands only where the line ends after them.
parseInlineOnErrHandler ==
  LET handler == <<Expr, Opt({"EXPLAIN"}, <<Call("parseExplainString")>>)>>
  IN  <<When({"RETURN", "CONTINUE", "BREAK"}, <<Look("lineEnd", <<Adv>>, handler)>>,
          <<Take({"EXPLAIN"}, <<Call("parseExplainString")>>, handler)>>)>>
parseExplainString == <<Switch([STRING |-> <<Adv>>, STRING_HEAD |-> <<Expr>>], <<Err>>)>>

-----------------------------------------------------------------------------
(* Expressions, lowest precedence first.  ret is what kind the result is.  *)

parseExpression == <<[op |-> "expression"]>>
parseOnErrExpr == <<Call("parseOrExpr"), Opt({"ONERR"}, <<Expr, Ret("other")>>)>>
\* An operand, then more of them while an operator of S comes.
Binary(operand, S) == <<Call(operand), Many(S, <<Call(operand), Ret("other")>>)>>
parseOrExpr == Binary("parsePipeExpr", {"OR", "OR_OR"})
parsePipeExpr ==
  <<Call("parseAndExpr"),
    Many({"PIPE"},
         <<Take({"SWITCH"}, <<Take({"AS"}, <<Name>> \o parseTypeSwitchBody, parseSwitchBody)>>,
                            <<Call("parseAndExpr")>>),
           Ret("other")>>)>>
parseAndExpr == Binary("parseBitwiseOrExpr", {"AND", "AND_AND"})
parseBitwiseOrExpr == Binary("parseBitwiseAndExpr", {"BIT_OR"})
parseBitwiseAndExpr == Binary("parseComparisonExpr", {"BIT_AND"})
parseComparisonExpr == <<Call("parseAdditiveExpr"), Call("comparisons")>>
comparisons ==
  LET more == <<Call("parseAdditiveExpr"), Ret("other"), Call("comparisons")>>
  IN  <<Take({"COMPARE", "EQUALS"}, more, <<Look("notOperator", <<Adv, Adv>> \o more,
          <<Take({"IN"}, more,
            <<Opt({"IS"}, <<Name, Opt({"AS"}, <<Name>>), Ret("other"), Call("comparisons")>>)>>)>>)>>)>>
parseAdditiveExpr == Binary("parseMultiplicativeExpr", {"PLUS", "MINUS"})
parseMultiplicativeExpr == Binary("parseUnaryExpr", {"STAR"})

parseUnaryExpr ==
  LET unary == <<Call("parseUnaryExpr"), Ret("other")>>
  IN  <<Take({"NOT", "BANG", "MINUS", "BIT_AND"}, unary,
          <<SavePos, Take({"REFERENCE"},
              <<Take({"OF"}, unary, <<RestorePos, Call("parsePostfixExpr")>>)>>,
              <<Take({"DEREFERENCE"}, unary, <<Call("parsePostfixExpr")>>)>>)>>)>>

Field == <<Name, Need("COLON"), Expr>>
Braced(body) == <<When({"RBRACE"}, <<>>, Items(body, "RBRACE")), Need("RBRACE")>>
\* After a dot; pkg: what precedes it is a name, so a brace opens a literal.
Selector(pkg) ==
  Take({"LPAREN"}, <<Type, Need("RPAREN"), Ret("other")>>,
    <<Name, Take({"LPAREN"}, <<Call("parseCallArguments"), Need("RPAREN"), Ret("call")>>,
      <<When({"LBRACE"}, (IF pkg THEN <<Adv>> \o Braced("field") ELSE <<>>), <<>>), Ret("other")>>)>>)
parsePostfixExpr ==
  <<Call("parsePrimaryExpr"),
    While({"LPAREN", "DOT", "LBRACKET", "AS"},
      <<Switch(
         [LPAREN   |-> <<Adv, Call("parseCallArguments"), Need("RPAREN"), Ret("call")>>,
          DOT      |-> <<Adv, Was({"ident"}, <<Selector(TRUE)>>, <<Selector(FALSE)>>)>>,
          LBRACKET |-> <<Adv, Take({"COLON"}, <<Expr>>,
                           <<Expr, Opt({"COLON"}, <<When({"RBRACKET"}, <<>>, <<Expr>>)>>)>>),
                         Need("RBRACKET"), Ret("other")>>,
          AS       |-> <<Adv, Type, Ret("cast")>>], <<>>)>>)>>

parseIdentifierOrStructLiteral ==
  <<Name,
    Take({"LBRACE"}, Braced("field") \o <<Ret("other")>>,
      <<Look("indentedFields",
          <<Adv, Adv, Opened, Lines(Field \o <<Opt({"COMMA"}, <<>>), Skip>>), Close, Ret("other")>>,
          <<>>)>>)>>
parseEmptyExpr ==
  <<Adv, When({"IDENTIFIER", "MAP", "LIST", "FUNC", "CHANNEL", "REFERENCE"}, <<Type>>, <<>>), Ret("other")>>
parseErrorExpr == <<Adv, Expr, Ret("other")>>
parseMakeExpr ==
  <<Adv, Need("LPAREN"), Type, Opt({"COMMA"}, <<Call("parseExpressionList")>>), Need("RPAREN"), Ret("other")>>
parseCloseExpr == <<Adv, Expr, Ret("other")>>
parsePanicExpr == <<Adv, Expr, Ret("other")>>
parseReceiveExpr == <<Adv, Need("FROM"), Expr, Ret("other")>>
parseListLiteral ==
  <<Adv, When({"RBRACKET"}, <<>>, Items("parseExpression", "RBRACKET")), Need("RBRACKET"), Ret("other")>>
parseTypedListLiteral ==
  <<Adv, Need("OF"), Type, Opt({"LBRACE"}, Braced("parseExpression")), Ret("other")>>
parseBracketListExpr == <<Adv, Adv, Type, Opt({"LBRACE"}, Braced("parseExpression")), Ret("other")>>
Pair == <<Expr, Need("COLON"), Expr>>
parseMapLiteral ==
  <<Adv, Need("OF"), Type, Need("TO"), Type, Opt({"LBRACE"}, Braced("pair")), Ret("other")>>
parseBracketMapExpr ==
  <<Adv, Adv, Type, Need("RBRACKET"), Type, Opt({"LBRACE"}, Braced("pair")), Ret("other")>>
\* The first entry decides whether the entries have keys.
parseUntypedCompositeLiteral ==
  LET rest(entry) == <<Many({"COMMA"}, <<When({"RBRACE"}, <<>>, entry)>>)>>
  IN  <<Adv,
        When({"RBRACE"}, <<>>,
             <<Expr, Take({"COLON"}, <<Expr>> \o rest(Pair), rest(<<Expr>>))>>),
        Need("RBRACE"), Ret("other")>>
parseGroupedExpression == <<Adv, Expr, Need("RPAREN")>>
parseFunctionLiteral ==
  <<Adv, Need("LPAREN"), Call("parseParameters"), Need("RPAREN"),
    When({"NEWLINE", "INDENT"}, <<>>, parseReturnTypes), Skip, Block, Ret("other")>>
parseArrowLambdaParams ==
  <<Name, When({"COMMA", "RPAREN", "ASSIGN"}, <<>>, <<Type>>), Opt({"ASSIGN"}, <<Expr>>),
    Opt({"COMMA"}, <<Call("parseArrowLambdaParams")>>)>>
parseArrowLambda ==
  <<When({"IDENTIFIER"}, <<Adv>>,
         <<Adv, When({"RPAREN"}, <<>>, <<Call("parseArrowLambdaParams")>>), Need("RPAREN")>>),
    Need("FAT_ARROW"),
    When({"NEWLINE", "INDENT"}, <<Skip, When({"INDENT"}, <<Block>>, <<Expr>>)>>, <<Expr>>),
    Ret("other")>>
\* A look skips semicolons: only the end of the line ends the values.
parseReturnExpr ==
  <<Adv, When({"NEWLINE", "DEDENT", "SEMICOLON", "EOF"}, <<>>, <<Expr, Many({"COMMA"}, <<Expr>>)>>),
    Ret("other")>>
parseShorthandMethodCall ==
  <<Adv, Name,
    Take({"LPAREN"}, <<When({"RPAREN"}, <<>>, parseExpressionList), Need("RPAREN"), Ret("call")>>,
                     <<Ret("other")>>)>>
parseIfExpression ==
  <<Adv, Expr,
    Take({"THEN"},
         <<Expr, Take({"ELSE"}, <<When({"IF"}, <<Call("parseIfExpression")>>, <<Expr>>), Ret("other")>>,
                                <<Err, Ret("ident")>>)>>,
         <<Err, Ret("ident")>>)>>
\* One expression and string piece after another, to the tail.
parseInterpolatedStringLiteral == <<Adv, Call("interpolations"), Ret("other")>>
interpolations ==
  <<When({"EOF"}, <<>>,
         <<Expr, Take({"STRING_MID"}, <<Call("interpolations")>>, <<Take({"STRING_TAIL"}, <<>>, <<Err>>)>>)>>)>>

Literal == <<Adv, Ret("other")>>
AsName == <<Adv, Ret("ident")>>
UnexpectedStays == <<Err, Ret("ident")>>
\* What cannot start an expression is an error, and is passed over.
Unexpected == <<Err, Adv, Ret("ident")>>
parsePrimaryExpr ==
  <<Switch(
     [INTEGER |-> Literal, FLOAT |-> Literal, STRING |-> Literal, STRING_RAW |-> Literal,
      BOOL |-> Literal, DISCARD |-> Literal,
      STRING_HEAD |-> <<Call("parseInterpolatedStringLiteral")>>,
      IDENTIFIER |-> <<Look("fatArrow", <<Call("parseArrowLambda")>>,
                                        <<Call("parseIdentifierOrStructLiteral")>>)>>,
      EMPTY |-> <<Look("emptyAsName", AsName, parseEmptyExpr)>>,
      ERROR |-> <<Look("identifierFollower", AsName, parseErrorExpr)>>,
      MAKE |-> parseMakeExpr, CLOSE |-> parseCloseExpr, PANIC |-> parsePanicExpr,
      RECOVER |-> <<Adv, Opt({"LPAREN"}, <<Need("RPAREN")>>), Ret("other")>>,
      RECEIVE |-> parseReceiveExpr,
      LIST |-> <<Look("of", parseTypedListLiteral, AsName)>>,
      MAP |-> <<Look("of", parseMapLiteral, <<Look("bracket", parseBracketMapExpr, AsName)>>)>>,
      LBRACKET |-> <<Look("emptyBrackets", parseBracketListExpr, parseListLiteral)>>,
      LPAREN |-> <<Look("arrowLambda", <<Call("parseArrowLambda")>>, parseGroupedExpression)>>,
      FUNC |-> parseFunctionLiteral, LBRACE |-> parseUntypedCompositeLiteral,
      DOT |-> parseShorthandMethodCall, RETURN |-> parseReturnExpr],
     <<When({"IF"}, <<Call("parseIfExpression")>>, Unexpected)>>)>>

-----------------------------------------------------------------------------
(* The procedures by name.                                                 *)

Grammar ==
  [Parse |-> Parse, parsePetioleDecl |-> parsePetioleDecl, parseSkillDecl |-> parseSkillDecl,
   parseImportDecl |-> parseImportDecl, parseImportSpec |-> parseImportSpec,
   parseGroupedImports |-> parseGroupedImports, parseTypeDecl |-> parseTypeDecl,
   parseInterfaceDecl |-> parseInterfaceDecl, parseFunctionDecl |-> parseFunctionDecl,
   parseVarDeclaration |-> parseVarDeclaration, parseConstDecl |-> parseConstDecl,
   parseEnumDecl |-> parseEnumDecl, parseFieldAlias |-> parseFieldAlias,
   parseStructTag |-> parseStructTag, parseParameters |-> parseParameters,
   moreParameters |-> moreParameters, moreDefaults |-> moreDefaults,
   parseIdentifier |-> parseIdentifier, parseTypeAnnotation |-> parseTypeAnnotation,
   parseBlock |-> parseBlock, parseStatement |-> parseStatement,
   parseReturnStmt |-> parseReturnStmt, parseIfStmt |-> parseIfStmt,
   parseSwitchOrTypeSwitchStmt |-> parseSwitchOrTypeSwitchStmt,
   switchCase |-> switchCase, typeCase |-> typeCase,
   parseSelectStmt |-> parseSelectStmt, parseSelectCase |-> parseSelectCase,
   parseForStmt |-> parseForStmt, parseDeferStmt |-> parseDeferStmt, parseGoStmt |-> parseGoStmt,
   parseSendStmt |-> parseSendStmt,
   parseExpressionOrAssignmentStmt |-> parseExpressionOrAssignmentStmt,
   parseMultiValueAssignmentStmt |-> parseMultiValueAssignmentStmt,
   parseExpressionList |-> parseExpressionList, parseOnErrClause |-> parseOnErrClause,
   parseInlineOnErrHandler |-> parseInlineOnErrHandler, parseExplainString |-> parseExplainString,
   arguments |-> Argument(FALSE), namedArguments |-> Argument(TRUE),
   parseCallArguments |-> parseCallArguments,
   parseExpression |-> parseExpression, parseOnErrExpr |-> parseOnErrExpr,
   parseOrExpr |-> parseOrExpr, parsePipeExpr |-> parsePipeExpr, parseAndExpr |-> parseAndExpr,
   parseBitwiseOrExpr |-> parseBitwiseOrExpr, parseBitwiseAndExpr |-> parseBitwiseAndExpr,
   parseComparisonExpr |-> parseComparisonExpr, comparisons |-> comparisons,
   parseAdditiveExpr |-> parseAdditiveExpr, parseMultiplicativeExpr |-> parseMultiplicativeExpr,
   parseUnaryExpr |-> parseUnaryExpr, parsePostfixExpr |-> parsePostfixExpr,
   parsePrimaryExpr |-> parsePrimaryExpr, field |-> Field, pair |-> Pair,
   parseReceiveExpr |-> parseReceiveExpr,
   parseIdentifierOrStructLiteral |-> parseIdentifierOrStructLiteral,
   parseInterpolatedStringLiteral |-> parseInterpolatedStringLiteral,
   interpolations |-> interpolations, parseIfExpression |-> parseIfExpression,
   parseArrowLambda |-> parseArrowLambda, parseArrowLambdaParams |-> parseArrowLambdaParams]
=============================================================================
