------------------------------- MODULE Parser -------------------------------
(***************************************************************************)
(* The recursive-descent parser (internal/parser): its helpers, and the    *)
(* machine that runs its procedures.                                       *)
(*                                                                         *)
(* A procedure of the parser is a sequence of instructions (ParserGrammar  *)
(* has one definition per procedure); todo is the call stack, flattened:   *)
(* what the procedures that have started have still to do.  One step is    *)
(* one look at, or one move over, the token stream, with the directives    *)
(* the look collects on the way.  Syntax trees are left out but for what   *)
(* the parser itself asks of them (ret: an identifier, a call, a cast to a *)
(* name, nothing) and for the blocks, statements and declarations it made. *)
(***************************************************************************)
EXTENDS ParserGrammar, Integers, FiniteSets, FiniteSetsExt

CONSTANT Inputs      \* the token streams to parse, each ending in "EOF"

VARIABLES toks, pos, pending, errors, inline,     \* the fields of Parser
          tok, ret, saved, todo,                  \* the Go call stack
          open, blocks, stmts, decls, crashed     \* what has been built

stream == <<toks, pos, pending, errors>>
calls == <<tok, ret, saved>>
built == <<open, blocks, stmts, decls, crashed>>
vars == <<stream, inline, calls, todo, built>>

-----------------------------------------------------------------------------
(* The token stream.                                                       *)

Ignored == {"COMMENT", "SEMICOLON", "DIRECTIVE"}
LineEnds == {"NEWLINE", "EOF", "INDENT", "DEDENT"}

\* The first place from p on that holds none of S.
Beyond(S, p) == Min({k \in p..Len(toks) : toks[k] \notin S})
\* The directives in p..q-1, as their places.
Directives(p, q) == SelectSeq([k \in 1..q - p |-> p + k - 1], LAMBDA k : toks[k] = "DIRECTIVE")

\* skipIgnoredTokens: every look at the stream starts here.
here == Beyond(Ignored, pos)
peekToken == toks[here]
\* The significant token n places on.
peekAt(n) ==
  LET sig == {k \in here..Len(toks) : toks[k] \notin Ignored}
  IN  IF Cardinality(sig) <= n THEN "EOF"
      ELSE toks[CHOOSE k \in sig : Cardinality({i \in sig : i < k}) = n]
previousToken(p) == IF p = 1 THEN "EOF" ELSE toks[p - 1]

\* What advance leaves: no move at the end.
Moved == IF peekToken = "EOF" THEN here ELSE here + 1

isIdentifierFollower ==
  peekAt(1) \in
    {"WALRUS", "ASSIGN", "BIT_AND", "BIT_AND_ASSIGN", "DOT", "LBRACKET", "COMMA", "RPAREN",
     "RBRACKET", "RBRACE", "PLUS_PLUS", "MINUS_MINUS", "STRING_MID", "STRING_TAIL",
     "COMPARE", "EQUALS", "PLUS", "MINUS", "STAR", "AND", "OR", "PIPE", "ONERR"}

\* The raw scan of parseIfStmt: a semicolon of this line, outside brackets.
InitSemicolon ==
  LET line == {k \in pos..Len(toks) : \A i \in pos..k : toks[i] \notin LineEnds}
      Depth(k) == Cardinality({i \in pos..k - 1 : toks[i] = "LPAREN"})
                  - Cardinality({i \in pos..k - 1 : toks[i] = "RPAREN"})
  IN  {k \in line : toks[k] = "SEMICOLON" /\ Depth(k) = 0}

\* The raw scan of checkMultiValueAssignment, over newlines and comments.
checkMultiValueAssignment ==
  LET Word == {"IDENTIFIER", "EMPTY", "ERROR"}
      sig == SelectSeq(SubSeq(toks, here, Len(toks)), LAMBDA t : t \notin {"NEWLINE", "COMMENT"})
      Pairs(n) == \A i \in 1..n : sig[2 * i] = "COMMA" /\ sig[2 * i + 1] \in Word
  IN  /\ peekToken \in Word
      /\ \E n \in 1..(Len(sig) - 2) \div 2 :
            Pairs(n) /\ sig[2 * n + 2] \in {"ASSIGN", "WALRUS"}

\* The raw scan of isArrowLambda, to the bracket that closes this one.
isArrowLambda ==
  LET Depth(k) == Cardinality({i \in here..k : toks[i] = "LPAREN"})
                  - Cardinality({i \in here..k : toks[i] = "RPAREN"})
      closers == {k \in here..Len(toks) : /\ toks[k] = "RPAREN"
                                          /\ Depth(k) = 0
                                          /\ \A i \in here..k : toks[i] \notin LineEnds}
  IN  closers # {} /\ toks[Beyond({"COMMENT"}, Min(closers) + 1)] = "FAT_ARROW"

\* The lookaheads, by the name the grammar gives them.
Sees(p) ==
  CASE p = "multiValue"         -> checkMultiValueAssignment
    [] p = "arrowLambda"        -> isArrowLambda
    [] p = "initSemicolon"      -> InitSemicolon # {}
    [] p = "identifierFollower" -> isIdentifierFollower
    [] p = "namedArgument"      -> peekToken = "IDENTIFIER" /\ peekAt(1) = "COLON"
    [] p = "aliasFirst"         -> peekToken = "IDENTIFIER" /\ peekAt(1) = "STRING"
    [] p = "receiver"           -> peekToken = "LPAREN" /\ peekAt(1) = "IDENTIFIER"
    [] p = "importGroup"        -> peekAt(1) = "LPAREN"
    [] p = "notOperator"        -> peekToken = "NOT" /\ peekAt(1) \in {"EQUALS", "IN"}
    [] p = "of"                 -> peekAt(1) = "OF"
    [] p = "bracket"            -> peekAt(1) = "LBRACKET"
    [] p = "emptyBrackets"      -> peekAt(1) = "RBRACKET"
    [] p = "fatArrow"           -> peekAt(1) = "FAT_ARROW"
    [] p = "lineEnd"            -> peekAt(1) \in {"NEWLINE", "DEDENT", "EOF"}
    [] p = "emptyAsName"        -> peekAt(1) \in {"WALRUS", "ASSIGN", "BIT_AND", "BIT_AND_ASSIGN",
                                     "DOT", "LBRACKET", "COLON", "PIPE", "RPAREN", "COMMA",
                                     "STRING_MID", "STRING_TAIL"}
    [] p = "indentedFields"     -> /\ peekToken = "NEWLINE" /\ peekAt(1) = "INDENT"
                                   /\ peekAt(2) = "IDENTIFIER" /\ peekAt(3) = "COLON"

-----------------------------------------------------------------------------
(* The machine.                                                            *)

Init ==
  /\ toks \in Inputs
  /\ pos = 1 /\ pending = <<>> /\ errors = {} /\ inline = TRUE
  /\ tok = "EOF" /\ ret = "none" /\ saved = 1
  /\ todo = <<Call("Parse")>>
  /\ open = <<>> /\ blocks = {} /\ stmts = {} /\ decls = <<>> /\ crashed = FALSE

At(op) == todo # <<>> /\ todo[1].op = op
top == todo[1]
Then(is) == todo' = is \o Tail(todo)
\* Move to p, collecting the directives passed.
Move(p) == pos' = p /\ pending' = pending \o Directives(pos, p) /\ UNCHANGED toks
Fail == errors' = errors \cup {here}
Keep == UNCHANGED <<inline, calls, built>>

advance ==
  /\ At("adv")
  /\ Move(Moved) /\ tok' = previousToken(Moved)
  /\ Then(<<>>) /\ UNCHANGED <<errors, inline, ret, saved, built>>

\* consume does not move over a token it did not ask for.
consume ==
  /\ At("need")
  /\ IF peekToken = top.t THEN Move(here + 1) /\ UNCHANGED errors
                          ELSE Move(here) /\ Fail
  /\ Then(<<>>) /\ Keep

skipNewlines ==
  /\ At("skip")
  /\ Move(Beyond(Ignored \cup {"NEWLINE"}, pos))
  /\ Then(<<>>) /\ Keep /\ UNCHANGED errors

error ==
  /\ At("err")
  /\ Fail /\ Move(here) /\ Then(<<>>) /\ Keep

call ==
  /\ At("call")
  /\ Then(Grammar[top.f]) /\ UNCHANGED <<stream, inline, calls, built>>

\* parseExpression: 'onerr' belongs to the expression where that is allowed.
expression ==
  /\ At("expression")
  /\ Then(<<Call(IF inline THEN "parseOnErrExpr" ELSE "parseOrExpr")>>)
  /\ UNCHANGED <<stream, inline, calls, built>>

return ==
  /\ At("ret")
  /\ ret' = (IF top.k = "cast" THEN IF ret = "named" THEN "cast" ELSE "other" ELSE top.k)
  /\ Then(<<>>) /\ UNCHANGED <<stream, inline, tok, saved, built>>

check ==
  /\ At("if")
  /\ Then(IF CASE top.on = "peek" -> peekToken \in top.s
                [] top.on = "tok"  -> tok \in top.s
                [] top.on = "ret"  -> ret \in top.s
                [] top.on = "look" -> Sees(CHOOSE p \in top.s : TRUE)
          THEN top.a ELSE top.b)
  /\ IF top.on \in {"peek", "look"} /\ top.s # {"initSemicolon"}
     THEN Move(here) ELSE UNCHANGED <<toks, pos, pending>>
  /\ Keep /\ UNCHANGED errors

match ==
  /\ At("take")
  /\ IF peekToken \in top.s
     THEN /\ Move(here + 1)
          /\ Then(top.a \o IF "again" \in DOMAIN top THEN <<top>> ELSE <<>>)
     ELSE Move(here) /\ Then(top.b)
  /\ Keep /\ UNCHANGED errors

loop ==
  /\ At("while") \/ At("until")
  /\ Then(IF (peekToken \in top.s) = (top.op = "while") THEN top.body \o <<top>> ELSE <<>>)
  /\ Move(here) /\ Keep /\ UNCHANGED errors

switch ==
  /\ At("switch")
  /\ Then(IF peekToken \in DOMAIN top.on THEN top.on[peekToken] ELSE top.b)
  /\ Move(here) /\ Keep /\ UNCHANGED errors

\* One 'when' or 'otherwise' of a switch; dup: there has been an otherwise.
section ==
  /\ At("sections")
  /\ LET p == Beyond(Ignored \cup {"NEWLINE"}, pos)
     IN  CASE toks[p] = "CASE" ->
                /\ Move(p + 1)
                /\ errors' = (IF top.dup THEN errors \cup {p} ELSE errors)
                /\ Then(<<Call(top.f), top>>)
           [] toks[p] = "DEFAULT" ->
                /\ Move(p + 1)
                /\ errors' = (IF top.dup THEN errors \cup {p} ELSE errors)
                /\ Then(<<Skip, Call("parseBlock"), Sections(top.f, TRUE)>>)
           [] toks[p] = "DEDENT" \/ peekToken = "EOF" ->
                /\ Move(p) /\ Then(<<>>) /\ UNCHANGED errors
           [] OTHER ->
                /\ Move(IF toks[p] = "EOF" THEN p ELSE p + 1)
                /\ errors' = errors \cup {p}
                /\ UNCHANGED todo
  /\ Keep

\* allowInlineOnErr off for one expression, and back to what it was.
statementExpression ==
  \/ /\ At("quiet")
     /\ inline' = FALSE /\ Then(top.body \o <<Inline(inline)>>)
     /\ UNCHANGED <<stream, calls, built>>
  \/ /\ At("inline")
     /\ inline' = top.v /\ Then(<<>>)
     /\ UNCHANGED <<stream, calls, built>>

backtrack ==
  \/ /\ At("save")
     /\ saved' = pos /\ Then(<<>>)
     /\ UNCHANGED <<stream, inline, tok, ret, built>>
  \/ /\ At("restore")
     /\ pos' = saved /\ Then(<<>>)
     /\ UNCHANGED <<toks, pending, errors, inline, calls, built>>

\* The two ends of an indented body.
indentation ==
  \/ /\ At("opened")
     /\ open' = <<pos - 1>> \o open /\ Then(<<>>)
     /\ UNCHANGED <<stream, inline, calls, blocks, stmts, decls, crashed>>
  \/ /\ At("close")
     /\ open' = Tail(open) /\ Then(<<>>)
     /\ blocks' = blocks \cup {<<open[1], here>>}
     /\ IF peekToken = "DEDENT" THEN Move(here + 1) /\ UNCHANGED errors
                                ELSE Move(here) /\ Fail
     /\ UNCHANGED <<inline, calls, stmts, decls, crashed>>

begin ==
  /\ At("begin")
  /\ stmts' = stmts \cup {here}
  /\ Move(here) /\ Then(<<>>)
  /\ UNCHANGED <<errors, inline, calls, open, blocks, decls, crashed>>

\* if x := 1; x > 0: the semicolon is rewritten so that the first part ends.
ifInit ==
  \/ /\ At("split")
     /\ toks' = [toks EXCEPT ![Min(InitSemicolon)] = "NEWLINE"]
     /\ Then(<<>>) /\ Keep /\ UNCHANGED <<pos, pending, errors>>
  \/ /\ At("past")
     /\ pos' = Beyond({"NEWLINE"}, pos)
     /\ Then(<<>>) /\ Keep /\ UNCHANGED <<toks, pending, errors>>

Declarers ==
  [TYPE |-> "parseTypeDecl", INTERFACE |-> "parseInterfaceDecl", FUNC |-> "parseFunctionDecl",
   VAR |-> "parseVarDeclaration", CONST |-> "parseConstDecl", ENUM |-> "parseEnumDecl"]

DrainedLate == Directives(pos, here)
\* The directives met since the last drain.
drainDirectives == pending \o Directives(pos, here)

\* parseDeclaration, once the newlines are skipped.
parseDeclaration ==
  /\ At("drain")
  /\ pending' = <<>> /\ UNCHANGED toks
  /\ IF peekToken \in DOMAIN Declarers
     THEN /\ Then(<<Call(Declarers[peekToken]), Attach(peekToken, here, drainDirectives)>>)
          /\ pos' = here /\ UNCHANGED errors
     ELSE /\ pos' = Moved /\ Then(<<>>)
          /\ IF peekToken = "EOF" THEN UNCHANGED errors ELSE Fail
  /\ Keep

\* A missing interface body returns a nil *ast.InterfaceDecl, which the test for nil misses.
attachDirectives ==
  /\ At("attach")
  /\ crashed' = (ret = "nil" /\ top.kind = "INTERFACE" /\ top.dirs # <<>>)
  /\ decls' = (IF ret = "nil" THEN decls
               ELSE Append(decls, [kind |-> top.kind, at |-> top.at,
                                   dirs |-> IF top.kind \in {"FUNC", "TYPE", "INTERFACE", "ENUM"}
                                            THEN top.dirs ELSE <<>>]))
  /\ IF crashed' THEN todo' = <<>> ELSE Then(<<>>)
  /\ UNCHANGED <<stream, inline, calls, open, blocks, stmts>>

Next == \/ advance \/ consume \/ skipNewlines \/ error \/ call \/ expression \/ return
        \/ check \/ match \/ loop \/ switch \/ section
        \/ statementExpression \/ backtrack \/ indentation \/ begin \/ ifInit
        \/ parseDeclaration \/ attachDirectives

Spec == Init /\ [][Next]_vars /\ WF_vars(Next)

-----------------------------------------------------------------------------
(* Properties.                                                             *)

Done == todo = <<>>
Accepted == Done /\ errors = {} /\ ~crashed

\* The parser stays inside its tokens, and closes only bodies it has opened.
TypeOK ==
  /\ toks \in Seq(STRING) /\ pos \in 1..Len(toks) /\ here \in pos..Len(toks)
  /\ \A i \in 1..Len(open) : toks[open[i]] = "INDENT"
  /\ \A i \in 1..Len(pending) : toks[pending[i]] = "DIRECTIVE"
  /\ errors \subseteq 1..Len(toks) /\ stmts \subseteq 1..Len(toks)
  /\ inline \in BOOLEAN /\ crashed \in BOOLEAN
  /\ ret \in {"none", "ident", "call", "cast", "named", "type", "other", "alias", "tag", "decl", "nil"}

\* The DEDENT that ends the body an INDENT at i opens.
Closing(i) ==
  Min({j \in i..Len(toks) : toks[j] = "DEDENT" /\
         Cardinality({k \in i..j : toks[k] = "INDENT"}) = Cardinality({k \in i..j : toks[k] = "DEDENT"})})

\* Until it reports an error the parser has paired every DEDENT with the INDENT it
\* closes in the layout, and has its open bodies open: no lookahead, backtracking,
\* rewritten semicolon or skipped token takes an end that belongs to another body.
BlocksAreTheLayout ==
  errors = {} =>
    /\ \A b \in blocks : b[2] = Closing(b[1])
    /\ \A i \in 1..Len(open) : here <= Closing(open[i])

\* The line above the one that starts at k goes on there: it ends in 'else', '=>',
\* 'onerr' or 'onerr as x', or in the semicolon of an 'if'.
GoesOn(k) ==
  LET words == SelectSeq(SubSeq(toks, 1, k - 1), LAMBDA t : t \notin Ignored \cup {"NEWLINE"})
      n     == Len(words)
      start == Max({0} \cup {i \in 1..k - 2 : toks[i] \in LineEnds})
  IN  \/ n > 0 /\ words[n] \in {"ELSE", "FAT_ARROW", "ONERR"}
      \/ n > 2 /\ SubSeq(words, n - 2, n - 1) = <<"ONERR", "AS">>
      \/ toks[k - 1] = "NEWLINE" /\ toks[Beyond(Ignored, start + 1)] \in {"IF", "ELSE"}

\* In an accepted file a line that starts with the keyword of a statement is a
\* statement of its own: the statement above it ends where its line ends, but for
\* the line breaks the grammar allows.  ('send' and 'select' may also be names.)
LinesAreStatements ==
  Accepted =>
    \A k \in 2..Len(toks) :
       /\ toks[k - 1] \in {"NEWLINE", "INDENT", "DEDENT"} /\ ~ GoesOn(k)
       /\ toks[k] \in {"RETURN", "IF", "FOR", "DEFER", "GO", "CONTINUE", "BREAK"}
       => k \in stmts

\* In an accepted file a declaration that carries directives carries those since
\* the declaration before it began, and only those, although they are collected
\* by whichever look at the stream passes them (drainDirectives, parser.go:129).
DirectivesGoToTheNext ==
  Accepted =>
    \A i \in 1..Len(decls) :
       decls[i].kind \in {"FUNC", "TYPE", "INTERFACE", "ENUM"} =>
         {decls[i].dirs[k] : k \in 1..Len(decls[i].dirs)}
           = {k \in (IF i = 1 THEN 1 ELSE decls[i - 1].at)..decls[i].at : toks[k] = "DIRECTIVE"}

\* Whatever is typed, the loops over declarations, lines, arguments and pieces of
\* strings come to an end: every error path moves, or leaves the loop.
ParseEnds == <>Done

\* Errors are collected and parsing goes on (parser.go:16): it does not crash.
NoCrash == ~crashed
\* "The expression form (EXPR onerr DEFAULT) is enabled in expression contexts like
\* return" (parser_expr.go:29): also in a return inside a function literal.
ReturnTakesOnErr == At("call") /\ top.f = "parseReturnStmt" => inline
=============================================================================
