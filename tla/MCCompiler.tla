----------------------------- MODULE MCCompiler -----------------------------
(***************************************************************************)
(* Programs for the compiler: statements in every context two deep.        *)
(***************************************************************************)
EXTENDS Compiler

Text == Prim("string")
MCRegistry == [q \in {<<"os", "ReadFile">>} |-> [returns |-> <<Text, Error>>, takes |-> <<Text>>]]
MCInterfaces == {}
MCQualified == [q \in {"time.Duration"} |-> [package |-> "time", name |-> "Duration"]]

s == Id("s")
One == Lit("int")
Yes == Lit("bool")
Letter == Lit("string")
Let(n, e) == VarDecl(<<n>>, <<e>>, Absent)
LetOr(n, e, clause) == VarDecl(<<n>>, <<e>>, clause)
Run(e) == Do(e, Absent)
Load == Call(Id("load"), <<s>>)
Save == Call(Id("save"), <<s>>)
Trimmed == Pipe(s, Call(Id("trim"), <<>>))
LoadTrimmed == Pipe(Trimmed, Call(Id("load"), <<>>))
SaveLoaded == Pipe(LoadTrimmed, Call(Id("save"), <<>>))
PrintOf(e) == Call(Id("print"), <<e>>)
MatchOn(e, ss) == PipedSwitch(e, Switch(Absent, <<Case(<<Letter>>, Block(ss))>>, Absent))

Library == <<
  FunctionDecl("load", <<"p">>, <<Text>>, <<Text, Error>>, Block(<<Return(<<Id("p"), Empty>>)>>)),
  FunctionDecl("trim", <<"p">>, <<Text>>, <<Text>>, Block(<<Return(<<Id("p")>>)>>)),
  FunctionDecl("save", <<"p">>, <<Text>>, <<Error>>, Block(<<Return(<<Empty>>)>>)),
  VariantDecl("Shape", <<"Circle", "Point">>)>>

Main(returns, body) ==
  FunctionDecl("f", <<"s", "items", "ch", "shape">>,
               <<Text, Compound("list", <<Text>>), Compound("channel", <<Text>>), Named("Shape")>>, returns, Block(body))
Program(imports, more, returns, body) ==
  [imports |-> imports, decls |-> <<Main(returns, body)>> \o more \o Library]
Under(returns, body) == Program(<<>>, <<>>, returns, body)
Pair == <<Text, Error>>

-----------------------------------------------------------------------------
(* Statements ss in a context k, which introduces i where it can.          *)

Scopes == {"if", "else", "if init", "is", "otherwise", "type case", "comm"}
Loops == {"range", "numeric", "while"}
Detached == {"go", "defer", "literal", "lambda", "piped", "handler", "select otherwise"}
Contexts == {"none", "case"} \union Scopes \union Loops \union Detached
In(k, ss) ==
  CASE k = "none" -> ss
    [] k = "if"   -> <<If(Absent, Yes, Block(ss), Absent)>>
    [] k = "else" -> <<If(Absent, Yes, Block(<<>>), Block(ss))>>
    [] k = "if init" -> <<If(Let("i", One), Yes, Block(ss), Absent)>>
    [] k = "is"   -> <<If(Absent, Is(Id("shape"), "Circle", "i"), Block(ss), Absent)>>
    [] k = "range" -> <<ForRange("", "i", Id("items"), Block(ss))>>
    [] k = "numeric" -> <<ForNumeric("i", One, One, Block(ss))>>
    [] k = "while" -> <<ForCondition(Yes, Block(ss))>>
    [] k = "case" -> <<Switch(s, <<Case(<<Letter>>, Block(ss))>>, Absent)>>
    [] k = "otherwise" -> <<Switch(s, <<>>, Block(ss))>>
    [] k = "type case" -> <<TypeSwitch(Id("shape"), "i", <<TypeCase(Named("Circle"), Block(ss))>>, Absent)>>
    [] k = "comm" -> <<Select(<<Communication(Receive(Id("ch")), <<"i">>, Block(ss))>>, Absent)>>
    [] k = "select otherwise" -> <<Select(<<>>, Block(ss))>>
    [] k = "go"   -> <<Go(Absent, Block(ss))>>
    [] k = "defer" -> <<Defer(Absent, Block(ss))>>
    [] k = "literal" -> <<Let("l", FunctionLiteral(<<"i">>, <<Text>>, Pair, Block(ss)))>>
    [] k = "lambda" -> <<Let("l", Lambda(<<"i">>, Block(ss)))>>
    [] k = "piped" -> <<Run(MatchOn(s, ss))>>
    [] k = "handler" -> <<Do(Save, OnErr(BlockExpr(Block(ss)), "e"))>>

Everywhere(inner) ==
  {In(k, In(m, b)) : k \in Contexts, m \in {"none", "if", "case", "range", "go", "literal", "piped", "handler"}, b \in inner}

\* A name declared, and used there, behind it, or out of its reach.
Naming == {In(k, In(m, <<Let("v", s)>>) \o <<Let("w", Id(n))>>) \o a :
             k \in Contexts, m \in {"none", "if", "range", "go", "literal", "handler", "piped"}, n \in {"v", "i", "error"},
             a \in {<<>>, <<Let("x", Id("v"))>>}}
\* Errors by their names.
Catching == Everywhere({<<LetOr("v", Load, OnErr(PrintOf(Interpolated(<<Id(n)>>)), a))>> : n \in {"error", "e"}, a \in {"", "e"}}
                   \union {<<Let("v", Interpolated(<<Id("e")>>))>>, <<Let("v", Interpolated(<<Id("error")>>))>>})
Jumping == Everywhere({<<Break>>, <<Continue>>, <<Return(<<>>)>>, <<Return(<<s, Empty>>)>>,
                   <<LetOr("v", Load, OnErrReturn)>>, <<LetOr("v", Load, OnErrContinue)>>, <<LetOr("v", Load, OnErrBreak)>>})
Asking == Everywhere({<<Run(PrintOf(s))>>, <<Run(Pipe(s, Id("print")))>>, <<Let("v", Interpolated(<<s>>))>>,
                  <<Let("v", ErrorExpr(Letter))>>, <<Let("v", ErrorExpr(Interpolated(<<s>>)))>>,
                  <<LetOr("v", Load, Explained(OnErr(Absent, "")))>>})
Values1 == {LetOr("v", e, h) : e \in {Load, LoadTrimmed, MatchOn(LoadTrimmed, <<Return(<<s>>)>>)},
                              h \in {OnErrReturn, OnErr(Letter, ""), Explained(OnErr(Letter, ""))}}
Calling == Everywhere({<<x>> : x \in Values1 \union
                   {Do(Save, OnErrReturn), Do(SaveLoaded, OnErrReturn), Do(LoadTrimmed, OnErrReturn), Run(LoadTrimmed),
                    Assign(<<s>>, <<LoadTrimmed>>, OnErrReturn), Assign(<<s>>, <<Load>>, OnErr(Letter, "")),
                    Do(MatchOn(LoadTrimmed, <<Run(Save)>>), OnErrReturn), Let("v", OnErrExpr(Load, Letter)),
                    Let("v", IfExpression(Yes, Call(Id("trim"), <<s>>), Letter)), Return(<<Load>>), Return(<<LoadTrimmed>>),
                    Let("v", Index(Call(Id("trim"), <<s>>), Unary("-", One)))}})
\* The program's own variables named as the generator names its.
Clashing == {In(k, <<Let(n, s)>>) \o <<x>> : k \in Contexts, n \in {"err_1", "pipe_1", "pipeErr_3"},
               x \in {LetOr("v", SaveLoaded, OnErr(Letter, "")), LetOr("v", MatchOn(LoadTrimmed, <<Return(<<s>>)>>), OnErr(Letter, ""))}}

\* The other statements and expressions, over a record and its methods.
Point == <<TypeDecl("Pos", <<"x", "next">>, <<Prim("int"), Compound("reference", <<Named("Pos")>>)>>), InterfaceDecl("Namer"),
           ConstDecl("Size", One),
           MethodDecl("name", "it", Named("Pos"), <<"s">>, <<Text>>, <<Text>>, Block(<<Return(<<s>>)>>)),
           MethodDecl("text", "it", Named("Pos"), <<>>, <<>>, <<Text>>, Block(<<Return(<<Interpolated(<<FieldAccess(Id("it"), "x")>>)>>)>>)),
           FunctionDecl("each", <<"f", "xs">>, <<Signature(<<Text>>, <<Text>>), Compound("list", <<Text>>)>>, <<Prim("int")>>,
                        Block(<<Return(<<Call(Id("len"), <<Id("xs")>>)>>)>>)),
           EnumDecl("Color", <<"Red">>), MethodDecl("String", "c", Named("Color"), <<>>, <<>>, <<Text>>, Block(<<Return(<<Letter>>)>>))>>
Pos == StructLiteral("Pos", <<"x">>, <<One>>)
Shown == MethodCall(Id("p"), "text", <<>>)
Others == {
  <<TypedVar("v", Text, s)>>, <<TypedVar("v", Compound("map", <<Text, Prim("int")>>), MapLiteral(Text, Prim("int"), <<s, One>>))>>,
  <<Send(s, Id("ch"))>>, <<Let("n", One), IncDec(Id("n"))>>, <<Let("n", Id("Size")), Assign(<<Id("n")>>, <<Binary("+", Id("n"), One)>>, Absent)>>,
  <<ForRange("i", "x", Id("items"), Block(<<Run(PrintOf(Id("x")))>>))>>, <<ForNumeric("_", Zero, One, Block(<<Continue>>))>>,
  <<Through(ForNumeric("_", Zero, One, Block(<<Break>>)))>>, <<Let("v", Slice(Id("items"), One, One))>>,
  <<Let("v", ListLiteral(<<s, s>>)), Let("w", Index(Id("v"), One))>>, <<VarDecl(<<"v", "ok">>, <<Index(MapLiteral(Text, Text, <<s, s>>), s)>>, Absent)>>,
  <<Let("v", Cast(One, Text))>>, <<Let("v", FieldAccess(Id("Color"), "Red"))>>, <<Let("v", Receive(Id("ch")))>>,
  <<Let("p", Pos), Let("v", Shown)>>, <<Let("p", Pos), Assign(<<FieldAccess(Id("p"), "x")>>, <<One>>, Absent)>>,
  <<Let("p", Pos), Let("v", Pipe(Id("p"), FieldAccess(Absent, "x")))>>, <<Let("p", Pos), Let("v", Pipe(Id("p"), MethodCall(Absent, "text", <<>>)))>>,
  <<Let("v", Call(Id("each"), <<Lambda(<<"a">>, Call(Id("trim"), <<Id("a")>>)), Id("items")>>))>>,
  <<Let("v", Pipe(Id("items"), Call(Id("each"), <<Lambda(<<"a">>, Block(<<Return(<<Id("a")>>)>>)), Id("_")>>)))>>,
  <<Let("v", Binary("and", Yes, Is(Id("shape"), "Circle", "")))>>, <<Let("v", Unary("not", Binary("==", s, Letter)))>>,
  <<Let("v", Other("panic", <<s>>, <<>>))>>, <<VarDecl(<<"v", "e">>, <<Load>>, OnErr(Empty, ""))>>, <<VarDecl(<<"v", "e">>, <<Load>>, OnErrReturn)>>,
  <<Let("v", s), VarDecl(<<"v">>, <<s>>, Absent)>>, <<If(Absent, Yes, Block(<<>>), If(Let("q", s), Yes, Block(<<Run(PrintOf(Id("q")))>>), Absent))>>,
  <<Defer(PrintOf(s), Absent)>>, <<Go(Save, Absent)>>, <<Assign(<<s, Id("_")>>, <<Load>>, Absent)>>, <<LetOr("v", Load, OnErr(ErrorExpr(Letter), ""))>>}

Globals == {<<>>, <<EnumDecl("Color", <<"Red">>)>>, <<GlobalVar("top", Interpolated(<<Letter>>))>>,
            <<GlobalVar("top", Call(Id("trim"), <<Letter>>))>>}
Os == Import("os", "os", "os", FALSE)
Imports == {<<>>, <<Os>>, <<Import("sys", "os", "os", FALSE)>>,
            <<Import("string", "stdlib/string", "string", TRUE), Import("fmt", "fmt", "fmt", FALSE)>>}

MCPrograms ==
  {Under(Pair, b) : b \in Naming \union Catching \union Asking \union Calling \union Clashing}
  \union {Under(r, b) : r \in {<<>>, Pair}, b \in Jumping}
  \union {Program(<<>>, Point, Pair, In(k, b)) : k \in {"none", "if", "handler", "literal"}, b \in Others}
  \union {Program(i, m, Pair, <<x>>) : i \in Imports, m \in Globals,
             x \in {Run(PrintOf(s)), LetOr("v", MethodCall(Id("os"), "ReadFile", <<s>>), OnErrReturn), Let("v", MethodCall(Id("string"), "Trim", <<s>>))}}
=============================================================================
