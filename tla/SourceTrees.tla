----------------------------- MODULE SourceTrees -----------------------------
(***************************************************************************)
(* The trees the parser hands to the analyzer and the generator            *)
(* (internal/ast).  A node is its kind, the names it introduces or         *)
(* mentions, its children and its types; the constructors below are the    *)
(* node types.  What an optional child may be missing is Absent.           *)
(***************************************************************************)
EXTENDS Sequences

Node(k, n, c, t) == [k |-> k, n |-> n, c |-> c, t |-> t]
Absent == Node("absent", <<>>, <<>>, <<>>)
Has(e) == e # Absent

-----------------------------------------------------------------------------
(* Types: a kind, a name, the types it is made of and, for a function, the *)
(* types it returns.                                                       *)

TypeOf(k, n, e, r) == [k |-> k, n |-> n, e |-> e, r |-> r]
Prim(k) == TypeOf(k, "", <<>>, <<>>)           \* "int", "string", "bool", "float", ...
Named(n) == TypeOf("named", n, <<>>, <<>>)
Compound(k, e) == TypeOf(k, "", e, <<>>)       \* "reference", "list", "map", "channel"
Signature(params, returns) == TypeOf("function", "", params, returns)
Error == Named("error")

-----------------------------------------------------------------------------
(* Declarations.                                                           *)

TypeDecl(n, fields, types) == Node("type", <<n>> \o fields, <<>>, types)
InterfaceDecl(n) == Node("interface", <<n>>, <<>>, <<>>)
EnumDecl(n, cases) == Node("enum", <<n>> \o cases, <<>>, <<>>)
VariantDecl(n, cases) == Node("variant", <<n>> \o cases, <<>>, <<>>)
ConstDecl(n, value) == Node("const", <<n>>, <<value>>, <<>>)
GlobalVar(n, value) == Node("global", <<n>>, <<value>>, <<>>)
FunctionDecl(n, params, types, returns, body) ==
  Node("func", <<n>> \o params, <<body>>, <<Signature(types, returns)>>)
MethodDecl(n, recv, on, params, types, returns, body) ==
  Node("method", <<n, recv>> \o params, <<body>>, <<Signature(types, returns), on>>)

DeclName(d) == d.n[1]
ParamsOf(d) == SubSeq(d.n, IF d.k = "method" THEN 3 ELSE 2, Len(d.n))
ReturnsOf(d) == d.t[1].r

-----------------------------------------------------------------------------
(* Statements.  onerr is Absent or a clause.                               *)

List(c) == Node("list", <<>>, c, <<>>)
Block(c) == Node("block", <<>>, c, <<>>)
VarDecl(n, values, onerr) == Node("var", n, <<onerr, List(values)>>, <<>>)
TypedVar(n, t, value) == Node("var", <<n>>, <<Absent, List(<<value>>)>>, <<t>>)
Assign(targets, values, onerr) == Node("assign", <<>>, <<onerr, List(values), List(targets)>>, <<>>)
IncDec(e) == Node("incdec", <<>>, <<e>>, <<>>)
Return(values) == Node("return", <<>>, values, <<>>)
Break == Node("break", <<>>, <<>>, <<>>)
Continue == Node("continue", <<>>, <<>>, <<>>)
If(init, cond, then, else) == Node("if", <<>>, <<init, cond, then, else>>, <<>>)
Case(values, body) == Node("case", <<>>, <<body>> \o values, <<>>)
Switch(e, cases, otherwise) == Node("switch", <<>>, <<e, List(cases), otherwise>>, <<>>)
TypeCase(t, body) == Node("case", <<>>, <<body>>, <<t>>)
TypeSwitch(e, b, cases, otherwise) == Node("typeswitch", <<b>>, <<e, List(cases), otherwise>>, <<>>)
Communication(recv, bindings, body) == Node("comm", bindings, <<body, recv>>, <<>>)
Select(cases, otherwise) == Node("select", <<>>, <<Absent, List(cases), otherwise>>, <<>>)
ForRange(index, v, coll, body) == Node("range", <<index, v>>, <<coll, body>>, <<>>)
ForNumeric(v, from, to, body) == Node("numeric", <<v>>, <<from, to, body>>, <<>>)
Through(loop) == [loop EXCEPT !.t = <<Prim("int")>>]                     \* "through", not "to"
ForCondition(cond, body) == Node("while", <<>>, <<cond, body>>, <<>>)
Defer(call, block) == Node("defer", <<>>, <<call, block>>, <<>>)
Go(call, block) == Node("go", <<>>, <<call, block>>, <<>>)
Send(v, ch) == Node("send", <<>>, <<v, ch>>, <<>>)
Do(e, onerr) == Node("do", <<>>, <<onerr, List(<<e>>)>>, <<>>)

OnErr(handler, alias) == Node("onerr", <<alias>>, <<handler>>, <<>>)
OnErrReturn == Node("onerr return", <<"">>, <<>>, <<>>)
OnErrContinue == Node("onerr continue", <<"">>, <<>>, <<>>)
OnErrBreak == Node("onerr break", <<"">>, <<>>, <<>>)
Explained(clause) == [clause EXCEPT !.t = <<Prim("string")>>]

-----------------------------------------------------------------------------
(* Expressions.                                                            *)

Id(n) == Node("id", <<n>>, <<>>, <<>>)
Lit(k) == Node("literal", <<>>, <<>>, <<Prim(k)>>)
Zero == [Lit("int") EXCEPT !.n = <<"0">>]
Interpolated(parts) == Node("text", <<>>, parts, <<>>)
Binary(op, l, r) == Node("binary", <<op>>, <<l, r>>, <<>>)
Unary(op, e) == Node("unary", <<op>>, <<e>>, <<>>)
Is(e, case, binding) == Node("is", <<case, binding>>, <<e>>, <<>>)     \* binding "" if none
Pipe(l, r) == Node("pipe", <<>>, <<l, r>>, <<>>)
PipedSwitch(l, switch) == Node("piped", <<>>, <<l, switch>>, <<>>)
Call(f, args) == Node("call", <<>>, <<f>> \o args, <<>>)
MethodCall(o, m, args) == Node("methodcall", <<m>>, <<o>> \o args, <<>>)
FieldAccess(o, f) == Node("field", <<f>>, <<o>>, <<>>)
Index(e, i) == Node("index", <<>>, <<e, i>>, <<>>)
Slice(e, from, to) == Node("slice", <<>>, <<e, from, to>>, <<>>)
ListLiteral(es) == Node("listof", <<>>, es, <<>>)
MapLiteral(key, value, pairs) == Node("mapof", <<>>, pairs, <<key, value>>)
StructLiteral(n, fields, values) == Node("struct", fields, values, <<Named(n)>>)
Empty == Node("empty", <<>>, <<>>, <<>>)
Receive(ch) == Node("receive", <<>>, <<ch>>, <<>>)
Cast(e, t) == Node("cast", <<>>, <<e>>, <<t>>)
FunctionLiteral(params, types, returns, body) ==
  Node("literal func", params, <<body>>, <<Signature(types, returns)>>)
Lambda(params, body) == Node("lambda", params, <<body>>, <<>>)         \* an expression or a block
ReturnExpr(values) == Node("return expr", <<>>, values, <<>>)
OnErrExpr(e, default) == Node("onerr expr", <<>>, <<e, default>>, <<>>)
ErrorExpr(e) == Node("error", <<>>, <<e>>, <<>>)
BlockExpr(body) == Node("block expr", <<>>, <<body>>, <<>>)
IfExpression(c, then, else) == Node("if expr", <<>>, <<c, then, else>>, <<>>)
\* The expressions the analyzer has no case for: "addressof", "deref", "panic",
\* "close", "assertion", "make", "discard", "recover".
Opaque == {"addressof", "deref", "panic", "close", "assertion", "make", "discard", "recover"}
Other(k, c, t) == Node(k, <<>>, c, t)

Onerr(s) == s.c[1]
Values(s) == s.c[2].c
Targets(s) == s.c[3].c
Cases(s) == s.c[2].c
Otherwise(s) == s.c[3]
Body(s) == s.c[1]
Args(e) == Tail(e.c)
==============================================================================
