------------------------------ MODULE Analyzer ------------------------------
(***************************************************************************)
(* The semantic analyzer (internal/semantic): the symbol table, the        *)
(* context of loops, functions and onerr handlers it threads through a     *)
(* walk of the tree, the types it infers and the errors it reports.        *)
(* Literals of untyped composites, named and default arguments, the lints  *)
(* and the checks of directives are left out.                              *)
(***************************************************************************)
EXTENDS SourceTrees, SequencesExt, Integers, FiniteSetsExt, TLC

CONSTANTS
  Registry,     \* <<package or type, function>> |-> [returns, takes]: the generated tables
  Interfaces,   \* names of the known interfaces of the libraries
  Qualified     \* names of types with a package |-> [package, name]

-----------------------------------------------------------------------------
(* The symbol table.                                                       *)

NoNames == [n \in {} |-> n]
Symbol(kind, type) == [kind |-> kind, type |-> type, fields |-> NoNames, methods |-> NoNames, cases |-> {}]
Unknown == Prim("unknown")
Bool == Prim("bool")
Variable(t) == Symbol("variable", t)

\* fn is <<>> outside of functions, <<the types to return>> inside.
NewAnalyzer ==
  [scopes |-> <<NoNames>>, packages |-> NoNames, loops |-> 0, switches |-> 0, fn |-> <<>>,
   onerr |-> FALSE, alias |-> "", piped |-> FALSE, allowIs |-> FALSE,
   errors |-> {}, types |-> NoNames, counts |-> NoNames]

Report(a, what) == [a EXCEPT !.errors = @ \union {what}]
Require(a, ok, what) == IF ok THEN a ELSE Report(a, what)

EnterScope(a) == [a EXCEPT !.scopes = Append(@, NoNames)]
ExitScope(a) == IF Len(a.scopes) > 1 THEN [a EXCEPT !.scopes = SubSeq(@, 1, Len(@) - 1)] ELSE a

Declared(a, n) == n \in DOMAIN a.scopes[Len(a.scopes)]
Put(a, n, sym) == [a EXCEPT !.scopes[Len(a.scopes)] = (n :> sym) @@ @]
Define(a, n, sym) ==
  CASE n = "_"        -> a
    [] Declared(a, n) -> Report(a, <<"redeclared", n>>)
    [] OTHER          -> Put(a, n, sym)
\* Where the error of Define is ignored.
DefineIfNew(a, n, sym) == IF n \in {"_", ""} \/ Declared(a, n) THEN a ELSE Put(a, n, sym)

RECURSIVE DefineEachIfNew(_, _, _)
DefineEachIfNew(a, names, syms) ==
  IF names = <<>> THEN a
  ELSE DefineEachIfNew(DefineIfNew(a, Head(names), Head(syms)), Tail(names), Tail(syms))

RECURSIVE DefineEach(_, _, _)
DefineEach(a, names, syms) ==
  IF names = <<>> THEN a
  ELSE DefineEach(Define(a, Head(names), Head(syms)), Tail(names), Tail(syms))

ScopesWith(a, n) == {i \in DOMAIN a.scopes : n \in DOMAIN a.scopes[i]}
Known(a, n) == ScopesWith(a, n) # {}
Resolve(a, n) == a.scopes[Max(ScopesWith(a, n))][n]
KnownAs(a, n, kinds) == Known(a, n) /\ Resolve(a, n).kind \in kinds

-----------------------------------------------------------------------------
(* Types.                                                                  *)

Lenient == {"any", "any2", "ordered", "result"}
BuiltIn == Lenient \union {"error", "byte", "rune"}

RECURSIVE typeAnnotationToTypeInfo(_, _)
typeAnnotationToTypeInfo(a, t) ==
  IF t.k = "named"
  THEN IF KnownAs(a, t.n, {"interface"}) \/ t.n \in Interfaces THEN [t EXCEPT !.k = "interface"] ELSE t
  ELSE [t EXCEPT !.e = [i \in DOMAIN @ |-> typeAnnotationToTypeInfo(a, @[i])],
                 !.r = [i \in DOMAIN @ |-> typeAnnotationToTypeInfo(a, @[i])]]
Infos(a, ts) == [i \in DOMAIN ts |-> typeAnnotationToTypeInfo(a, ts[i])]

RECURSIVE validateTypeAnnotation(_, _), ValidateEach(_, _)
ValidateEach(a, ts) ==
  IF ts = <<>> THEN a ELSE ValidateEach(validateTypeAnnotation(a, Head(ts)), Tail(ts))
validateTypeAnnotation(a, t) ==
  CASE t.k # "named" -> ValidateEach(a, t.e \o t.r)
    [] t.n \in BuiltIn -> a
    [] t.n \in DOMAIN Qualified -> Require(a, Known(a, Qualified[t.n].package), <<"package", t.n>>)
    [] OTHER -> Require(a, KnownAs(a, t.n, {"type", "interface"}), <<"type", t.n>>)

\* Whether nil may stand for a value of type t.
RECURSIVE isReferenceType(_, _, _)
isReferenceType(a, t, visited) ==
  \/ t.k \in {"reference", "list", "map", "channel", "function", "interface", "unknown"}
  \/ /\ t.k = "named"
     /\ \/ t.n \in Lenient \union {"error"} \union DOMAIN Qualified
        \/ KnownAs(a, t.n, {"interface"})
        \/ /\ KnownAs(a, t.n, {"type"}) /\ t.n \notin visited
           /\ isReferenceType(a, Resolve(a, t.n).type, visited \union {t.n})

isVariantCaseOf(a, case, parent) ==
  Known(a, parent) /\ Resolve(a, parent).type.k = "variant" /\ case \in Resolve(a, parent).cases

Unqualified(n) == IF n \in DOMAIN Qualified THEN Qualified[n].name ELSE n
resolveQualifiedName(a, p) == IF p \in DOMAIN a.packages THEN a.packages[p] ELSE p
SameQualified(a, m, n) ==
  /\ {m, n} \subseteq DOMAIN Qualified
  /\ Qualified[m].name = Qualified[n].name
  /\ resolveQualifiedName(a, Qualified[m].package) = resolveQualifiedName(a, Qualified[n].package)

IsError(t) == t.k = "named" /\ t.n = "error"
IsDuration(t) == t.k = "named" /\ t.n = "time.Duration"

RECURSIVE typesCompatible(_, _, _)
\* One direction of the rules that hold either way round.
Accepts(a, t, u) ==
  \/ t.k = "unknown"
  \/ t.k = "named" /\ t.n \in Lenient
  \/ IsError(t) /\ u.k \in {"struct", "named", "reference"}
  \/ IsDuration(t) /\ u.k = "int"
AcceptsOtherKind(a, t, u) ==
  \/ t.k = "enum" /\ u.k = "named" /\ t.n = u.n
  \/ t.k \in {"variant", "named"} /\ u.k \in {"named", "struct"} /\ isVariantCaseOf(a, u.n, t.n)
  \/ t.k = "interface"
  \/ t.k = "named" /\ t.n \in DOMAIN Qualified
SameNames(a, t, u) ==
  \/ t.n = u.n
  \/ (~({t.n, u.n} \subseteq DOMAIN Qualified)) /\ Unqualified(t.n) = Unqualified(u.n)
  \/ SameQualified(a, t.n, u.n)
  \/ isVariantCaseOf(a, t.n, u.n) \/ isVariantCaseOf(a, u.n, t.n)
typesCompatible(a, t, u) ==
  \/ Accepts(a, t, u) \/ Accepts(a, u, t)
  \/ IF t.k # u.k
     THEN CASE t.k = "nil" -> isReferenceType(a, u, {})
            [] u.k = "nil" -> isReferenceType(a, t, {})
            [] OTHER       -> AcceptsOtherKind(a, t, u) \/ AcceptsOtherKind(a, u, t)
     ELSE CASE t.k \in {"list", "channel", "reference", "map"} ->
                 t.e = <<>> \/ u.e = <<>> \/ \A i \in DOMAIN t.e : typesCompatible(a, t.e[i], u.e[i])
            [] t.k \in {"named", "enum"} -> SameNames(a, t, u)
            [] OTHER -> TRUE

isNumericType(t) == t.k \in {"int", "float", "unknown"}
isBitwiseType(t) == t.k \in {"int", "unknown"}
Truth(t) == t.k \in {"bool", "unknown"}

recordType(a, e, t) ==
  IF e \in DOMAIN a.types /\ a.types[e].k = "nil" THEN a ELSE [a EXCEPT !.types = (e :> t) @@ @]
recordReturnCount(a, e, n) == [a EXCEPT !.counts = (e :> n) @@ @]

-----------------------------------------------------------------------------
(* Expressions.  The result of a walk is the analyzer it leaves and the    *)
(* type (t), or the types (ts), of the expression.                         *)

Typed(a, t) == [a |-> a, t |-> t]
TypedAs(a, ts) == [a |-> a, ts |-> ts]
Single(x) == TypedAs(x.a, <<x.t>>)
First(m) == Typed(m.a, IF m.ts = <<>> THEN Unknown ELSE Head(m.ts))

\* Expressions and statements contain each other: one recursion has both.
RECURSIVE analyze(_, _, _)
analyzeExpression(e, a) == analyze("value", e, a)
analyzeExpressionMulti(e, a) == analyze("values", e, a)
analyzeEach(es, a) == analyze("each", es, a)
analyzeStatement(s, a) == analyze("statement", s, a)
analyzeBlock(b, a) == analyze("block", b.c, a)

Extended(m, x) == TypedAs(x.a, Append(m.ts, x.t))
AnalyzedEach(m, e) == Extended(m, analyzeExpression(e, m.a))
Visit(es, a) == analyzeEach(es, a).a

Function(params, returns) == Signature(params, returns)
Variadic(returns) == [Function(<<Unknown>>, returns) EXCEPT !.n = "many"]

\* Some builtins come before the symbol table, others after it.
analyzeIdentifier(e, a) ==
  LET n == e.n[1] IN
  CASE n = "print"            -> Typed(a, Variadic(<<>>))
    [] n = "append"           -> Typed(a, Variadic(<<Unknown>>))
    [] n = "len"              -> Typed(a, Function(<<Unknown>>, <<Prim("int")>>))
    [] n = "delete"           -> Typed(a, Function(<<Unknown, Unknown>>, <<>>))
    [] n = "_"                -> Typed(a, Unknown)
    [] OTHER ->
       CASE Known(a, n)         -> Typed(a, Resolve(a, n).type)
         [] n = "empty"         -> Typed(a, Prim("nil"))
         [] n \in {"min", "max"} -> Typed(a, [Variadic(<<Unknown>>) EXCEPT !.e = <<Unknown, Unknown>>])
         [] OTHER               -> Typed(Report(a, <<"undefined", n>>), Unknown)

\* {error} and the alias stand for the error a handler has caught.
RECURSIVE analyzeStringInterpolation(_, _)
analyzeStringInterpolation(parts, a) ==
  IF parts = <<>> THEN a
  ELSE LET p == Head(parts)
           caught(S) == a.onerr /\ p.k = "id" /\ p.n[1] \in S
       IN analyzeStringInterpolation(Tail(parts),
            CASE caught({"err"})            -> Report(a, <<"err", "">>)
              [] caught({"error", a.alias}) -> a
              [] OTHER                      -> analyzeExpression(p, a).a)

analyzeBinaryExpr(e, a) ==
  LET m == analyzeEach(e.c, a)
      l == m.ts[1]
      r == m.ts[2]
      op == e.n[1]
      text == {l.k, r.k} \subseteq {"string", "unknown"} /\ "string" \in {l.k, r.k}
      ok == CASE op = "+"           -> text \/ (isNumericType(l) /\ isNumericType(r))
              [] op = "*"           -> isNumericType(l) /\ isNumericType(r)
              [] op = "=="          -> typesCompatible(m.a, l, r)
              [] op = "and"         -> Truth(l) /\ Truth(r)
              [] op = "&"           -> isBitwiseType(l) /\ isBitwiseType(r)
              [] op = "in"          -> FALSE
      number == CASE op = "*" /\ l.k = "named"  -> l
                  [] op = "*" /\ r.k = "named"  -> r
                  [] "float" \in {l.k, r.k}     -> Prim("float")
                  [] "unknown" \in {l.k, r.k}   -> Unknown
                  [] OTHER                      -> Prim("int")
      t == CASE op \in {"==", "and", "in"} -> Bool
             [] op = "&"                   -> Prim("int")
             [] op = "+" /\ text           -> Prim("string")
             [] OTHER                      -> number
  IN Typed(Require(m.a, ok, <<"operands", op>>), t)

analyzeUnaryExpr(e, a) ==
  LET x == analyzeExpression(e.c[1], a) IN
  IF e.n[1] = "-" THEN Typed(Require(x.a, isNumericType(x.t), <<"operand", "-">>), x.t)
  ELSE Typed(Require(x.a, Truth(x.t), <<"operand", "not">>), Bool)

\* The variant a value of type t is one case of, "" if none.
VariantOf(a, t) ==
  IF \/ t.k = "variant"
     \/ t.k = "named" /\ Known(a, t.n) /\ Resolve(a, t.n).type.k = "variant"
  THEN t.n ELSE ""

\* A binding is accepted as the whole condition of an if only.
analyzeIsExpr(e, a) ==
  LET a0 == Require(a, e.n[2] = "" \/ a.allowIs, <<"binding", e.n[2]>>)
      x == analyzeExpression(e.c[1], [a0 EXCEPT !.allowIs = FALSE])
      v == VariantOf(x.a, x.t)
      ok == IF v = "" THEN x.t.k = "unknown" ELSE e.n[1] \in Resolve(x.a, v).cases
  IN Typed([Require(x.a, ok, <<"is", e.n[1]>>) EXCEPT !.allowIs = a.allowIs], Bool)

\* The fields and the methods of a type are those of the symbol of its name.
Deref(t) == IF t.k = "reference" /\ t.e # <<>> THEN t.e[1] ELSE t
MembersOf(a, t) ==
  IF Deref(t).k \in {"named", "struct"} /\ Known(a, Deref(t).n)
  THEN Resolve(a, Deref(t).n) ELSE Symbol("", Unknown)

analyzeFieldAccessExpr(e, a, piped) ==
  LET o == e.c[1]
      f == e.n[1]
      name == IF o.k = "id" THEN o.n[1] ELSE ""
      isEnum == KnownAs(a, name, {"type"}) /\ Resolve(a, name).type.k = "enum"
      x == IF Has(o) THEN analyzeExpression(o, a) ELSE Typed(a, Head(piped))
      fields == MembersOf(x.a, x.t).fields
  IN CASE isEnum /\ f \in Resolve(a, name).cases ->
            Typed(recordReturnCount(a, e, 1), Resolve(a, name).type)
       [] isEnum -> Typed(Report(a, <<"case", f>>), Unknown)
       [] ~isEnum /\ ~Has(o) /\ piped = <<>> ->
            Typed(recordReturnCount(Report(a, <<"shorthand", f>>), e, 1), Unknown)
       [] OTHER ->
            IF f \in DOMAIN fields THEN Typed(recordReturnCount(x.a, e, 1), fields[f])
            ELSE Typed(recordReturnCount(Require(x.a, x.t.k \notin {"int", "float", "string", "bool", "nil"},
                                                 <<"field", f>>), e, 1), Unknown)

IsPlaceholder(e) == e.k = "id" /\ e.n[1] = "_"
IsLambda(e) == e.k = "lambda"

\* Arguments but lambdas, then lambdas: by then their signatures are recorded.
RECURSIVE analyzeArguments(_, _, _, _)
analyzeArguments(es, a, piped, lambdas) ==
  IF es = <<>> THEN TypedAs(a, <<>>)
  ELSE LET e == Head(es)
           x == CASE IsPlaceholder(e) /\ piped # <<>> -> Typed(recordType(a, e, piped[1]), piped[1])
                  [] IsLambda(e) # lambdas -> Typed(a, IF e \in DOMAIN a.types THEN a.types[e] ELSE Unknown)
                  [] OTHER -> analyzeExpression(e, a)
           r == analyzeArguments(Tail(es), x.a, piped, lambdas)
       IN TypedAs(r.a, <<x.t>> \o r.ts)

\* inferLambdaParamTypes: what the callee takes at the place of each lambda.
RecordSignatures(a, args, offset, takes) ==
  LET known == {i \in DOMAIN args : IsLambda(args[i]) /\ i + offset \in DOMAIN takes /\ takes[i + offset].k = "function"}
  IN [a EXCEPT !.types = [e \in {args[i] : i \in known} |->
                            takes[offset + Min({i \in known : args[i] = e})]] @@ @]

CountsFit(f, n) == IF f.n = "many" THEN n >= Max({Len(f.e) - 1, 0}) ELSE n = Len(f.e)

analyzeCallExpr(e, a, piped) ==
  LET args == Args(e)
      f == analyzeExpression(e.c[1], a)
      placed == \E i \in DOMAIN args : IsPlaceholder(args[i])
      before == IF placed THEN <<>> ELSE piped
      off == Len(before)
      m1 == analyzeArguments(args, f.a, IF placed THEN piped ELSE <<>>, FALSE)
      takes == IF f.t.k = "function" THEN f.t.e ELSE <<>>
      m == analyzeArguments(args, RecordSignatures(m1.a, args, off, takes), IF placed THEN piped ELSE <<>>, TRUE)
      ts == before \o [i \in DOMAIN args |-> IF IsLambda(args[i]) THEN m.ts[i] ELSE m1.ts[i]]
      param(i) == takes[IF f.t.n = "many" /\ i >= Len(takes) THEN Len(takes) ELSE i]
      fits == /\ CountsFit(f.t, Len(args) + off)
              /\ \A i \in DOMAIN ts : (f.t.n = "many" \/ i <= Len(takes)) => typesCompatible(m.a, param(i), ts[i])
  IN IF f.t.k # "function" THEN TypedAs(m.a, <<Unknown>>)
     ELSE TypedAs(recordReturnCount(Require(m.a, fits, <<"arguments", Len(args)>>), e, Len(f.t.r)),
                  IF f.t.r = <<>> THEN <<Unknown>> ELSE f.t.r)

analyzeMethodCallExpr(e, a, piped) ==
  LET o == e.c[1]
      args == Args(e)
      x == IF Has(o) THEN analyzeExpression(o, a) ELSE Typed(a, Head(piped))
      q == IF o.k = "id" THEN <<resolveQualifiedName(a, o.n[1]), e.n[1]>> ELSE <<"", "">>
      m1 == analyzeArguments(args, x.a, <<>>, FALSE)
      takes == IF q \in DOMAIN Registry THEN Registry[q].takes ELSE <<>>
      m == analyzeArguments(args, RecordSignatures(m1.a, args, Len(piped), takes), <<>>, TRUE)
      known == {p \in {q, <<x.t.n, e.n[1]>>} : p \in DOMAIN Registry /\ (p = q \/ x.t.k \in {"named", "reference"})}
      methods == MembersOf(m.a, x.t).methods
      returns == CASE known # {} -> Registry[IF q \in known THEN q ELSE <<x.t.n, e.n[1]>>].returns
                   [] e.n[1] \in DOMAIN methods -> methods[e.n[1]].r
                   [] OTHER -> <<>>
  IN IF ~Has(o) /\ piped = <<>>
     THEN TypedAs(recordReturnCount(Report(a, <<"shorthand", e.n[1]>>), e, 1), <<Unknown>>)
     ELSE IF known = {} /\ returns = <<>> THEN TypedAs(m.a, <<Unknown>>)
     ELSE TypedAs(recordReturnCount(m.a, e, Len(returns)), returns)

Placeholders(args) == {i \in DOMAIN args : IsPlaceholder(args[i]) \/ args[i].k = "discard"}

\* What is known of a pipe e and of the step r that is its last.
RecordedPipe(e, r, m) ==
  LET a2 == recordReturnCount(m.a, e, Len(m.ts)) IN
  TypedAs(IF r.k \in {"call", "methodcall", "field"} /\ m.ts # <<>> THEN recordType(a2, r, m.ts[1]) ELSE a2, m.ts)
analyzePipeExprMulti(e, a) ==
  LET l == analyzeExpression(e.c[1], a)
      r == e.c[2]
      a1 == Require(l.a, r.k \in {"call", "methodcall"} => Cardinality(Placeholders(Args(r))) <= 1, <<"placeholders", "">>)
  IN RecordedPipe(e, r,
       CASE r.k = "call"       -> analyzeCallExpr(r, a1, <<l.t>>)
         [] r.k = "methodcall" -> analyzeMethodCallExpr(r, a1, <<l.t>>)
         [] r.k = "field"      -> Single(analyzeFieldAccessExpr(r, a1, <<l.t>>))
         [] r.k = "pipe"       -> analyzeExpressionMulti(r, a1)
         [] OTHER              -> Single(analyzeExpression(r, a1)))

analyzeInlineOnErrExpr(e, a) ==
  LET m == analyzeExpressionMulti(e.c[1], a)
      d == analyzeExpression(e.c[2], m.a)
  IN IF Len(m.ts) # 2 THEN Typed(Report(d.a, <<"inline onerr", Len(m.ts)>>), Unknown)
     ELSE IF ~IsError(m.ts[2]) THEN Typed(Report(d.a, <<"inline onerr", 2>>), m.ts[1])
     ELSE Typed(recordReturnCount(Require(d.a, typesCompatible(d.a, m.ts[1], d.t), <<"default", "">>), e, 1), m.ts[1])

AllFit(a, t, ts) == \A i \in DOMAIN ts : typesCompatible(a, t, ts[i])
analyzeListLiteral(e, a) ==
  LET m == analyzeEach(e.c, a)
      t == IF m.ts = <<>> THEN Unknown ELSE m.ts[1]
  IN Typed(Require(m.a, AllFit(m.a, t, m.ts), <<"element", "">>), Compound("list", <<t>>))

\* Pairs are key, value, key, value, ...
analyzeMapLiteral(e, a) ==
  LET m == analyzeEach(e.c, a)
      t == Infos(a, e.t)
      ok == \A i \in DOMAIN m.ts : typesCompatible(m.a, t[IF i % 2 = 1 THEN 1 ELSE 2], m.ts[i])
  IN Typed(Require(m.a, ok, <<"pair", "">>), Compound("map", t))

analyzeIndexExpr(e, a) ==
  LET m == analyzeEach(e.c, a)
      l == m.ts[1]
      ok == CASE l.k = "list" -> m.ts[2].k \in {"int", "unknown"}
              [] l.k = "map" /\ l.e # <<>> -> typesCompatible(m.a, l.e[1], m.ts[2])
              [] OTHER -> TRUE
  IN Typed(Require(m.a, ok, <<"index", "">>),
           IF l.k \in {"list", "map"} /\ l.e # <<>> THEN l.e[Len(l.e)] ELSE Unknown)

analyzeSliceExpr(e, a) ==
  LET m == analyzeEach(e.c, a) IN
  Typed(Require(m.a, \A i \in 2..3 : m.ts[i].k \in {"int", "unknown"}, <<"slice", "">>), m.ts[1])

\* Structs: every field known and its value compatible.
analyzeStructLiteral(e, a) ==
  LET m == analyzeEach(e.c, a)
      t == typeAnnotationToTypeInfo(a, e.t[1])
      fields == MembersOf(a, t).fields
      known == {i \in DOMAIN e.n : e.n[i] \in DOMAIN fields}
      ok == \/ fields = NoNames
            \/ \A i \in DOMAIN e.n : i \in known /\ typesCompatible(m.a, fields[e.n[i]], m.ts[i])
  IN Typed(Require([m.a EXCEPT !.types = [v \in {e.c[i] : i \in known} |->
                                           fields[e.n[Min({i \in known : e.c[i] = v})]]] @@ @],
                   ok, <<"field", t.n>>), t)

\* Both literals define their parameters in a scope of their own; only the loops
\* and switches around them stay in force.
analyzeFunctionLiteral(e, a) ==
  LET sig == e.t[1]
      a1 == ValidateEach(EnterScope(a), sig.e)
      a2 == DefineEach(a1, e.n, [i \in DOMAIN e.n |-> Variable(typeAnnotationToTypeInfo(a1, sig.e[i]))])
      a3 == analyzeBlock(e.c[1], [ValidateEach(a2, sig.r) EXCEPT !.fn = <<sig.r>>])
  IN Typed(ExitScope([a3 EXCEPT !.fn = a.fn]), Unknown)

analyzeArrowLambda(e, a) ==
  LET sig == IF e \in DOMAIN a.types THEN a.types[e] ELSE Unknown
      isFunction == sig.k = "function"
      param(i) == IF isFunction /\ i \in DOMAIN sig.e THEN sig.e[i] ELSE Unknown
      a1 == DefineEach(EnterScope(a), e.n, [i \in DOMAIN e.n |-> Variable(param(i))])
      a2 == IF isFunction THEN [a1 EXCEPT !.fn = <<sig.r>>] ELSE a1
      isBlock == e.c[1].k = "block"
      x == IF isBlock THEN Typed(analyzeBlock(e.c[1], a2), Unknown) ELSE analyzeExpression(e.c[1], a2)
  IN Typed(ExitScope([x.a EXCEPT !.fn = a.fn]),
           IF x.t.k # "unknown" THEN Function(<<>>, <<x.t>>) ELSE sig)

\* The type of a piped switch: that of the values its bodies return, any if they differ.
Conflict == Named("any")
mergePipedSwitchReturnType(a, t, u) ==
  CASE t = Conflict -> t
    [] t # Conflict /\ t.k = "unknown" -> u
    [] t # Conflict /\ t.k # "unknown" ->
         IF u.k = "unknown" \/ (typesCompatible(a, t, u) /\ typesCompatible(a, u, t)) THEN t ELSE Conflict
RECURSIVE collectReturnTypes(_, _, _)
collectReturnTypes(a, ss, t) ==
  IF ss = <<>> THEN t
  ELSE LET s == Head(ss)
           u == CASE s.k = "return" /\ s.c # <<>> ->
                       mergePipedSwitchReturnType(a, t, IF s.c[1] \in DOMAIN a.types THEN a.types[s.c[1]] ELSE Unknown)
                  [] s.k = "if" -> collectReturnTypes(a, IF s.c[4].k = "if" THEN <<s.c[4]>> ELSE s.c[4].c,
                                                      collectReturnTypes(a, s.c[3].c, t))
                  [] OTHER -> t
       IN collectReturnTypes(a, Tail(ss), u)

\* Only a typed switch opens a scope for each body.
RECURSIVE analyzePipedBodies(_, _, _)
analyzePipedBodies(bodies, a, bind) ==
  IF bodies = <<>> THEN a
  ELSE analyzePipedBodies(Tail(bodies),
         IF bind = "" THEN analyzeBlock(Head(bodies), a)
         ELSE ExitScope(analyzeBlock(Head(bodies), DefineIfNew(EnterScope(a), bind, Variable(Unknown)))), bind)
Bodies(s) == [i \in DOMAIN Cases(s) |-> Body(Cases(s)[i])] \o (IF Has(Otherwise(s)) THEN <<Otherwise(s)>> ELSE <<>>)
analyzePipedSwitch(e, a) ==
  LET s == e.c[2]
      x == analyzeExpression(e.c[1], a)
      a1 == analyzePipedBodies(Bodies(s), [x.a EXCEPT !.piped = TRUE], IF s.k = "typeswitch" THEN s.n[1] ELSE "")
  IN Typed([a1 EXCEPT !.piped = a.piped],
           collectReturnTypes(a1, FlattenSeq([i \in DOMAIN Bodies(s) |-> Bodies(s)[i].c]), Unknown))

Recorded(e, x) == Typed(recordType(x.a, e, x.t), x.t)
AnalyzedExpression(e, a) ==
  LET all == analyzeEach(e.c, a)
  IN IF ~Has(e) THEN Typed(a, Unknown) ELSE Recorded(e,
           CASE e.k = "id"        -> analyzeIdentifier(e, a)
             [] e.k \in {"literal", "make"} -> Typed(a, typeAnnotationToTypeInfo(a, e.t[1]))
             [] e.k = "text"      -> Typed(analyzeStringInterpolation(e.c, a), Prim("string"))
             [] e.k = "binary"    -> analyzeBinaryExpr(e, a)
             [] e.k = "unary"     -> analyzeUnaryExpr(e, a)
             [] e.k = "is"        -> analyzeIsExpr(e, a)
             [] e.k = "pipe"      -> First(analyzePipeExprMulti(e, a))
             [] e.k = "call"      -> First(analyzeCallExpr(e, a, <<>>))
             [] e.k = "methodcall" -> First(analyzeMethodCallExpr(e, a, <<>>))
             [] e.k = "field"     -> analyzeFieldAccessExpr(e, a, <<>>)
             [] e.k = "piped"     -> analyzePipedSwitch(e, a)
             [] e.k = "index"     -> analyzeIndexExpr(e, a)
             [] e.k = "slice"     -> analyzeSliceExpr(e, a)
             [] e.k = "listof"    -> analyzeListLiteral(e, a)
             [] e.k = "mapof"     -> analyzeMapLiteral(e, a)
             [] e.k = "struct"    -> analyzeStructLiteral(e, a)
             [] e.k = "empty"     -> Typed(a, Prim("nil"))
             [] e.k = "receive"   -> Typed(all.a, IF all.ts[1].k = "channel" /\ all.ts[1].e # <<>>
                                                  THEN all.ts[1].e[1] ELSE Unknown)
             [] e.k = "cast"      -> Typed(all.a, typeAnnotationToTypeInfo(a, e.t[1]))
             [] e.k = "literal func" -> analyzeFunctionLiteral(e, a)
             [] e.k = "lambda"    -> analyzeArrowLambda(e, a)
             [] e.k = "return expr" -> Typed(Require(all.a, a.onerr, <<"return expression", "">>), Unknown)
             [] e.k = "onerr expr" -> analyzeInlineOnErrExpr(e, a)
             [] e.k = "error"     -> Typed(all.a, Error)
             [] e.k = "block expr" -> Typed(analyzeBlock(e.c[1], a), Unknown)
             [] e.k = "if expr"   -> Typed(all.a, all.ts[2])
             [] OTHER             -> Typed(a, Unknown)          \* Opaque: the children are not looked at
     )

AnalyzedExpressionMulti(e, a) ==
  CASE e.k = "call"       -> analyzeCallExpr(e, a, <<>>)
    [] e.k = "methodcall" -> analyzeMethodCallExpr(e, a, <<>>)
    [] e.k = "pipe"       -> analyzePipeExprMulti(e, a)
    [] e.k = "index"      -> LET x == analyzeIndexExpr(e, analyzeExpression(e.c[1], a).a)
                                 l == analyzeExpression(e.c[1], a).t
                             IN TypedAs(x.a, IF l.k \in {"map", "unknown"} THEN <<x.t, Bool>> ELSE <<x.t>>)
    [] OTHER              -> Single(analyzeExpression(e, a))

-----------------------------------------------------------------------------
(* Statements.                                                             *)

\* The types of the values on the right of n names; <<Unknown>> fits any n.
ValueTypes(values, n, a) ==
  LET m == analyzeEach(values, a) IN
  CASE Len(values) = 1 /\ n = 2 /\ values[1].k = "cast" -> TypedAs(m.a, <<m.ts[1], Bool>>)
    [] Len(values) = 1 /\ n > 1 /\ ~(n = 2 /\ values[1].k = "cast") -> analyzeExpressionMulti(values[1], m.a)
    [] OTHER -> m
Spread(ts, n) == IF n > 1 /\ ts = <<Unknown>> THEN [i \in 1..n |-> Unknown] ELSE ts

analyzeVarDeclStmt(s, a) ==
  LET n == Len(s.n)
      m == ValueTypes(Values(s), n, a)
      ts == Spread(m.ts, IF Len(Values(s)) = 1 THEN n ELSE 1)
      a1 == Require(m.a, Len(ts) = n, <<"mismatch", Len(ts)>>)
      typed == s.t # <<>>
      declared(i) == CASE typed           -> typeAnnotationToTypeInfo(a1, s.t[1])
                       [] ~typed /\ i \in DOMAIN ts -> ts[i]
                       [] OTHER           -> Unknown
      a2 == IF typed THEN Require(validateTypeAnnotation(a1, s.t[1]),
                                  \A i \in DOMAIN ts : typesCompatible(a1, declared(i), ts[i]), <<"assign", "">>)
            ELSE a1
  IN DefineEach(a2, s.n, [i \in 1..n |-> Variable(declared(i))])

analyzeAssignStmt(s, a) ==
  LET constants == {i \in DOMAIN Targets(s) : /\ Targets(s)[i].k = "id"
                                              /\ KnownAs(a, Targets(s)[i].n[1], {"const"})}
      t == analyzeEach(Targets(s), Require(a, constants = {}, <<"constant", "">>))
      n == Len(Targets(s))
      m == ValueTypes(Values(s), n, t.a)
      ts == Spread(m.ts, IF Len(Values(s)) = 1 THEN n ELSE 1)
  IN IF Len(ts) # n THEN Report(m.a, <<"mismatch", Len(ts)>>)
     ELSE Require(m.a, \A i \in 1..n : typesCompatible(m.a, t.ts[i], ts[i]), <<"assign", "">>)

analyzeReturnStmt(s, a) ==
  LET returns == Head(a.fn)
      n == Len(returns)
      m == IF Len(s.c) = 1 /\ n > 1 THEN analyzeExpressionMulti(s.c[1], a) ELSE analyzeEach(s.c, a)
      ts == Spread(m.ts, IF Len(s.c) = 1 THEN n ELSE 1)
  IN CASE a.fn = <<>>           -> Report(a, <<"return", "">>)
       [] a.fn # <<>> /\ a.piped -> Visit(s.c, a)
       [] OTHER -> IF Len(ts) # n THEN Report(IF n > 1 THEN m.a ELSE a, <<"returns", Len(ts)>>)
                   ELSE Require(m.a, \A i \in 1..n : typesCompatible(m.a, typeAnnotationToTypeInfo(a, returns[i]), ts[i]),
                                <<"return types", "">>)

ReturnsError(a) == a.fn # <<>> /\ Head(a.fn) # <<>> /\ IsError(Last(Head(a.fn)))

analyzeOnErrClause(c, a) ==
  LET h == analyzeExpression(c.c[1], [a EXCEPT !.onerr = TRUE, !.alias = IF c.n[1] = "" THEN @ ELSE c.n[1]]).a
  IN CASE ~Has(c)                -> a
       [] c.k = "onerr return"   -> Require(a, ReturnsError(a), <<"onerr", "return">>)
       [] c.k = "onerr continue" -> Require(a, a.loops > 0, <<"onerr", "continue">>)
       [] c.k = "onerr break"    -> Require(a, a.loops + a.switches > 0, <<"onerr", "break">>)
       [] c.k = "onerr"          -> [h EXCEPT !.onerr = a.onerr, !.alias = a.alias]

InScope(b, a) == ExitScope(analyzeBlock(b, EnterScope(a)))

\* The binding of 'is' belongs to the branch taken.
IsBinding(e) == IF e.k = "is" THEN e.n[2] ELSE ""
analyzeIfStmt(s, a) ==
  LET cond == s.c[2]
      a1 == IF Has(s.c[1]) THEN analyzeStatement(s.c[1], EnterScope(a)) ELSE EnterScope(a)
      x == analyzeExpression(cond, [a1 EXCEPT !.allowIs = cond.k = "is" \/ @])
      a2 == EnterScope(Require([x.a EXCEPT !.allowIs = a1.allowIs], Truth(x.t), <<"condition", "">>))
      a3 == ExitScope(analyzeBlock(s.c[3], DefineIfNew(a2, IsBinding(cond), Variable(Unknown))))
      a4 == CASE ~Has(s.c[4])    -> a3
              [] s.c[4].k = "if" -> ExitScope(analyzeStatement(s.c[4], EnterScope(a3)))
              [] OTHER           -> InScope(s.c[4], a3)
  IN ExitScope(a4)

RECURSIVE analyzeCases(_, _, _)
analyzeCases(cs, a, what) ==
  IF cs = <<>> THEN a
  ELSE LET c == Head(cs)
           m == analyzeEach(Tail(c.c), a)
           ok == what.bool => \A i \in DOMAIN m.ts : Truth(m.ts[i])
           a1 == IF what.k = "comm" THEN Visit(Tail(c.c), EnterScope(a))
                 ELSE EnterScope(Require(m.a, ok, <<"case", "">>))
           names == IF what.k = "comm" THEN c.n ELSE <<what.bind>>
           a2 == DefineEachIfNew(a1, names, [i \in DOMAIN names |-> Variable(Unknown)])
       IN analyzeCases(Tail(cs), ExitScope(analyzeBlock(Body(c), a2)), what)

\* switch, typed switch and select: break is legal in all of them.
analyzeSwitch(s, a) ==
  LET x == analyzeExpression(s.c[1], a)
      bind == IF s.k = "typeswitch" THEN s.n[1] ELSE ""
      a1 == analyzeCases(Cases(s), [x.a EXCEPT !.switches = @ + 1],
                         [k |-> IF s.k = "select" THEN "comm" ELSE "case", bind |-> bind,
                          bool |-> s.k = "switch" /\ ~Has(s.c[1])])
      a2 == CASE ~Has(Otherwise(s)) -> a1
              [] s.k = "select"     -> analyzeBlock(Otherwise(s), a1)
              [] OTHER -> ExitScope(analyzeBlock(Otherwise(s), DefineIfNew(EnterScope(a1), bind, Variable(Unknown))))
  IN [a2 EXCEPT !.switches = a.switches]

\* The variables of a loop share the scope of its body.
LoopVariables(s, t) ==
  CASE s.k = "range"   -> IF t.k = "map" /\ t.e # <<>> THEN t.e
                          ELSE <<Prim("int"), CASE t.k = "list" /\ t.e # <<>> -> t.e[1]
                                                [] t.k = "string" -> Prim("int")
                                                [] OTHER -> Unknown>>
    [] s.k = "numeric" -> <<Prim("int")>>
    [] OTHER           -> <<>>
analyzeLoop(s, a) ==
  LET m == analyzeEach(Front(s.c), [a EXCEPT !.loops = @ + 1])
      ok == CASE s.k = "numeric" -> \A i \in DOMAIN m.ts : m.ts[i].k \in {"int", "unknown"}
              [] s.k = "while"   -> Truth(m.ts[1])
              [] OTHER           -> TRUE
      ts == LoopVariables(s, m.ts[1])
      a1 == EnterScope(Require(m.a, ok, <<"loop", "">>))
      a2 == DefineEachIfNew(a1, s.n, [i \in DOMAIN s.n |-> Variable(ts[i])])
  IN [ExitScope(analyzeBlock(Last(s.c), a2)) EXCEPT !.loops = a.loops]

\* 'x++' has no case of its own.
AnalyzedStatement(s, a) ==
  CASE s.k = "var"      -> analyzeOnErrClause(Onerr(s), analyzeVarDeclStmt(s, a))
    [] s.k = "assign"   -> analyzeOnErrClause(Onerr(s), analyzeAssignStmt(s, a))
    [] s.k = "do"       -> analyzeOnErrClause(Onerr(s), Visit(Values(s), a))
    [] s.k = "return"   -> analyzeReturnStmt(s, a)
    [] s.k = "if"       -> analyzeIfStmt(s, a)
    [] s.k \in {"switch", "typeswitch", "select"} -> analyzeSwitch(s, a)
    [] s.k \in {"range", "numeric", "while"} -> analyzeLoop(s, a)
    [] s.k \in {"defer", "go"} ->
         LET a1 == analyzeExpression(s.c[1], a).a IN IF Has(s.c[2]) THEN analyzeBlock(s.c[2], a1) ELSE a1
    [] s.k = "send"     -> Visit(s.c, a)
    [] s.k = "continue" -> Require(a, a.loops > 0, <<"continue", "">>)
    [] s.k = "break"    -> Require(a, a.loops + a.switches > 0, <<"break", "">>)
    [] s.k = "incdec"   -> a

\* A walk is always inside of the global scope.
analyze(how, n, a) ==
  CASE how = "value" /\ a.scopes # <<>> -> AnalyzedExpression(n, a)
    [] how = "statement" /\ a.scopes # <<>> -> AnalyzedStatement(n, a)
    [] how = "values"    -> AnalyzedExpressionMulti(n, a)
    [] how = "each"      -> IF n = <<>> THEN TypedAs(a, <<>>) ELSE AnalyzedEach(analyzeEach(Front(n), a), Last(n))
    [] how = "block"     -> IF n = <<>> THEN a ELSE analyzeStatement(Last(n), analyze(how, Front(n), a))

-----------------------------------------------------------------------------
(* Declarations: all are collected, then each is analyzed.                 *)

\* import path's last element and the name it is used under.
CollectImport(imp, a) ==
  [Define(a, imp.name, Variable(Unknown)) EXCEPT !.packages = (imp.name :> imp.path) @@ @]

collectTypeDecl(d, a) ==
  LET alias == Len(d.n) = 1 /\ d.t # <<>>
      type == TypeOf(IF alias THEN d.t[1].k ELSE "struct", DeclName(d), <<>>, <<>>)
      fields == [f \in ToSet(Tail(d.n)) |-> typeAnnotationToTypeInfo(a, d.t[Min({i \in DOMAIN d.t : d.n[i + 1] = f})])]
  IN Define(a, DeclName(d), [Symbol("type", type) EXCEPT !.fields = fields])

FunctionInfo(d, a) == typeAnnotationToTypeInfo(a, d.t[1])

\* A method is attached to its type if that is declared above it.
registerMethod(d, a) ==
  LET on == Deref(d.t[2]).n IN
  IF Known(a, on)
  THEN [a EXCEPT !.scopes[Max(ScopesWith(a, on))][on].methods = (DeclName(d) :> FunctionInfo(d, a)) @@ @]
  ELSE a

collectEnumDecl(d, a) ==
  Define(a, DeclName(d), [Symbol("type", TypeOf("enum", DeclName(d), <<>>, <<>>)) EXCEPT !.cases = ToSet(Tail(d.n))])
collectVariantEnumDecl(d, a) ==
  LET a1 == DefineEach(a, Tail(d.n), [i \in 1..(Len(d.n) - 1) |->
                                        Symbol("type", TypeOf("struct", d.n[i + 1], <<>>, <<>>))])
  IN Define(a1, DeclName(d), [Symbol("type", TypeOf("variant", DeclName(d), <<>>, <<>>)) EXCEPT !.cases = ToSet(Tail(d.n))])

CollectDeclaration(d, a) ==
  CASE d.k = "type"      -> collectTypeDecl(d, a)
    [] d.k = "interface" -> Define(a, DeclName(d), Symbol("interface", TypeOf("interface", DeclName(d), <<>>, <<>>)))
    [] d.k = "func"      -> Define(a, DeclName(d), Symbol("function", FunctionInfo(d, a)))
    [] d.k = "method"    -> registerMethod(d, a)
    [] d.k = "const"     -> Define(a, DeclName(d), Symbol("const", Unknown))
    [] d.k = "enum"      -> collectEnumDecl(d, a)
    [] d.k = "variant"   -> collectVariantEnumDecl(d, a)
    [] d.k = "global"    -> a
collectDeclarations(p, a) ==
  FoldLeft(LAMBDA x, d : CollectDeclaration(d, x),
           FoldLeft(LAMBDA x, i : CollectImport(i, x), a, p.imports), p.decls)

analyzeFunctionDecl(d, a) ==
  LET sig == d.t[1]
      a1 == ValidateEach([EnterScope(a) EXCEPT !.fn = <<sig.r>>], Tail(d.t))
      a2 == IF d.k = "method" THEN Define(a1, d.n[2], Variable(typeAnnotationToTypeInfo(a, d.t[2]))) ELSE a1
      a3 == DefineEach(ValidateEach(a2, sig.e), ParamsOf(d), [i \in DOMAIN sig.e |-> Variable(typeAnnotationToTypeInfo(a, sig.e[i]))])
  IN ExitScope([analyzeBlock(d.c[1], ValidateEach(a3, sig.r)) EXCEPT !.fn = <<>>])

\* The value is analyzed before the name is defined, and once more for its type.
analyzeGlobalVarDecl(d, a) ==
  LET m == analyzeEach(<<d.c[1], d.c[1]>>, a) IN Define(m.a, DeclName(d), Variable(m.ts[2]))

analyzeDeclaration(d, a) ==
  CASE d.k = "type"   -> ValidateEach(a, d.t)
    [] d.k \in {"func", "method"} -> analyzeFunctionDecl(d, a)
    [] d.k = "global" -> analyzeGlobalVarDecl(d, a)
    [] d.k = "const"  -> Visit(d.c, a)
    [] OTHER          -> a

=============================================================================
