------------------------------ MODULE Generator ------------------------------
(***************************************************************************)
(* The code generator (internal/codegen): the Go code of a program, as the *)
(* scopes it opens, the names it declares and uses and the jumps it makes. *)
(* It reads what the analyzer recorded about expressions, and renders some *)
(* parts more than once, or not at all.  The type parameters of the        *)
(* standard library's own files, default arguments and printf-style calls  *)
(* are left out.                                                           *)
(***************************************************************************)
EXTENDS Analyzer, GoCode

Code(g, s) == [g |-> g, s |-> s]
Plain(g) == Code(g, <<>>)
Then(c, s) == [c EXCEPT !.s = @ \o s]
Joined(c, d) == Code(d.g, c.s \o d.s)
Behind(s, c) == [c EXCEPT !.s = s \o @]

\* The generator of a program p, given what the analyzer a has recorded about it.
NewGenerator(p, a, reserved, aliases) ==
  LET functions == {d \in ToSet(p.decls) : d.k = "func"} IN
  [n |-> 0, reserved |-> reserved, temps |-> {}, errVar |-> "", alias |-> "", returns |-> <<>>,
   types |-> a.types, counts |-> a.counts, aliases |-> aliases,
   functions |-> [f \in {DeclName(d) : d \in functions} |->
                    Len(ReturnsOf(CHOOSE d \in functions : DeclName(d) = f))],
   enums |-> {DeclName(d) : d \in {x \in ToSet(p.decls) : x.k \in {"enum", "variant"}}}]

\* The generator of a function literal: it knows neither the handler nor the returns around it.
childGenerator(g) == [g EXCEPT !.n = 0, !.errVar = "", !.alias = "", !.returns = <<>>]
Child(g, c) == Code([g EXCEPT !.temps = c.g.temps], c.s)

\* Mutant: names of the program are not looked at.
nextId(g, prefix) ==
  [g |-> [g EXCEPT !.n = @ + 1, !.temps = @ \union {prefix \o "_" \o ToString(g.n + 1)}],
   name |-> prefix \o "_" \o ToString(g.n + 1)]

\* The next name of this prefix that no declaration of the program uses.
uniqueId(g, prefix) ==
  LET name(k) == prefix \o "_" \o ToString(k)
      k == Min({i \in (g.n + 1)..(g.n + Cardinality(g.reserved) + 1) : name(i) \notin g.reserved})
  IN [g |-> [g EXCEPT !.n = k, !.temps = @ \union {name(k)}], name |-> name(k)]

Scope(kind, n, s) == <<OpenScope(kind, n)>> \o s \o <<CloseScope>>
Braces(s) == Scope("block", 0, s)

-----------------------------------------------------------------------------
(* What is known of an expression.                                         *)

TypeIn(g, e) == IF e \in DOMAIN g.types THEN g.types[e] ELSE Unknown
CountUnknown == -1

RECURSIVE inferReturnCount(_, _)
inferReturnCount(e, g) ==
  CASE e \in DOMAIN g.counts -> g.counts[e]
    [] e \notin DOMAIN g.counts /\ e.k = "pipe" -> inferReturnCount(e.c[2], g)
    [] e \notin DOMAIN g.counts /\ e.k = "call" /\ e.c[1].k = "id" ->
         IF e.c[1].n[1] \in DOMAIN g.functions THEN g.functions[e.c[1].n[1]] ELSE CountUnknown
    [] e \notin DOMAIN g.counts /\ e.k \in {"field", "onerr expr"} -> 1
    [] OTHER -> CountUnknown

isErrorOnlyReturn(e, g) == inferReturnCount(e, g) = 1 /\ IsError(TypeIn(g, e))

\* Whether a type can be given for the value of a lambda.
RECURSIVE inferExprReturnType(_, _)
inferExprReturnType(e, g) ==
  \/ TypeIn(g, e).k # "unknown"
  \/ e.k \in {"is", "literal", "text"}
  \/ e.k = "binary" /\ e.n[1] \in {"==", "and", "in"}
  \/ e.k = "binary" /\ e.n[1] \in {"+", "*"} /\ \E i \in 1..2 : inferExprReturnType(e.c[i], g)
  \/ e.k = "unary" /\ e.n[1] = "not"
  \/ e.k = "pipe" /\ inferExprReturnType(e.c[2], g)

\* The results of a block lambda: those of its signature, else of its first return.
FirstReturn(b) == SelectSeq(b.c, LAMBDA s : s.k = "return" /\ Len(s.c) = 1)
LambdaResults(e, g) ==
  LET t == TypeIn(g, e)
      r == FirstReturn(e.c[1])
  IN CASE t.k = "function" /\ t.r # <<>> -> Len(t.r)
       [] (t.k = "function" => t.r = <<>>) /\ r # <<>> -> IF inferExprReturnType(r[1].c[1], g) THEN 1 ELSE 0
       [] OTHER -> 0

PipedSwitchResults(e, g) ==
  IF \/ TypeIn(g, e).k # "unknown"
     \/ \E b \in ToSet(Bodies(e.c[2])) : \E s \in ToSet(b.c) : s.k = "return" /\ s.c # <<>>
  THEN 1 ELSE 0

\* The packages and types a type mentions.
RECURSIVE generateTypeAnnotation(_, _)
TypesUsed(ts, g) == FoldLeft(LAMBDA s, t : s \o generateTypeAnnotation(t, g), <<>>, ts)
PackageName(p, g) == IF p \in DOMAIN g.aliases THEN g.aliases[p] ELSE p
generateTypeAnnotation(t, g) ==
  CASE t.k # "named" -> TypesUsed(t.e \o t.r, g)
    [] t.n \in BuiltIn -> <<>>
    [] t.n \in DOMAIN Qualified -> <<Use(PackageName(Qualified[t.n].package, g))>>
    [] OTHER -> <<Use(t.n)>>

-----------------------------------------------------------------------------
(* Expressions.                                                            *)

\* Expressions and statements contain each other: one recursion has both.
RECURSIVE generate(_, _, _), generateSwitch(_, _, _), generatePipeExpr(_, _)
exprToString(e, g) == generate("value", e, g)
generateStatement(s, g) == generate("statement", s, g)
generateBlock(b, g) == generate("block", b.c, g)

exprStrings(es, g) == generate("values", es, g)
ExprJoined(c, e) == Joined(c, exprToString(e, c.g))
StatementJoined(c, s) == Joined(c, generateStatement(s, c.g))

\* In a handler, "error" and the alias are the variable that holds the error.
\* (CaughtAsError is a mutant that forgets the alias.)
CaughtAsError(n, g) == g.errVar # "" /\ n = "error"
Caught(n, g) == g.errVar # "" /\ (n = "error" \/ (g.alias # "" /\ n = g.alias))
generateIdentifier(e, g) ==
  LET n == e.n[1] IN
  CASE Caught(n, g) -> <<Use(g.errVar)>>
    [] n = "empty" /\ TypeIn(g, e).k = "nil" -> <<>>
    [] OTHER -> <<Use(n)>>

\* A name on the left of a dot is taken for a package whose name had to change.
generateObject(o, g) ==
  IF o.k = "id" /\ ~Caught(o.n[1], g) /\ o.n[1] \in DOMAIN g.aliases
  THEN Code(g, <<Use(g.aliases[o.n[1]])>>) ELSE exprToString(o, g)

IsPrint(f) == f.k = "id" /\ f.n[1] = "print"
generateCallee(f, g) == IF IsPrint(f) THEN Code(g, <<Use("fmt")>>) ELSE exprToString(f, g)

generateFieldAccessExpr(e, g) ==
  LET o == e.c[1] IN
  IF o.k = "id" /\ ~Caught(o.n[1], g) /\ o.n[1] \in g.enums
  THEN Code(g, <<Use(o.n[1] \o e.n[1])>>) ELSE generateObject(o, g)

\* A negative index counts from the end: what is indexed is written once more.
IsNegative(i) == i.k = "unary" /\ i.n[1] = "-"
generateIndex(e, g) ==
  LET l == exprToString(e.c[1], g)
      bounds == Tail(e.c)
      fromEnd == SelectSeq(bounds, IsNegative)
      all == exprStrings(bounds, l.g)
  IN Code(all.g, FoldLeft(LAMBDA s, i : s \o l.s, l.s, fromEnd) \o all.s)

generateErrorExpr(e, g) ==
  LET m == e.c[1] IN
  IF m.k = "text" /\ m.c # <<>> THEN Then(exprStrings(m.c, g), <<Use("fmt")>>)
  ELSE Then(exprToString(m, g), <<Use("errors")>>)

generateInlineOnErrExpr(e, g) ==
  LET v == uniqueId(g, "onerrVal")
      r == uniqueId(v.g, "err")
      x == exprToString(e.c[1], r.g)
      d == exprToString(e.c[2], x.g)
  IN Code(d.g, Scope("func", 1, x.s \o <<Declare(<<v.name, r.name>>), Use(r.name)>>
                                \o Braces(d.s \o <<Returning(1)>>) \o <<Use(v.name), Returning(1)>>))

generateFunctionLiteral(e, g) ==
  LET sig == e.t[1] IN
  Child(g, Code(generateBlock(e.c[1], childGenerator(g)).g,
                TypesUsed(sig.e \o sig.r, g)
                \o Scope("func", Len(sig.r), <<Var(e.n)>> \o generateBlock(e.c[1], childGenerator(g)).s)))

generateArrowLambda(e, g) ==
  LET body == e.c[1]
      x == exprToString(body, g)
      b == generateBlock(body, childGenerator(g))
  IN CASE body.k = "block" -> Child(g, [b EXCEPT !.s = Scope("func", LambdaResults(e, g), <<Var(e.n)>> \o @)])
       [] body.k # "block" /\ inferReturnCount(body, g) = 0 -> [x EXCEPT !.s = Scope("func", 0, <<Var(e.n)>> \o @)]
       [] OTHER -> [x EXCEPT !.s = Scope("func", 1, <<Var(e.n)>> \o @ \o <<Returning(1)>>)]

generatePipedSwitchExpr(e, g) ==
  LET l == exprToString(e.c[1], g)
      b == generateSwitch(e.c[2], l.s, [childGenerator(l.g) EXCEPT !.returns = g.returns])
  IN Child(l.g, [b EXCEPT !.s = Scope("func", PipedSwitchResults(e, g), @)])

\* VALUE is Case, as an expression: the binding plays no part.
generateIsExpr(e, g) ==
  LET v == exprToString(e.c[1], g) IN
  Code(v.g, Scope("func", 1, v.s \o <<Use(e.n[1]), Declare(<<"_", "_isOk">>), Use("_isOk"), Returning(1)>>))

generateIfExpression(e, g) ==
  LET all == exprStrings(e.c, g) IN Code(all.g, Scope("func", 1, all.s \o <<Returning(1)>>))

GeneratedExpression(e, g) ==
  CASE ~Has(e) -> Plain(g)
    [] e.k = "id"     -> Code(g, generateIdentifier(e, g))
    [] e.k = "text"   -> Then(exprStrings(e.c, g), IF e.c = <<>> THEN <<>> ELSE <<Use("fmt")>>)
    [] e.k = "pipe"   -> generatePipeExpr(e, g)
    [] e.k = "call"   -> LET f == generateCallee(e.c[1], g)
                             args == exprStrings(Args(e), f.g) IN Code(args.g, f.s \o args.s)
    [] e.k = "methodcall" -> LET o == generateObject(e.c[1], g)
                                 args == exprStrings(Args(e), o.g) IN Code(args.g, o.s \o args.s)
    [] e.k = "field"  -> generateFieldAccessExpr(e, g)
    [] e.k \in {"index", "slice"} -> generateIndex(e, g)
    [] e.k = "error"  -> generateErrorExpr(e, g)
    [] e.k = "onerr expr" -> generateInlineOnErrExpr(e, g)
    [] e.k = "literal func" -> generateFunctionLiteral(e, g)
    [] e.k = "lambda" -> generateArrowLambda(e, g)
    [] e.k = "piped"  -> generatePipedSwitchExpr(e, g)
    [] e.k = "is"     -> generateIsExpr(e, g)
    [] e.k = "if expr" -> generateIfExpression(e, g)
    [] e.k = "discard" -> Code(g, <<Use("_")>>)
    [] OTHER -> LET all == exprStrings(e.c, g) IN Code(all.g, TypesUsed(e.t, g) \o all.s)

-----------------------------------------------------------------------------
(* Pipes.                                                                  *)

\* The value piped in takes the place of the first placeholder, else comes first.
buildPipeArgs(left, args, g) ==
  LET places == {i \in DOMAIN args : IsPlaceholder(args[i]) \/ args[i].k = "discard"}
      i == Min(places)
      before == exprStrings(SubSeq(args, 1, i - 1), g)
      after == exprStrings(SubSeq(args, i + 1, Len(args)), before.g)
      all == exprStrings(args, g)
  IN IF places = {} THEN Code(all.g, left \o all.s) ELSE Code(after.g, before.s \o left \o after.s)

\* Of several results the first goes down the pipe.
FirstResult(e, x, g) ==
  IF inferReturnCount(e, g) < 2 THEN x.s
  ELSE Scope("func", 1, x.s \o <<Declare(<<"val">>), Use("val"), Returning(1)>>)

generatePipeExpr(e, g) ==
  LET l == exprToString(e.c[1], g)
      left == FirstResult(e.c[1], l, g)
      r == e.c[2]
      f == generateCallee(r.c[1], l.g)
      o == generateObject(r.c[1], l.g)
      called(x) == LET args == buildPipeArgs(left, Args(r), x.g) IN Code(args.g, x.s \o args.s)
  IN CASE r.k = "call" -> called(f)
       [] r.k = "methodcall" /\ Has(r.c[1]) -> called(o)
       [] r.k = "methodcall" /\ ~Has(r.c[1]) ->
            LET args == exprStrings(Args(r), l.g) IN Code(args.g, left \o args.s)
       [] r.k = "field" -> IF Has(r.c[1]) THEN Code(o.g, o.s \o left) ELSE Code(l.g, left)
       [] r.k = "id"    -> Code(l.g, <<Use(IF IsPrint(r) THEN "fmt" ELSE r.n[1])>> \o left)
       [] OTHER         -> Code(l.g, left)                 \* with a warning

-----------------------------------------------------------------------------
(* Statements.                                                             *)

RECURSIVE generateIfStmt(_, _), lowerOnErrHandler(_, _, _, _)

\* The names on the left of "=", as uses; the blank is none.
Assigned(names) == [i \in DOMAIN SelectSeq(names, LAMBDA n : n # "_") |-> Use(SelectSeq(names, LAMBDA n : n # "_")[i])]
RECURSIVE TargetName(_)
TargetName(t) == IF t.k = "id" THEN t.n[1] ELSE TargetName(t.c[1])
TargetNames(s) == [i \in DOMAIN Targets(s) |-> TargetName(Targets(s)[i])]
generateTargets(s, g) == exprStrings(SelectSeq(Targets(s), LAMBDA t : ~IsPlaceholder(t)), g)

Returned(values, g) ==
  LET n == inferReturnCount(values[1], g) IN
  IF Len(values) = 1 /\ values[1].k \in {"call", "methodcall", "pipe"}
  THEN Returning(IF n = CountUnknown THEN Unknowable ELSE n)
  ELSE Returning(Len(values))

\* coerceReturnValue: arithmetic is converted to a library's type.
Coerced(s, g) ==
  FoldLeft(LAMBDA u, i : IF s.c[i].k = "binary" /\ g.returns[i].n \in DOMAIN Qualified
                         THEN u \o generateTypeAnnotation(g.returns[i], g) ELSE u,
           <<>>, [i \in 1..Min({Len(s.c), Len(g.returns)}) |-> i])
generateReturnStmt(s, g) ==
  LET v == exprStrings(s.c, g) IN Then(v, Coerced(s, g) \o <<Returned(s.c, g)>>)

\* The binding of 'is' is declared by the header of an if without an initializer.
IfHeader(s, g) ==
  LET init == generateStatement(s.c[1], childGenerator(g))
      cond == s.c[2]
      value == exprToString(cond.c[1], g)
  IN CASE Has(s.c[1]) ->
            LET x == exprToString(cond, Child(g, init).g) IN
            [x EXCEPT !.s = init.s \o (IF Has(Onerr(s.c[1])) THEN <<Malformed>> ELSE <<>>) \o @]
       [] ~Has(s.c[1]) /\ cond.k = "is" /\ IsBinding(cond) # "" ->
            Then(value, <<Use(cond.n[1]), Declare(<<IsBinding(cond), "_isOk">>), Use("_isOk")>>)
       [] OTHER -> exprToString(cond, g)
generateIfStmt(s, g) ==
  LET h == IfHeader(s, g)
      then == generateBlock(s.c[3], h.g)
      else == CASE ~Has(s.c[4])    -> Plain(then.g)
                [] s.c[4].k = "if" -> generateIfStmt(s.c[4], then.g)
                [] OTHER           -> LET b == generateBlock(s.c[4], then.g) IN Code(b.g, Braces(b.s))
  IN Code(else.g, Braces(h.s \o Braces(then.s) \o else.s))

\* switch, typed switch and select: each clause is a scope with the names it binds.
Bindings(s, c) == CASE s.k = "typeswitch" -> s.n
                    [] s.k = "select"     -> c.n
                    [] OTHER              -> <<>>
generateClause(s, c, body, g) ==
  LET v == exprStrings(Tail(c.c), g)
      b == generateBlock(body, v.g)
      bound == Bindings(s, c)
  IN Code(b.g, v.s \o TypesUsed(c.t, g)
               \o Scope("switch", 0, (IF bound = <<>> THEN <<>> ELSE <<Declare(bound)>>) \o b.s))
generateSwitch(s, header, g) ==
  LET cs == FoldLeft(LAMBDA x, c : LET y == generateClause(s, c, Body(c), x.g) IN Code(y.g, x.s \o y.s),
                     Code(g, header), Cases(s))
      d == generateClause(s, Case(<<>>, Otherwise(s)), Otherwise(s), cs.g)
  IN IF Has(Otherwise(s)) THEN Code(d.g, cs.s \o d.s) ELSE cs

\* The names of a loop are outside of the block of its body.
Loop(names, b) == Scope("loop", 0, (IF names = <<>> THEN <<>> ELSE <<Declare(names)>>) \o Braces(b.s))
collectionIsIterator(e, g) == TypeIn(g, e).k = "function"
generateForRangeStmt(s, g) ==
  LET c == exprToString(s.c[1], g)
      b == generateBlock(s.c[2], c.g)
      names == CASE s.n[1] # "" -> IF s.n[2] = "_" THEN <<s.n[1]>> ELSE s.n
                 [] s.n[1] = "" -> IF collectionIsIterator(s.c[1], g) THEN <<s.n[2]>> ELSE <<"_", s.n[2]>>
  IN Code(b.g, c.s \o Loop(names, b))

\* From 0 up it is a loop over a range; else bounds and step become variables.
generateForNumericStmt(s, g) ==
  LET v == s.n[1]
      ends == exprStrings(Front(s.c), g)
      start == uniqueId(ends.g, "_start")
      end == uniqueId(start.g, "_end")
      step == uniqueId(end.g, "_step")
      i == uniqueId(step.g, "_i")
      names == IF v = "_" THEN <<start.name, end.name, step.name>>
               ELSE <<"_" \o v \o "Start", "_" \o v \o "End", "_" \o v \o "Step">>
      loop == IF v = "_" THEN i.name ELSE v
      simple == s.c[1] = Zero /\ s.t = <<>>
      b == generateBlock(Last(s.c), IF simple \/ v # "_" THEN ends.g ELSE i.g)
  IN IF simple THEN Code(b.g, ends.s \o Loop(IF v = "_" THEN <<>> ELSE s.n, b))
     ELSE Code(b.g, Braces(ends.s \o <<Declare(names)>> \o Assigned(names) \o Loop(<<loop>>, b)))

generateForConditionStmt(s, g) ==
  LET c == exprToString(s.c[1], g)
      b == generateBlock(s.c[2], c.g)
  IN Code(b.g, c.s \o Loop(<<>>, b))

\* defer and go: a block becomes a function, written by the same generator.
generateDetached(s, g) ==
  LET b == generateBlock(s.c[2], g) IN
  IF Has(s.c[2]) THEN Code(b.g, Scope("func", 0, b.s)) ELSE exprToString(s.c[1], g)

-----------------------------------------------------------------------------
(* onerr: what is done about an error held by a variable.                  *)

\* Mutant: the zero values are left out.
returnError(errVar, g) == <<Use(errVar), Returning(1)>>
\* The return of the function around: its zero values, then the error.
buildReturnNode(errVar, g) ==
  TypesUsed(IF g.returns = <<>> THEN <<>> ELSE Front(g.returns), g)
  \o <<Use(errVar), Returning(Max({1, Len(g.returns)}))>>

\* A name "" stands for a step written in place: no variable at all.
generateOnErrHandler(names, h, g) ==
  LET x == exprToString(h, g)
      m == exprStrings(h.c, g)
      target == IF names[1] = "" THEN <<Malformed>> ELSE Assigned(<<names[1]>>)
  IN CASE h.k = "panic"       -> m
       [] h.k = "error"       ->
            CASE Len(g.returns) > 2 -> Then(x, TypesUsed(Front(g.returns), g) \o <<Returning(Len(g.returns))>>)
              [] Len(g.returns) <= 2 /\ names # <<>> ->
                   Then(x, (IF names[1] = "" THEN <<>> ELSE <<Use(names[1])>>) \o <<Returning(2)>>)
              [] OTHER -> Then(x, <<Returning(1)>>)
       [] h.k = "return expr" -> Then(m, IF h.c = <<>> THEN <<Returning(0)>> ELSE <<Returned(h.c, g)>>)
       [] h.k = "block expr"  -> generateBlock(h.c[1], g)
       [] h.k = "empty"       -> Code(g, <<Returning(0)>>)
       [] h.k \in {"call", "methodcall"} -> x
       [] OTHER -> IF names = <<>> THEN Plain(x.g) ELSE Then(x, target)

\* In a handler "error" and the clause's alias stand for errVar, also in the blocks of its own.
renderHandler(c, names, errVar, g) ==
  LET h == generateOnErrHandler(names, c.c[1], [g EXCEPT !.errVar = errVar, !.alias = c.n[1]]) IN
  Code([h.g EXCEPT !.errVar = g.errVar, !.alias = g.alias], h.s)

lowerOnErrHandler(c, names, errVar, g) ==
  LET explain == IF c.t = <<>> THEN <<>> ELSE <<Use("fmt"), Use(errVar)>>
      h == renderHandler(c, names, errVar, g)
  IN CASE c.k = "onerr return"   -> Code(g, buildReturnNode(errVar, g))
       [] c.k = "onerr continue" -> Code(g, <<Jump("continue")>>)
       [] c.k = "onerr break"    -> Code(g, <<Jump("break")>>)
       [] OTHER -> IF Has(c.c[1]) THEN [h EXCEPT !.s = explain \o @]
                   ELSE Code(g, explain \o (IF c.t = <<>> THEN <<>> ELSE buildReturnNode(errVar, g)))

\* How an error is met: by the handler in place, or by a jump to the one handler.
InPlace(clause, names, target) ==
  [clause |-> clause, names |-> names, target |-> target, label |-> "", pipeErr |-> ""]
ByJump(label, pipeErr) ==
  [clause |-> Absent, names |-> <<>>, target |-> "", label |-> label, pipeErr |-> pipeErr]
IfErrCheck(how, names, errVar, g) ==
  LET h == lowerOnErrHandler(how.clause, names, errVar, g) IN
  IF how.label = "" THEN [h EXCEPT !.s = <<Use(errVar)>> \o Braces(@)]
  ELSE Code(g, <<Use(errVar)>> \o Braces(<<Use(how.pipeErr), Use(errVar), Goto(how.label)>>))

-----------------------------------------------------------------------------
(* onerr on a pipe chain.  A chain l is lowered step by step to statements *)
(* s and an expression cur: a variable, name, or calls still to be made    *)
(* (name is "").                                                           *)

RECURSIVE flattenPipeChain(_)
flattenPipeChain(e) == IF e.k = "pipe" THEN Append(flattenPipeChain(e.c[1]), e.c[2]) ELSE <<e>>

\* Unlike in a chain without onerr, print is not fmt's, a method of the value
\* gets the value once more, and a function of a package gets nothing.
generatePipedStepCall(r, cur, g) ==
  LET f == exprToString(r.c[1], g)
      o == IF Has(r.c[1]) THEN generateObject(r.c[1], g) ELSE Code(g, cur)
      called(x) == LET args == buildPipeArgs(cur, Args(r), x.g) IN Code(args.g, x.s \o args.s)
  IN CASE r.k = "call"       -> called(f)
       [] r.k = "methodcall" -> called(o)
       [] r.k = "field"      -> IF Has(r.c[1]) THEN generateFieldAccessExpr(r, g) ELSE Code(g, cur)
       [] r.k = "id"         -> Code(g, <<Use(IF IsPrint(r) THEN "fmt" ELSE r.n[1])>> \o cur)

Stepped(l, c, cur, name) == [g |-> c.g, s |-> l.s \o c.s, cur |-> cur, name |-> name]
\* A step that gives a value and an error; last: its value is the target's.
Checked(l, call, last, how) ==
  LET p == uniqueId(call.g, "pipe")
      r == uniqueId(p.g, "err")
      name == IF last THEN how.target ELSE p.name
      names == IF last /\ how.names = <<>> THEN <<how.target>> ELSE how.names
  IN Stepped(l, Behind(call.s \o <<Declare(<<name, r.name>>)>>, IfErrCheck(how, names, r.name, r.g)),
             IF name = "_" THEN <<Use("_")>> ELSE Assigned(<<name>>), name)
ErrorOnly(l, call, how) ==
  LET r == uniqueId(call.g, "err") IN
  Stepped(l, Behind(call.s \o <<Declare(<<r.name>>)>>, IfErrCheck(how, how.names, r.name, r.g)), l.cur, l.name)
\* Mutant: a step that is nested has been made a statement too.
NestedAndKept(l, call) == [l EXCEPT !.g = call.g, !.s = @ \o call.s, !.cur = call.s, !.name = ""]
Nested(l, call) == [l EXCEPT !.g = call.g, !.cur = call.s, !.name = ""]

lowerOnErrPipeChain(e, how, g) ==
  LET chain == flattenPipeChain(e)
      base == chain[1]
      fails(i) == inferReturnCount(chain[i], g) >= 2
      failing == {i \in 2..Len(chain) : fails(i)}
      onlyErrors == \A i \in 2..Len(chain) : isErrorOnlyReturn(chain[i], g)
      lastValue == CASE how.target = "" -> 0
                     [] how.target # "" /\ failing # {} -> Max(failing)
                     [] OTHER -> IF onlyErrors THEN 1 ELSE 0
      x == exprToString(base, g)
      l0 == [g |-> x.g, s |-> <<>>, cur |-> x.s, name |-> IF base.k = "id" THEN base.n[1] ELSE ""]
      step(l, call, i) ==
        CASE fails(i) -> Checked(l, call, lastValue = i, how)
          [] ~fails(i) /\ i > 1 /\ isErrorOnlyReturn(chain[i], l.g) -> ErrorOnly(l, call, how)
          [] OTHER -> IF i = 1 THEN l ELSE Nested(l, call)
  IN FoldLeft(LAMBDA l, i : step(l, IF i = 1 THEN x ELSE generatePipedStepCall(chain[i], l.cur, l.g), i),
              l0, [i \in 1..Len(chain) |-> i])

\* A piped switch under onerr: its chain jumps to the handler below it.
SwitchLabels(g) ==
  LET o == uniqueId(g, "onerr")
      e == uniqueId(o.g, "end")
      p == uniqueId(e.g, "pipeErr")
  IN [g |-> p.g, onerr |-> o.name, end |-> e.name, pipeErr |-> p.name]
SwitchChain(e, l) == lowerOnErrPipeChain(e, ByJump(l.onerr, l.pipeErr), l.g)

\* The code, and below it the handler, unless a default is there already.
HandledBelow(l, declared, body, names, clause, default) ==
  LET h == IF default THEN Plain(body.g) ELSE lowerOnErrHandler(clause, names, l.pipeErr, body.g) IN
  Code(h.g, <<Var(<<l.pipeErr>>)>> \o declared \o Braces(body.s \o <<Goto(l.end)>>)
            \o <<Label(l.onerr)>> \o h.s \o <<Label(l.end)>>)

HasDefault(h) == h.k \in {"literal", "text", "empty"}
lowerPipedSwitchVarDecl(name, e, clause, g) ==
  LET l == SwitchLabels(g)
      d == exprToString(clause.c[1], l.g)
      default == clause.k = "onerr" /\ HasDefault(clause.c[1])
      value(chain) ==
        [Child(chain.g, generateSwitch(e.c[2], chain.cur, [childGenerator(chain.g) EXCEPT !.returns = g.returns]))
         EXCEPT !.s = chain.s \o Scope("func", PipedSwitchResults(e, g), @) \o Assigned(<<name>>)]
  IN HandledBelow(l, (IF default THEN d.s ELSE <<>>) \o <<Var(<<name>>)>>,
                  value(SwitchChain(e.c[1], IF default THEN [l EXCEPT !.g = d.g] ELSE l)), <<name>>, clause, default)

lowerPipedSwitchStmt(e, clause, g) ==
  LET l == SwitchLabels(g)
      below(chain) == HandledBelow(l, <<>>, Behind(chain.s, generateSwitch(e.c[2], chain.cur, chain.g)),
                                   <<chain.name>>, clause, FALSE)
  IN below(SwitchChain(e.c[1], l))

-----------------------------------------------------------------------------
(* onerr on declarations, assignments and expressions.                     *)

IsDiscarded(clause) == clause.k = "onerr" /\ clause.c[1].k = "discard"

\* v gives the values, lhs is what precedes the assignment of them to names and to errVar.
lowerOnErr(v, clause, names, assigned) ==
  LET r == uniqueId(v.g, "err")
  IN Behind(IF assigned = <<>> THEN v.s \o <<Declare(Append(names, r.name))>>
            ELSE <<Var(<<r.name>>)>> \o assigned[1] \o v.s,
            IfErrCheck(InPlace(clause, <<>>, ""), names, r.name, r.g))

\* The last of several names is the error's, unless it is blank.
lowerOnErrWithExplicitErr(v, clause, names, assigned) ==
  LET r == uniqueId(v.g, "err")
      blank == Last(names) = "_"
      errVar == IF blank THEN r.name ELSE Last(names)
  IN Behind(v.s \o (IF assigned = <<>> THEN <<Declare(Append(Front(names), errVar))>>
                    ELSE assigned[1] \o <<Use(errVar)>>),
            IfErrCheck(InPlace(clause, <<>>, ""), Front(names), errVar, IF blank THEN r.g ELSE v.g))

\* The values are rendered first, whether the rendering is used or not.
generateOnErrVarDecl(s, g) ==
  LET c == Onerr(s)
      v == exprStrings(Values(s), g)
      e == Values(s)[1]
      single == Len(s.n) = 1 /\ Len(Values(s)) = 1
      several == Len(s.n) > 1 /\ Len(Values(s)) = 1
      declared(chain) == Code(chain.g, chain.s \o (IF chain.name = s.n[1] THEN <<>> ELSE chain.cur \o <<Declare(s.n)>>))
  IN CASE single /\ e.k = "pipe" -> declared(lowerOnErrPipeChain(e, InPlace(c, <<>>, s.n[1]), v.g))
       [] single /\ e.k = "piped" -> lowerPipedSwitchVarDecl(s.n[1], e, c, v.g)
       [] ~(single /\ e.k \in {"pipe", "piped"}) /\ IsDiscarded(c) ->
            Then(v, <<Declare(IF several THEN s.n ELSE Append(s.n, "_"))>>)
       [] OTHER -> IF several THEN lowerOnErrWithExplicitErr(v, c, s.n, <<>>)
                   ELSE lowerOnErr(v, c, s.n, <<>>)

generateOnErrAssign(s, g) ==
  LET c == Onerr(s)
      v == exprStrings(Values(s), g)
      e == Values(s)[1]
      n == Len(Targets(s))
      t == generateTargets(s, v.g)
      ids == [i \in DOMAIN SelectSeq(Targets(s), LAMBDA x : x.k = "id") |->
                SelectSeq(Targets(s), LAMBDA x : x.k = "id")[i].n[1]]
      assigned(chain) ==
        Code(chain.g, chain.s \o (IF IsPlaceholder(Targets(s)[1]) /\ chain.name = "" THEN <<>>
                                  ELSE generateTargets(s, chain.g).s \o chain.cur))
  IN CASE n = 1 /\ Len(Values(s)) = 1 /\ e.k = "pipe" ->
            assigned(lowerOnErrPipeChain(e, InPlace(c, ids, ""), v.g))
       [] ~(n = 1 /\ Len(Values(s)) = 1 /\ e.k = "pipe") /\ IsDiscarded(c) -> Code(t.g, v.s \o t.s)
       [] OTHER -> IF n > 1 /\ Len(Values(s)) = 1
                   THEN lowerOnErrWithExplicitErr(Code(t.g, v.s), c, TargetNames(s),
                          <<generateTargets([s EXCEPT !.c[3].c = Front(@)], v.g).s>>)
                   ELSE lowerOnErr(Code(t.g, v.s), c, TargetNames(s), <<t.s>>)

generateOnErrStmt(s, g) ==
  LET c == Onerr(s)
      e == Values(s)[1]
      v == exprToString(e, g)
      r == uniqueId(v.g, "err")
      finished(chain) == Code(chain.g, chain.s \o chain.cur)
  IN CASE e.k = "pipe"  -> finished(lowerOnErrPipeChain(e, InPlace(c, <<>>, ""), g))
       [] e.k = "piped" -> lowerPipedSwitchStmt(e, c, g)
       [] e.k \notin {"pipe", "piped"} /\ IsDiscarded(c) -> v
       [] OTHER -> Behind(v.s \o <<Declare(<<r.name>>)>>, IfErrCheck(InPlace(c, <<>>, ""), <<>>, r.name, r.g))

generateVarDeclStmt(s, g) ==
  LET v == exprStrings(Values(s), g) IN
  CASE Len(s.n) = 1 /\ Values(s)[1].k = "empty" -> Code(g, <<Var(s.n)>>)
    [] s.t # <<>> -> Then(v, TypesUsed(s.t, g) \o <<Var(s.n)>>)
    [] OTHER      -> Then(v, <<Declare(s.n)>>)

generateAssignStmt(s, g) ==
  LET t == generateTargets(s, g)
      v == exprStrings(Values(s), t.g)
  IN Code(v.g, t.s \o v.s)

GeneratedStatement(s, g) ==
  LET e == Values(s)[1]
      header == exprToString(s.c[1], g)
      left == exprToString(e.c[1], g)
  IN CASE s.k = "var"     -> IF Has(Onerr(s)) THEN generateOnErrVarDecl(s, g) ELSE generateVarDeclStmt(s, g)
       [] s.k = "assign"  -> IF Has(Onerr(s)) THEN generateOnErrAssign(s, g) ELSE generateAssignStmt(s, g)
       [] s.k = "do"      -> CASE Has(Onerr(s)) -> generateOnErrStmt(s, g)
                               [] ~Has(Onerr(s)) /\ e.k = "piped" -> generateSwitch(e.c[2], left.s, left.g)
                               [] OTHER -> exprToString(e, g)
       [] s.k = "return"  -> IF s.c = <<>> THEN Code(g, <<Returning(0)>>) ELSE generateReturnStmt(s, g)
       [] s.k = "if"      -> generateIfStmt(s, g)
       [] s.k \in {"switch", "typeswitch", "select"} -> generateSwitch(s, header.s, header.g)
       [] s.k = "range"   -> generateForRangeStmt(s, g)
       [] s.k = "numeric" -> generateForNumericStmt(s, g)
       [] s.k = "while"   -> generateForConditionStmt(s, g)
       [] s.k \in {"defer", "go"} -> generateDetached(s, g)
       [] s.k \in {"break", "continue"} -> Code(g, <<Jump(s.k)>>)
       [] OTHER           -> exprStrings(s.c, g)                 \* send, x++

generate(how, n, g) ==
  CASE how = "value"     -> GeneratedExpression(n, g)
    [] how = "values"    -> IF n = <<>> THEN Plain(g) ELSE ExprJoined(generate(how, Front(n), g), Last(n))
    [] how = "statement" -> GeneratedStatement(n, g)
    [] how = "block"     -> IF n = <<>> THEN Plain(g) ELSE StatementJoined(generate(how, Front(n), g), Last(n))

=============================================================================
