------------------------------ MODULE Compiler ------------------------------
(***************************************************************************)
(* A compilation of one file: the declarations are collected and analyzed  *)
(* one by one; if the analyzer has nothing to report, the program is       *)
(* scanned for the names and the libraries the code will need, and its     *)
(* declarations are turned into Go one by one.                             *)
(***************************************************************************)
EXTENDS Generator

CONSTANTS
  Programs      \* the programs compiled: [imports, decls]

VARIABLES
  program, phase, \* "collect", "analyze", "generate", "done"; "rejected"
  at,             \* the declaration that is next
  analyzer, generator,
  code            \* what has been written so far

vars == <<program, phase, at, analyzer, generator, code>>

-----------------------------------------------------------------------------
(* What is looked for before anything is written.  Only the bodies of      *)
(* functions are searched, and each search follows a tree its own way.     *)

Functions(p) == {d \in ToSet(p.decls) : d.k \in {"func", "method"}}

Blocks(s) ==
  CASE s.k \in {"switch", "typeswitch", "select"} -> ToSet(Bodies(s))
    [] s.k = "block" -> ToSet(s.c)
    [] s.k = "if"    -> {s.c[3], s.c[4]}
    [] s.k \in {"range", "numeric", "while"} -> {Last(s.c)}
    [] s.k = "go"    -> {s.c[2]}
    [] OTHER         -> {}
Followed(e, search) ==
  CASE search = "explain" -> Blocks(e)
    [] search # "explain" /\ e.k = "defer" -> {e.c[1]}
    [] search # "explain" /\ e.k = "text"  -> {}
    [] search = "interpolation" /\ e.k = "if"     -> ToSet(Tail(e.c))
    [] search = "interpolation" /\ e.k = "assign" -> {e.c[1], e.c[2]}
    [] search = "interpolation" /\ e.k = "incdec" -> {}
    [] OTHER -> ToSet(e.c)
RECURSIVE Reached(_, _)
Reached(e, search) == {e} \union UNION {Reached(x, search) : x \in Followed(e, search)}
Found(p, search) == UNION {Reached(d.c[1], search) : d \in Functions(p)}

IsInterpolated(e) == e.k = "text" /\ e.c # <<>>
needsStringInterpolation(p) == \E e \in Found(p, "interpolation") : IsInterpolated(e)
needsPrintBuiltin(p) == \E e \in Found(p, "expressions") : e.k = "call" /\ IsPrint(e.c[1])
needsExplain(p) ==
  \E s \in Found(p, "explain") : s.k \in {"var", "assign", "do"} /\ Has(Onerr(s)) /\ Onerr(s).t # <<>>
\* Mutant: formatted errors need the package as well.
needsErrorsForAny(p) == \E e \in Found(p, "expressions") : e.k = "error"
needsErrorsPackage(p) == \E e \in Found(p, "expressions") : e.k = "error" /\ ~IsInterpolated(e.c[1])

\* The names a generated one must not be: of parameters and of the statements walked.
RECURSIVE collectStmtNames(_)
collectStmtNames(s) ==
  UNION {collectStmtNames(x) : x \in Blocks(s)}
  \union CASE s.k \in {"var", "range", "numeric", "typeswitch"} -> ToSet(s.n)
           [] s.k = "assign" -> {t.n[1] : t \in {x \in ToSet(Targets(s)) : x.k = "id"}}
           [] OTHER -> {}
collectReservedNames(p) == UNION {ToSet(Tail(d.n)) \union collectStmtNames(d.c[1]) : d \in Functions(p)}

-----------------------------------------------------------------------------
(* Imports: of the program, and of what the code needs.  A package of the  *)
(* language's own library gives way to another one of its name, and any    *)
(* package to a type of Go.                                                *)

Import(name, path, package, kuki) == [name |-> name, path |-> path, package |-> package, kuki |-> kuki]
Aliased(i) == i.name # i.package
GoTypes == {"string", "int", "bool", "byte", "rune", "error", "any"}

\* path |-> the name given to it in the program, "" if none; what is needed comes without one.
ImportMap(p) ==
  LET needed == (IF needsStringInterpolation(p) \/ needsPrintBuiltin(p) \/ needsExplain(p) THEN {"fmt"} ELSE {})
                \union (IF needsErrorsPackage(p) THEN {"errors"} ELSE {})
      written == {p.imports[i] : i \in DOMAIN p.imports}
  IN [q \in needed |-> ""]
     @@ [q \in {i.path : i \in written} |->
           LET i == CHOOSE x \in written : x.path = q IN IF Aliased(i) THEN i.name ELSE ""]

extractPkgName(p, path) ==
  LET is == {i \in ToSet(p.imports) : i.path = path} IN
  IF is = {} THEN path ELSE (CHOOSE i \in is : TRUE).package
EffectiveName(p, path) ==
  IF ImportMap(p)[path] = "" THEN extractPkgName(p, path) ELSE ImportMap(p)[path]
Renamed(p) ==
  {path \in DOMAIN ImportMap(p) :
     /\ ImportMap(p)[path] = ""
     /\ \/ extractPkgName(p, path) \in GoTypes
        \/ /\ \E i \in ToSet(p.imports) : i.path = path /\ i.kuki
           /\ \E q \in DOMAIN ImportMap(p) \ {path} : EffectiveName(p, q) = EffectiveName(p, path)}
KukiName(p, path) == "kuki" \o extractPkgName(p, path)

pkgAliases(p) ==
  [n \in {extractPkgName(p, path) : path \in Renamed(p)} |-> "kuki" \o n]
generateImports(p) ==
  {IF path \in Renamed(p) THEN KukiName(p, path) ELSE EffectiveName(p, path) : path \in DOMAIN ImportMap(p)}

-----------------------------------------------------------------------------
(* Declarations.                                                           *)

generateFunctionDecl(d, g) ==
  LET sig == d.t[1]
  IN [generateBlock(d.c[1], [g EXCEPT !.returns = sig.r]) EXCEPT !.g.returns = <<>>,
               !.s = TypesUsed(Tail(d.t) \o sig.e \o sig.r, g) \o Scope("func", Len(sig.r), <<Var(Tail(d.n))>> \o @)]

\* An enum of strings has the type of its cases in t.
hasMethodOnType(p, n, m) == \E d \in Functions(p) : d.k = "method" /\ d.t[2] = Named(n) /\ DeclName(d) = m
generateEnumDecl(d, p, g) ==
  Code(g, IF hasMethodOnType(p, DeclName(d), "String") THEN <<>>
          ELSE Scope("func", 1, <<Var(<<"e">>)>> \o [i \in 1..(Len(d.n) - 1) |-> Use(DeclName(d) \o d.n[i + 1])]
                                \o (IF d.t = <<>> THEN <<Use("fmt")>> ELSE <<>>) \o <<Returning(1)>>))

generateDeclaration(d, p, g) ==
  CASE d.k \in {"func", "method"} -> generateFunctionDecl(d, g)
    [] d.k \in {"const", "global"} -> exprToString(d.c[1], g)
    [] d.k = "enum" -> generateEnumDecl(d, p, g)
    [] OTHER        -> Code(g, TypesUsed(d.t, g))             \* type, interface, variants

\* What a declaration makes known to the whole file.
TopLevel(d) ==
  CASE d.k = "method"  -> <<>>
    [] d.k = "enum"    -> <<DeclName(d)>> \o [i \in 1..(Len(d.n) - 1) |-> DeclName(d) \o d.n[i + 1]]
    [] d.k = "variant" -> d.n
    [] OTHER           -> <<DeclName(d)>>

-----------------------------------------------------------------------------
Init ==
  /\ program \in Programs
  /\ phase = "collect" /\ at = 1
  /\ analyzer = NewAnalyzer
  /\ generator = <<>> /\ code = <<>>

Collect ==
  /\ phase = "collect"
  /\ analyzer' = collectDeclarations(program, analyzer)
  /\ phase' = "analyze"
  /\ UNCHANGED <<program, at, generator, code>>

AnalyzeDeclaration ==
  /\ phase = "analyze" /\ at <= Len(program.decls)
  /\ analyzer' = analyzeDeclaration(program.decls[at], analyzer)
  /\ at' = at + 1
  /\ UNCHANGED <<program, phase, generator, code>>

Reject ==
  /\ phase = "analyze" /\ at > Len(program.decls) /\ analyzer.errors # {}
  /\ phase' = "rejected"
  /\ UNCHANGED <<program, at, analyzer, generator, code>>

Prepare ==
  /\ phase = "analyze" /\ at > Len(program.decls) /\ analyzer.errors = {}
  /\ phase' = "generate" /\ at' = 1
  /\ generator' = NewGenerator(program, analyzer, collectReservedNames(program), pkgAliases(program))
  /\ code' = FlattenSeq([i \in DOMAIN program.decls |->
                           IF TopLevel(program.decls[i]) = <<>> THEN <<>> ELSE <<Var(TopLevel(program.decls[i]))>>])
  /\ UNCHANGED <<program, analyzer>>

GenerateDeclaration ==
  /\ phase = "generate" /\ at <= Len(program.decls)
  /\ \E x \in {generateDeclaration(program.decls[at], program, generator)} :
       generator' = x.g /\ code' = code \o x.s
  /\ at' = at + 1
  /\ UNCHANGED <<program, phase, analyzer>>

Finish ==
  /\ phase = "generate" /\ at > Len(program.decls)
  /\ phase' = "done"
  /\ UNCHANGED <<program, at, analyzer, generator, code>>

Next == Collect \/ AnalyzeDeclaration \/ Reject \/ Prepare \/ GenerateDeclaration \/ Finish
Spec == Init /\ [][Next]_vars
-----------------------------------------------------------------------------
(* Properties: what Go has to say of the code of an accepted program, and  *)
(* the places where the compiler is known to pass an error on to Go.       *)

RECURSIVE Everything(_)
Everything(e) == <<e>> \o FlattenSeq([i \in DOMAIN e.c |-> Everything(e.c[i])])
Of(nodes, kinds) == ToSet(SelectSeq(nodes, LAMBDA x : x.k \in kinds))
Below(e, kinds) == UNION {Of(Everything(x), kinds) : x \in ToSet(e.c)}
Within(p, kinds) == UNION {Of(Everything(d), kinds) : d \in ToSet(p.decls)}
Encloses(e, kinds) == Below(e, kinds) # {}

GoSays == GoErrors(code, generateImports(program))
Libraries == {"fmt", "errors"}

\* Blocks that are functions or scopes in Go and no scopes to the analyzer.
LeakyBlocks(p) ==
  {s.c[2] : s \in Within(p, {"go", "defer"})}
  \union {h.c[1] : h \in Within(p, {"block expr"})}
  \union {Otherwise(s) : s \in Within(p, {"select"})}
  \union UNION {ToSet(Bodies(x.c[2])) : x \in Within(p, {"piped"})}
LeakedNames(p) == UNION {ToSet(s.n) : s \in UNION {Of(b.c, {"var"}) : b \in LeakyBlocks(p)}}
\* The error of a handler is known by its name neither in the functions
\* written in it nor, if it has an alias, in handlers without one.
HiddenErrors(p) ==
  UNION {{"error", h.n[1]} : h \in {x \in Within(p, {"onerr"}) : Encloses(x, {"literal func", "lambda", "piped", "onerr"})}}

(* Every name in the code of an accepted program is declared where it is   *)
(* used, and declared once: scopes of the analyzer are scopes of the Go    *)
(* code (semantic_statements.go, codegen_stmt.go), except for those of     *)
(* LeakyBlocks, whose names the analyzer knows behind them too.            *)
NamesResolve ==
  phase = "done" =>
    \A e \in GoSays :
      /\ e[1] # "redeclared"
      /\ e[1] = "undefined" => e[2] \in Libraries \union LeakedNames(program) \union HiddenErrors(program)

\* The jumps of e that leave the Go function they are written in: no loop, and
\* no switch, of that function is around them.
JumpsOf(e) == CASE e.k \in {"break", "onerr break"}       -> {"break"}
                [] e.k \in {"continue", "onerr continue"} -> {"continue"}
                [] OTHER -> {}
InPlaceSwitch(e) == e.k = "do" /\ Values(e)[1].k = "piped"
Parts(e) == IF InPlaceSwitch(e) THEN {Onerr(e)} \union ToSet(Values(e)[1].c) ELSE ToSet(e.c)
RECURSIVE StrayJumps(_, _)
StrayJumps(e, around) ==
  LET within == CASE e.k \in {"range", "numeric", "while"} -> {"break", "continue"}
                  [] e.k \in {"switch", "typeswitch", "select"} -> around \union {"break"}
                  [] e.k \in {"go", "defer", "literal func", "lambda", "piped"} -> {}
                  [] OTHER -> around
  IN (JumpsOf(e) \ around) \union UNION {StrayJumps(x, within) : x \in Parts(e)}

\* Whether e returns where the Go function is not the one whose results the
\* analyzer compared, or with results it never compares: those of a handler.
RECURSIVE StrayReturns(_, _)
StrayReturns(e, in) ==
  LET within == CASE e.k = "piped" \/ in = "piped" -> "piped"
                  [] in # "piped" /\ e.k = "literal func" -> "literal"
                  [] in # "piped" /\ e.k \in {"go", "defer", "lambda"} -> "detached"
                  [] OTHER -> in
  IN \/ e.k = "return" /\ in \in {"detached", "piped"}
     \/ e.k = "onerr return" /\ in # "function"
     \/ e.k = "onerr" /\ (e.t # <<>> \/ e.c[1].k \in {"error", "return expr", "empty"})
     \/ \E x \in ToSet(e.c) : StrayReturns(x, within)

(* A break or a continue is refused by Go exactly where it leaves a        *)
(* function literal, a lambda, a goroutine, a deferred block or the        *)
(* function a piped switch becomes: the analyzer counts the loops and      *)
(* switches around those as well (semantic.go: loopDepth, switchDepth).    *)
(* Returns fit the results of the Go function around them, but for those   *)
(* of StrayReturns, and labels are gone to over no declaration.            *)
JumpsAreLegal ==
  phase = "done" =>
    LET said == {e[1] : e \in GoSays} IN
    /\ said \intersect {"break", "continue"} = UNION {StrayJumps(d, {}) : d \in ToSet(program.decls)}
    /\ "return" \in said => \E d \in ToSet(program.decls) : StrayReturns(d, "function")
    /\ said \intersect {"goto", "unused label", "syntax"} = {}

\* Where the searches for what a library is needed for do not look, or look
\* for what is not written in the end.
Explains(e) == \E x \in Below(e, {"onerr"}) : x.t # <<>>
BlindTo(p, library) ==
  \/ library \in {i.path : i \in ToSet(p.imports)}
  \/ \E e \in Within(p, {"defer"}) \union {d \in ToSet(p.decls) : d.k = "global"} : Encloses(e, {"call", "text", "error"})
  \/ library = "fmt" /\
       \/ \E e \in Within(p, {"pipe"}) : IsPrint(e.c[2])
       \/ \E e \in Within(p, {"literal func", "lambda", "block expr", "piped"}) : Explains(e)
       \/ \E e \in Within(p, {"var"}) : Encloses(e, {"piped"}) /\ Explains(e)
       \/ \E d \in ToSet(p.decls) : d.k = "enum" /\ d.t = <<>>

(* The code imports fmt and errors if and only if it uses them (codegen.go *)
(* pre-scans for both), except where the searches do not look: deferred    *)
(* blocks, globals, a bare print at the end of a pipe, explanations in     *)
(* functions within functions, and the generated method of an enum.        *)
LibrariesAreImported ==
  phase = "done" =>
    \A library \in Libraries :
      BlindTo(program, library) \/ (library \in UsedNames(code) <=> library \in generateImports(program))

\* Mentions of a function in the program.
Mentions(p, f) == FoldLeft(LAMBDA n, d : n + Len(SelectSeq(Everything(d), LAMBDA x : x = Id(f))), 0, p.decls)
CountsFromTheEnd(p) == \E e \in Within(p, {"index", "slice"}) : \E x \in ToSet(Tail(e.c)) : IsNegative(x)
(* What the source calls once the code calls once: rendering a value for   *)
(* another purpose, or twice on the way down a chain, would repeat its     *)
(* effects, dropping it would lose them (codegen_onerr.go, lower.go).      *)
CalledOnce ==
  phase = "done" /\ ~CountsFromTheEnd(program) =>
    \A f \in DOMAIN generator.functions :
      Len(SelectSeq(code, LAMBDA e : e = Use(f))) = Mentions(program, f)

\* Names that are declared where collectReservedNames does not look.
Declaring == {"var", "range", "numeric", "typeswitch", "comm", "literal func", "lambda"}
DeclaredIn(e) == UNION {ToSet(x.n) : x \in Of(Everything(e), Declaring)}
                 \union {x.n[2] : x \in Of(Everything(e), {"is"})}
UnreservedNames(p) ==
  UNION {DeclaredIn(x) : x \in Within(p, {"defer", "literal func", "lambda", "block expr", "is", "comm", "piped"})
                               \union {y.c[1] : y \in Within(p, {"if"})}}

(* A variable the generator adds is named as nothing a function declares,  *)
(* except in the places collectReservedNames (codegen_walk.go) leaves out. *)
TempsAreFresh ==
  phase = "done" =>
    generator.temps \intersect UNION {ToSet(Tail(d.n)) \union DeclaredIn(d) : d \in Functions(program)}
      \subseteq UnreservedNames(program)
=============================================================================
