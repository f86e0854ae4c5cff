# A TLA+ model of Kukicha

Kukicha is a language that compiles to Go. The repository holds its compiler, its standard library and
the programs around them: the `kukicha` command, a language server, a module proxy, a Go-to-Kukicha
advisor. This directory holds TLA+ modules translated from that code, the TLC configurations that
model-check them on small instances, and theorems that TLAPS proves for every value of the constants.
Paths below are relative to the root of the repository unless they are names of modules.

    tlc -workers 2 -config LexerLayout.cfg MCLexer.tla      # one run
    tlapm LexerProofs.tla                                   # one proof module

`PROJECT.json` lists components, runs, findings, hazards and theorems, the lines of source each
definition stands for, and for each checked property a mutant: a plausible bug in one definition
(its comment begins with "Mutant:") that makes TLC find the property violated.

## Inventory

### The compiler

A source text goes through `lexer`, `parser`, `semantic` and `codegen` in this order, each called once
by the one who needs the result (`cmd/kukicha/compile.go`, `internal/lsp/document.go`,
`cmd/kukicha-wasm`); each returns its result and a list of errors, and a caller stops at the first
stage with errors. They are sequential. What is hard in them is state that is set at one token, line or
declaration and used at a later one.

| part | state | operations | hard | correct when |
|---|---|---|---|---|
| scanner, `internal/lexer/lexer.go` | position; stacks of indentation, of closures and of braces; depths; four flags; tokens; errors | `scanToken`, `handleIndentation`, `ScanTokens` | which of seven stacks and flags decides what a newline, a leading space or a brace means; recovery after an error | INDENT and DEDENT balance, levels are legal, brackets suspend layout, a closure body in a call gets its block |
| continuations, `mergeLineContinuations` in the same file | position, result, absorbed INDENTs, `inPipeChain` | one iteration of the pass | DEDENTs are absorbed by count | only layout is dropped, the debt is paid, blocks keep their tokens |
| parser, `internal/parser` | position, pending directives, errors | one function per production | error recovery must move on; directives go to the right declaration; semicolons are rewritten, look-ahead is undone | blocks are those of the layout, statements those of the lines, directives go to the next declaration, parsing ends |
| analyzer, `internal/semantic` | scopes, symbols, types and return counts of expressions, registries of the library | declarations first, then bodies | two passes; its scopes are not everywhere the scopes of Go; facts that the generator reads later | what it accepts, Go accepts: names resolve, jumps and returns stay in their function |
| generator, `internal/codegen`, `internal/ir` | fresh-name counters, imports, current function, `Lowerer` | declarations, statements, expressions; onerr lowering | expressions are text that is pasted, once, twice or never; fresh names and imports are decided before the code is written | calls are made once, in order, with the right argument; imports and fresh names are right; Go accepts the code |
| formatter, `internal/formatter` | comments by line; comments attached to nodes | read, attach, print; `fmt`, `fmt -w`, `fmt --check` | comments find a node by line only; nodes the walk does not reach; imports change places | no comment printed twice, none lost while a node is left to take it; a second pass changes nothing, but for the comments named |
| advisor, `internal/blend` | patterns, suggestions | find, apply | overlapping edits | an applied edit leaves the rest of the text alone |

### The programs

| part | state | operations | hard | correct when |
|---|---|---|---|---|
| language server, `internal/lsp`, `cmd/kukicha-lsp` | open documents (RW mutex), debounce timers (mutex), connection | `didOpen`, `didChange`, `didSave`, `didClose`, a timer's expiry; requests, which only read | expired timers run in goroutines next to the read loop, and `Stop` does not wait for them | what the client is left with is what the document's analysis says |
| `cmd/kukicha-proxy` | first-seen store (JSON file or SQLite), vulnerability cache, disk cache | `list`, `latest`, `info`, `mod`, `zip`; signal and shutdown | concurrent requests, process ends anywhere, failing writes | nothing is served before its cooldown; a clock starts once; a cached file is whole |
| `kukicha init`, `build`, `run`, `brew` | the project's files, `.kukicha/stdlib` and its version stamp, `go.mod` | compile, write, extract the library, run Go | interrupts, failing writes, overlapping commands, several versions of the tool | the stamp vouches for the library, the user's files survive, success means built |
| `kukicha pack`, `audit`, `check`, run from a URL | none of their own | sequences of external commands | - | not modelled |

### The standard library

`stdlib/` is Kukicha code (`.kuki`) with the Go code generated from it. `concurrent` is the part with
a protocol of its own: a wait group, a channel used as a semaphore and one goroutine per task.
`retry`, `fetch`, `ctx` repeat and time out; `db`, `sqlite` wrap transactions; `container`, `shell`,
`git`, `sandbox` wrap programs; the rest are functions over values, or single requests to services.

### How they interact

Everything calls the compiler and nothing calls back into it. The proxy and the language server are
processes with concurrency of their own; a `kukicha` command meets other commands, editors and the Go
tools only in the file system. The components are therefore modelled one by one, and composed where
state is really shared: `Tokenizer` is the scanner followed by the merging pass over its tokens, `Compiler` is the analyzer
followed by the generator, which reads what the analyzer has recorded, and by the rules of Go,
`Proxy` is its handlers with `SeenStore` and `FileCache`, `Toolchain` is its commands with
`ProjectFiles`.

## Modules

### Lexer, Continuations, Tokenizer

`Lexer` is `internal/lexer/lexer.go` as a state machine. Its variables are the fields of the `Lexer`
struct. The source text is not there in advance: `next` is the lexeme ahead and `lead` the white space
in front of it, chosen as they are read, up to `MaxLexemes`, so that every file is met. A lexeme is a
class; identifiers, numbers and operators, whose scanning only appends a token, are all `OTHER`. A step
is one call of `scanToken`, or one iteration of the loop of `handleIndentation` or of the closing
DEDENTs; the flags `atLineStart` and `indentationHandled` are one (`freshLine`), since only their
combination is tested. An error is recorded and scanning goes on, as in the code.

`Continuations` is `mergeLineContinuations`: `pos`, `result` (positions, not copies, of the tokens
that are kept), `absorbedIndents` and `inPipeChain`. `Tokenizer` runs it after the scanner, on the
tokens the scanner really emits, and only if there were no errors, as `ScanTokens` does.

### ParserGrammar, Parser

`ParserGrammar` has one definition per procedure of the recursive-descent parser, under the
procedure's name: the instructions it executes (look at the next token, consume one, call a procedure,
loop, report). `Parser` executes them: `todo` is the call stack, flattened; `pos` and `pending` are
the parser's position and its pending directives; a step is one look at, or one move over, the token stream, and collects the
directives it passes (`peekToken`, `skipIgnoredTokens`), which `drainDirectives` hands on. Error
recovery (tokens skipped in a body, or left where they are), the backtracking of lambdas and typed arguments, and
the semicolon that is rewritten to a newline are steps like others. Trees are left out but for what the
parser itself asks of a value it has built (`ret`), and for the blocks, statements and declarations it
made (`blocks`, `stmts`, `decls`), which the properties compare with the layout of the tokens. A line
that starts with a statement's keyword is a statement of its own unless the line above goes on there
(`GoesOn`): it ends in `else`, `=>`, `onerr` or `onerr as x`, or in the semicolon of an `if`.

### SourceTrees, Analyzer, GoCode, Generator, Compiler

`SourceTrees` has the node types of `internal/ast` as constructors: a node is a kind, names, children
and types. `Analyzer` is `internal/semantic` as functions from a state and a node to a state, under the
names of the methods: the symbol table with its scopes, `loopDepth`, `switchDepth`, the current function
and handler, the types and return counts it records for expressions, and the errors it reports.
`Generator` is `internal/codegen` likewise, with the lowering of `onerr`, chains and piped switches:
its output is Go code as `GoCode` sees it, the sequence of scopes opened and closed, names declared and
used, labels, jumps and returns. Expressions contain statements and the other way round, so each of the
two modules has one recursive operator (`analyze`, `generate`), and the methods' names for its uses;
`AnalyzedStatement` and the like are the type switches. `GoCode` states the rules of the Go compiler about those: what is
declared where, what a `break` may leave, what a `goto` may jump over, what a `return` must carry.
`Compiler` is one compilation: `Collect` and then one `AnalyzeDeclaration` per declaration; `Reject` if
there are errors; otherwise `Prepare` (the searches of `codegen_walk.go` for the libraries and names the
code will need), one `GenerateDeclaration` each, `Finish`. The analysis and the generation of a
declaration are sequential and atomic here; what matters between them is the state one hands to the next.

The properties compare two independent things: the Go code, under the rules of Go, and the source
program. Where the compiler is known to pass an error on to Go, the property names the places exactly
and says that there are no others:

- `LeakyBlocks`: the bodies of `go`, `defer`, handlers, the default of a `select` and piped switches are
  no scopes to the analyzer; a name declared in one is accepted behind it, and Go does not know it.
- `HiddenErrors`: the error of a handler is not known by its name in functions written in the handler.
- `StrayJumps`: `break` and `continue` in a function literal, lambda, goroutine or piped switch are
  accepted if a loop is around that function. `StrayReturns`: results of handlers, goroutines and piped
  switches are not compared; `onerr return` in a function literal returns the error alone, whatever the
  literal's results (the child generator drops `currentReturnTypes`).
- `BlindTo`: the searches for imports do not look into deferred blocks, globals, a bare `|> print` or
  explanations in nested functions, nor at the `String` method generated for an enum.
- `UnreservedNames`: names declared in lambdas, handlers, `if` initialisers and the like are not reserved.
- A negative index writes its operand twice, and so calls it twice.

`NamesResolve` also says that nothing is declared twice; the programs of `MCCompiler` leave out two in
which something is: a piped switch used as a statement with a default in its handler, and a declaration
whose chain ends in a plain call behind a checked step (also left out by `Supported`, below).

Left out: named and default arguments, printf-style calls, the type parameters of the library's own
files, untyped composites, exhaustiveness of enums, security lints and directive checks, unused
variables, types of Go. An expression is identified by its value, not by the address of its node.

### LspServer

The read loop handles one notification at a time (`handler` is where it is); `documents` and
`debounceTimers` are the two maps; each `time.Timer` is armed, fired, has read its document, or is
spent. `publishDiagnostics` is two steps, the `Get` from the store and the `Notify` to the client, and
anything runs between them; a section under a mutex is one step. `shown` is what the client was last
sent. A text stands for itself and its diagnostics; texts are numbered in the order they come. The
connection is there before the first document (`s.conn` is assigned after the reader goroutine of
`NewConn` was started, see the hazards).

### Chains, OnErrChain, OnErrLowering

`Chains` is the data: a base, steps that return a value, a value and an error, or an error only, the
statement around them and the handler. `OnErrChain` is what the language promises of such a statement:
one call after the other, each with the value of the one before, and at the first error the handler
instead of the rest. `OnErrLowering` is what the generator does (`lowerOnErrPipeChain` and its
relatives in `lower.go`, `codegen_onerr.go`): one action per kind of step emits statements into `code`
or nests a call into `current`; then the code runs, each call that can fail failing or not. It is
checked to implement `OnErrChain` (`KeepsPromise`) for the chains of `Supported`, which leaves out the
chains for which the code does not keep the promise:

- a plain call in front of a check is pasted twice and made twice, and a plain call at the end of a
  chain that is assigned to `_` is not made at all;
- after a handler that does not leave the function, control goes on to the next step (finding
  `onerr_short_circuit`), so a default value can be overwritten;
- a declaration whose chain ends in a plain call behind a checked step declares its variable twice.

`ArgsAreOfTheChain` and `ErrorsInOrder` are checked without `Supported`: whatever is repeated, each
call gets the right argument, and calls that can fail are made once and in order.

Left out here, and covered by `Generator` as to names, jumps and calls, not as to results: piped `switch`,
several targets, `onerr` inside expressions, `onerr discard`.

### ForkJoin, Concurrent

`ForkJoin` is the promise of `stdlib/concurrent`: at most `limit` tasks run, the call returns when all
have ended, result `i` is that of task `i`. `Concurrent` is the code: the caller's loop with the send
to the semaphore, the goroutines, the deferred `wg.Done`. A task may end its goroutine
(`runtime.Goexit`, which is how a test stops); then `wg.Done` runs and the receive from the semaphore
does not. `Concurrent` refines `ForkJoin` (`KeepsPromise`), which is model-checked and proved. A panic,
which ends the program, and a negative limit, which panics in `make`, are left out.

### ProxyConstants, SeenStore, FileCache, Proxy

`Proxy` has one action per step of a handler between two accesses to shared state, so that requests
interleave as goroutines do; `SeenStore` is `seenDB` and `sqliteSeenStore` with their files,
`FileCache` the temporary name, the cached name and the inodes behind them. Upstream and the
vulnerability database answer anything or fail; time passes between any two steps; the process ends
anywhere, and after a signal the store is closed before the listener, as in `main`. History variables:
`clock` is the first time any request was given for a version, `lost` and `unsaved` say whether a
record was lost, respectively is not on disk. `FileCache` also states `CachedIsWhole`, what the
comment "atomic write" in the source promises; it does not hold when two requests have the temporary
name open at once (with three, also after one of them has renamed it), and `OnlySharedWritesTear`, which
is checked and proved, says that nothing else breaks it.

### ProjectFiles, Toolchain

`ProjectFiles` is the disk: `os.WriteFile` is a truncation and a write with other processes between
them, a file that was removed is written to no effect, and two writers of different contents may leave
a mixture. `Toolchain` is `init`, `build`, `run` and `brew`: compile, compare (`--if-changed`), write
the Go file, `ensureStdlib` with the stamp, the removal and the extraction, AGENTS.md and CLAUDE.md,
`ensureGoMod`, the Go tools. Any step may fail or be the last (`Stop`), and the user edits his files
(`Edit`). The histories `cut` and `raced` name the only ways in which the library or a text may be
lost; the properties say there are no others. Left out: `run`'s temporary file, `--wasm`,
`--vulncheck`, `--target`; whether the Go tools succeed is open.

### FormatterComments

`FormatterComments` is `kukicha fmt` with respect to comments. A program is the sequence of its nodes;
`kind` says what the walks of the formatter (attaching, printing) do with a node, and
the comment at the top of the module lists which constructs are of which kind. `order` and `notes` are
the parsed tree and `ExtractComments`; `idx` is `commentIdx`; `AttachLeading`, `PassBy` and
`AttachTrailing` are the recursive walk, with `open` for its call stack; `PrintTree` is
`PrinterWithComments`; `FormatAgain` formats the result. `KeptOnce` says exactly which comments are
dropped: those behind the last node the walk reaches (the end of the file, the specs of a last `const`
group, the cases of a last `enum`, the inside of a last `go` block), and those beside an enum header or a
top-level `var`.

A node takes the trailing comment on the line of one token, its position, and the printer writes that comment
behind the last line of the node. The token is on any of the node's lines: of a chain it is the last `|>`, which an
`onerr` block or the arguments of the last call leave in the middle. Where it is in the source (`pos` of a line)
and where it is printed (`lands`, on which of the `want` lines) are independent, since printing joins and breaks
chains. `Settled` says that no comment is beside a position that is printed elsewhere than on the node's last
line, and `Idempotent` says that a second pass changes nothing *exactly if* the file is settled. The files that
are not settled have a comment behind `go`, `defer` or `select`, behind a call or chain with an `onerr` block, or
behind the last `|>` of a chain that is joined because its last call gets its arguments on lines of their own
(`pipeExprToString`). There the first pass moves the comment behind the last line, and the second takes it
for another node's comment or drops it.

`want` and `lands` are the same in both passes. The second pass parses the tree of the first; the layout depends on
it, its widths and `WasMultiline`. A chain that was broken now has the mark, so it stays broken; one that was joined
because a stage has several lines still has that stage.

`FileOK` is what the parser guarantees of a file (`InputsAssumption`): nodes come in source order on
lines of their own, with the position on one of them, every comment is there once and on one line, only a `head`
has visited nodes inside, and what is inside a node is printed in the node's group. `Listed(S, before)` is the
elements of a set in an order: the comments by line, the tree by first line, the printed order by group and line.

Left out: blank lines, how the layout of an expression is chosen (the lines it is printed on
are given with the node), and `preprocessor.go`, which rewrites Go-style braces before scanning.

## Runs

Bounds are the constants of the `.cfg` files and of the MC modules. "states" are distinct states.

| run | module | states | what it shows |
|---|---|---|---|
| `lexer_layout` | MCLexer | 3.1 M | blocks balance, levels and closures are legal, brackets suspend layout, interpolations keep their braces |
| `tokenizer_chains` | MCTokenizer | 1.5 M | merging repays what it absorbs, never underflows, and ends |
| `parser` | MCParser | 1,004,659 | blocks are those of the layout, lines are statements, directives go to the next declaration, parsing ends |
| `compiler` | MCCompiler | 98 k | of 7,753 programs, those the analyzer accepts become code in which names resolve, jumps are legal, imports are right, calls are made once and added names are fresh, but for the places named |
| `lsp_server` | MCLspServer | 105 k | timers stay reachable, the handler publishes what is current, no change is lost; every text is reported in the end |
| `lsp_close` | MCLspServer | violation | a closed document can be left with diagnostics |
| `onerr_chains` | MCOnErr | 27 k | the lowering implements the promise for supported chains; Go accepts its code; arguments and errors are in order for all |
| `onerr_short_circuit` | MCOnErr | violation | a step is called after the handler ran |
| `concurrent` | MCConcurrent | 2.6 k | slots are accounted for, nothing runs after the return, `ForkJoin` is implemented, calls return |
| `proxy` | MCProxy | 778 k | nothing is served early, clocks start once and are saved, only shared writes tear a cached file |
| `toolchain` | MCToolchain | 1.8 M | the stamp vouches for the library, Go finds it, texts of the user survive, success means built |
| `formatter` | MCFormatter | 845 k | a comment is printed once, with its node, and a second pass leaves it there exactly if the file is settled |

Each module with variables defines its type invariant (`TypeOK`, `MergeTypeOK`); none is a property of a
run. Those of the scanner, the merging pass, the lowering, the language server, `Concurrent`, the proxy,
the commands and the formatter are theorems.

### Bounds, and why they are enough

- **Lexer.** A file has five to seven lexemes, of one of five profiles (`MCLexer`): indentation; block and
  literal braces; lists, literals and calls; closures in calls; strings. A profile has only the lexemes
  and leading spaces that act on each other, so files are long enough for two nested constructs to
  open, cross and close. What no profile combines is covered by the proofs, which know no bound.
- **Tokenizer.** Files of 6 lexemes, a chain with blocks around it or in it.
- **Parser.** Forty-two programs that between them use every construct and reach every procedure
  (`MCParser`), and each of them with one line gone, one token gone, or one token replaced by one of
  `Typed`: every production meets the tokens that belong to it, the end of the line, block or file too
  early, and a stranger at every place. Brackets and strings stay paired, as the lexer would lay out the
  rest of the file in another way otherwise.
- **Compiler.** Statements in contexts two deep, nineteen outside (every block, loop, function and handler)
  and eight inside: names used where they are declared, behind and beyond; errors by their names and
  aliases; jumps and returns; what needs an import; every chain and handler; names of the program that
  look like added ones; the other statements and expressions; imports with globals. A rule about scopes,
  jumps or returns relates a statement to one function and one block around it, which two contexts show.
- **LspServer.** Two documents, three timers (one armed, one fired, one that has read), two texts after
  which a document is closed or saved, one change without content. A document that misleads the client
  needs one replaced text and one late timer.
- **OnErr.** Every chain of a base and up to three steps, in every kind of statement with every kind of
  handler: a step, one before it and one after it, which is all the lowering looks at.
- **Concurrent.** Three tasks; no limit and every limit from 0 to 4.
- **Proxy.** Four scenarios (`MCProxy`): lists of two versions; requests that ask the vulnerability
  database with the hosted store; requests through the disk cache; a trusted module. Two requests at a
  time and two or three in all, one end of the process, a cooldown and a cache lifetime of one tick in
  two ticks: young, due and overdue all occur, on both sides of a restart. Four inodes are more than
  two requests can hold.
- **Toolchain.** Four scenarios (`MCToolchain`): commands of two versions, the newer without a file of
  the older, one after the other; commands of one version that overlap on the library, go.mod and
  AGENTS.md; builds and brews that overlap on the source and its Go file; commands of different versions
  that overlap: they remove each other's library and are promised nothing of it, but keep the texts.
  Two commands at a time, three in all, one edit.
- **Formatter.** A function of one or two statements, or another declaration, with what may stand in front and
  behind it, with or without a directive, and up to two comments in every position. The statements have one
  to three lines, their position on the first, the middle or the last, and are printed as they are, joined
  or broken, the position then again on any line. Attaching looks at one node and the next comment, so two
  comments show both an order and a comment left over.

Symmetry is used for requests, inodes and commands, in runs without liveness properties. Deadlock is
checked except where the system, or the bound, really stops: `concurrent` (limit 0, and slots lost to
tasks that end their goroutine, block the caller for good, which `Returns` says precisely), `proxy` and
`toolchain` (time, arrivals and commands run out), `formatter`, `parser` and `compiler` (they end).

### Fairness

- Scanner, merging pass, parser, lowering: sequential code that never blocks takes its next step (`WF`).
- Language server: a handler that was entered goes on, a timer fires, its goroutine runs. The client
  owes nothing, and `EveryTextIsReported` asks only for what is already pending.
- Concurrent: the Go scheduler runs the caller and every goroutine that can run, and a task ends.
- Proxy, Toolchain, FormatterComments, Compiler: safety only.

### Findings

1. `lsp_close`: a timer that has read a document can publish it after `didClose` has cleared its
   diagnostics (`internal/lsp/diagnostics.go:17`, against `server.go:243` and `:253`).
2. `onerr_short_circuit`: after a handler that does not leave, the chain goes on
   (`internal/codegen/lower.go:331`, against `.agent/skills/kukicha/SKILL.md:114`).

Some statements are defined in the modules, are known not to hold of the code, and no run checks them:

- `Lexer.PendingClosureOpens`: inside a call, a comment line between `=>` and an indented closure body makes
  the body a continuation line without INDENT (`internal/lexer/lexer.go:199`, the comment at `:46`).
- `Tokenizer.TokensKeepTheirBlocks`: absorbed INDENTs are repaid by the first DEDENT that comes, not by the
  corresponding one (`lexer.go:1213`, the comment at `:1202`).
- `Parser.NoCrash`: directives drained for an interface whose declaration failed are set on a nil
  declaration (`internal/parser/parser_decl.go:183-209`, `:303-306`).
- `Parser.ReturnTakesOnErr`: a `return` in a function literal does not take the expression form of `onerr`
  (`internal/parser/parser_expr.go:29-32`).
- `FileCache.CachedIsWhole`: see above.

## Proofs

The theorems hold for every value of the constants that satisfies the module's assumption
(`LexerAssumption`, `ServerAssumption`, `ConcurrentAssumption`, `NoneAssumption`, `FileAssumption`,
`ProxyAssumption`, `ToolchainAssumption`, `ProgramsAssumption`, `InputsAssumption`). They give types, and say
that the values for "nothing" and "torn" are not contents and that paths of different files differ;
`ProgramsAssumption` says that the chains are well formed, and `InputsAssumption` that the files are, as the
parser makes them. Files of any length, any number of
documents, timers, tasks, requests, commands and versions, and chains of any length are covered.

The library states induction over naturals and finite sets with an operator as a parameter, which the
provers cannot instantiate. Where a proof needs it, it takes a smallest counterexample instead
(`LeastElement`, from the well-foundedness of `<`).

**LexerProofs.** `TypeOK` is not inductive: a `}` that closes a block decrements `braceBlockDepth`, which
stays natural only because the braces on the stack are counted in it. `TypeInv` adds that (`Nesting`,
with the bottom of `indentStack` that is never popped and the equal heights of the closure stacks) and
is inductive. `BlocksBalance` needs counts over the token list: `CountAppend` and `CountPop` say what
emitting a token and popping a brace do to a count, and every action is shown to change both sides of
`BlockBalance` alike. `LevelsAreLegal` proves `IndentLevels` and `ClosureStacks` together, since the
DEDENT loop pops a closure exactly when it leaves the level of its body, which needs that open closures
are open levels and that both stacks increase; `ClosuresFollowTheirLevels` states the second alone.
`InterpolationsOwnTheirBraces` (`InterpolationOwnsBraces`) is about a sum over the open interpolations.
The community modules define it as a fold, in an order that nothing fixes; `SumsCommute` shows by a
smallest set that the order does not matter, and `SumAppend` and `SumCounted` what opening, closing and
counting a brace do to it. `IndentationIsForStatements` is the action property that brackets suspend layout.

**TokenizerProofs.** The merging pass looks at nothing but the tokens, so what it may rely on has to be
said of the scanner first: behind every token there is a depth, the number of indentation levels open
there (`Moves`). An INDENT behind a NEWLINE adds one, a DEDENT takes away at most one; the INDENTs and
DEDENTs of block braces do not count, so that the depth is at most the balance of the tokens so far; and
it is zero at the end (`Deep`, `Closed`; `KeywordOnLine` and `FreshLines` make it inductive). The
invariant of the pass (`Owing`) is that it owes no more DEDENTs than the depth at its position, that what
it left out is layout, and that the balance of what it left out is its debt. From it follow that the
result never closes a block it has not opened (`ResultOpensFirst`), that nothing is owed at the end
(`NothingIsOwed`), and that only layout is dropped (`OnlyLayoutIsDropped`).

**OnErrProofs.** Two invariants. One describes the code while it is made, without saying how: every
statement is in its place (`Placed`), and the expression at hand means, wherever it is evaluated, the
value of the chain so far (`Meaning`, `Leads`). The other describes the run: variables hold the values
of their steps (`Kept`), errors were met in order (`InOrder`), and every call got the value of the call
before it (`RightArgs`). They give `ArgumentsAreRight` and `ErrorsComeInOrder` for chains of any length, the
unsupported ones included. For supported chains, `OnceInv` adds that every call stands in the code once,
from which `LoweringIsGo` follows, and `PromiseInv` that the calls made are the first ones of the chain.
`LoweringKeepsPromise` is the refinement of `OnErrChain`: making the code and evaluating nested calls that
cannot fail map to steps or stutters, and each call of the run to the next call of the promise.

**LspServerProofs.** `TypeOK` is inductive, `ArmedIsInMap` and `HandlerIsCurrent` are inductive relative
to it. The three give the fact about a single step behind `DebouncingLosesNothing`: whoever takes away
the last promise to publish a document leaves the right diagnostics behind, except a timer overtaken
between its read and its publication.

**ConcurrentProofs.** The inductive invariant `IInv` counts: `wg` is the number of tasks whose goroutine
has not called `Done`, the semaphore holds the slots not given back, tasks start in order, results
belong to tasks that have finished. `WorkerMoves` says what moving one goroutine does to every count.
From it follow `TypesHold` (the counter of the wait group is never negative), `SlotsAccountedFor`,
`ReturnsQuiet`, and `ImplementsForkJoin`: the initial states map to initial states and each step to a
step or a stutter, where `RoomToRun` shows that a goroutine that begins finds fewer than `limit` active.

**ProxyProofs.** `Steps` says what a request at each place of its handler has read and holds, the mutex
included. `Clocks` bounds every record, in memory and on disk, by the clock of its version and by now, and
says that a record without a clock belongs to the request that holds the mutex. With them,
`ClockIsKept` (a clock that has started never changes, across restarts), `OneClock`, `ClockIsSaved` and
`CooldownIsKept` (`NeverServedEarly`: what passed the filter was ripe, and ripe versions stay so).
For the cache, `TmpIsOwn` (temporary names have inodes of their own) and `OneWriter` (an inode nobody
shared has one writer and is whole when it is renamed) give `OnlySharedFilesAreTorn`.

**ToolchainProofs.** `Steps` again says what a command at each place holds, which file it has open and
whether it is alone. The library: `LibraryHeld` says that a stamp with nobody at the cache, and a command
that extracts, vouch for every file of their version that is not still to come; it needs that commands
that overlap are of one version (`SameVersion`), or that the history says otherwise. `StampsVouch` and
`LibraryIsThere` follow. `TextSurvives` needs that a file has one writer unless commands met on it, that what a
command holds of a file is what the user wrote last, and, for `brew --remove-kuki`, that the source is
removed only once the Go file was made of it. `BuildBuilds` needs that a lone command's files are
torn only while it writes them.

**FormatterProofs.** The inductive invariant `FormatInv` says what each pass has made (`PassInv`): in the
first pass the text is the source, after it the text is what printing makes of the program with the comments that
belong to its nodes (`FirstPrint`), and after the second what the same makes of that text (`SecondPrint`). While
comments are attached, `WalkInv` says where the walk is. It needs no history of the walk: `commentIdx` alone tells
which comments are taken, since the comment it points to is the first that neither leads to a node already
reached (`LeadsTo`: below every earlier node of the walk, or beside one the node is inside of) nor is beside a
node already left (`Waits`: nothing the walk visits is inside the node). `Attached` says the same at the end:
the comments above a node are those that lead to it, in order, and the one behind it is the one on its line
if it waits. `LayOut` gives the place of every line that is printed. The theorems then compare places:

- `CommentsKeptOnce`: a comment leads to at most one node, or is beside at most one that waits, never both
  (`OneHome`), and there is one exactly if some node has a place for it (`HomeExists`).
- `CommentsTravel`: the next node below a comment is the one it leads to (`RightAbove`), a comment beside a
  leaf is the one the leaf waits for (`BesideLeaf`), and both are printed with the node.
- `FormattingIsIdempotent`: the printed order, printed again, is itself (`SameOrder`; what is inside a node
  stays behind it, `StaysNext`), what was inside a node still is (`NestingKept`), so that on the printed text
  the same comments lead to the same nodes (`LeadsAgain`). A comment that was printed behind the last line of a
  node is beside it again if the position was printed there (`BehindSame`), and otherwise never (`BehindLost`):
  hence the equivalence with `Settled`, for every place a position may have before and after (`SecondPrintSame`).

Sorting is `Listed`, which is shown to be the one increasing enumeration of a finite set under a total order
(`EnumerationIsListed`), and the printed text is a flattened sequence, whose positions `FlattenLaidOut` counts.

Only model-checked: liveness (`EventuallyTokenized`, `EveryTextIsReported`, `Returns`, `ParseEnds`), which is
out of the prover's reach; the properties of `Parser`, which are about whole token lists and have no
invariant shorter than the grammar; and those of `Compiler`, whose walks over trees are recursive operators,
which the prover does not take.

## Not modelled

The text of names, literals and diagnostics and the layout of generated code; what the sections above
list as left out; the formatter but for comments; the queries of the language server; `blend`; generated
registries and the generic signatures of the library; `pack`, `audit`, `check` and running from a URL
(straight sequences of external commands); the library packages other than `concurrent`, which are pure
functions, single requests, or wrappers of other programs. `PROJECT.json` names a reason for each.

## Plan

1. *Done.* Scanner and merging pass; parser; analyzer and generator, with the rules of Go; onerr lowering;
   language server; concurrent; proxy; commands; comments in the formatter; the proofs for scanner, merging
   pass, onerr lowering, language server, concurrent, proxy, commands and formatter.
2. Proofs: statement boundaries of `Parser`.
3. Piped switches and several targets in `OnErrLowering`, so that their results are compared too.
4. `blend.Apply`; `retry` with integers of a given width; transactions of `db`; blank lines in the formatter.
