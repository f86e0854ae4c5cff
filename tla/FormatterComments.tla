------------------------- MODULE FormatterComments -------------------------
(***************************************************************************)
(* `kukicha fmt`: how the comments of a file survive being formatted       *)
(* (internal/formatter).  The parser drops comments, so the formatter      *)
(* takes them from the tokens, gives each to a node of the tree by line    *)
(* number alone (AttachComments), and prints the tree with the comments    *)
(* the nodes carry.  What the walk over the tree does not reach, or what   *)
(* the printer does not ask for, is not printed.                           *)
(*                                                                         *)
(* A program is the sequence of its nodes in source order.  A node has a   *)
(* nesting depth, a kind, the group of the file it is printed in, the      *)
(* number of lines it is printed on ("want") and which of these has the    *)
(* token its position is taken from ("lands").  In a file that token is on *)
(* a line of its own choosing ("pos" of the line): of a call the closing   *)
(* parenthesis, of a pipe chain the last |>, which is the only line, the   *)
(* last, or one in the middle if its call or an onerr block goes on below; *)
(* and printing may join or break the chain, which moves it                *)
(* (ExpressionStmt.Pos, PipeExpr.Pos, pipeExprToString).  The kinds say    *)
(* what the formatter's walks (attaching, printing) do with a node:        *)
(*   head     a func, type or interface header, or an if, for or switch:   *)
(*            attached, and so are the nodes inside it                     *)
(*   leaf     attached; nothing inside it is (petiole, import, field,      *)
(*            method, const, type alias, any other statement: the walk     *)
(*            does not enter the blocks of go, defer, select, onerr and    *)
(*            closures)                                                    *)
(*   mute     attached, but its trailing comment is never printed (enum,   *)
(*            top-level var)                                               *)
(*   section  a line of its own that is no node of the walk (else, when,   *)
(*            otherwise, a const spec, an enum case, skill)                *)
(*                                                                         *)
(* Blank lines, indentation and wording are left out: they change neither  *)
(* the order of the lines nor which node takes a comment.                  *)
(***************************************************************************)
EXTENDS Naturals, Sequences, FiniteSets, SequencesExt

CONSTANTS Inputs,     \* the files: records [program, lines]
          Comments,   \* the comments
          None        \* no comment

Kinds == {"head", "leaf", "mute", "section"}

\* Node m of program p is inside node n.
Within(p, n, m) == n < m /\ \A k \in n + 1 .. m : p[k].depth > p[n].depth

\* The files the parser accepts: a line holds one node at most, the nodes come
\* in source order, each on lines of its own with its position on one of them,
\* and a comment is on one line.  Nothing the walk visits is inside a node other
\* than a head, and what is inside a node is printed in the node's group.
FileOK(p, lines) ==
  /\ p \in Seq([kind : Kinds, depth : Nat, want : Nat \ {0}, lands : Nat \ {0}, group : Nat])
  /\ lines \in Seq([node : 0 .. Len(p), note : Comments \cup {None}, pos : BOOLEAN])
  /\ \A n \in 1 .. Len(p) :
       \E l \in 1 .. Len(lines) :
         /\ lines[l].node = n /\ lines[l].pos
         /\ \A k \in 1 .. Len(lines) : lines[k].node = n /\ lines[k].pos => k = l
  /\ \A k, l \in 1 .. Len(lines) :
       /\ k < l /\ lines[l].node # 0 => lines[k].node <= lines[l].node
       /\ lines[k].note = lines[l].note /\ k # l => lines[k].note = None
  /\ \A n, m \in 1 .. Len(p) :
       Within(p, n, m) /\ p[n].kind # "section" /\ p[m].kind # "section" => p[n].kind = "head"
  /\ \A n \in 1 .. Len(p) :
       /\ p[n].lands <= p[n].want
       /\ p[n].depth > 0 => n > 1 /\ p[n].group = p[n - 1].group

ASSUME InputsAssumption ==
  /\ None \notin Comments
  /\ \A f \in Inputs : FileOK(f.program, f.lines)

VARIABLES
  program,   \* the nodes of the file
  source,    \* its lines when the first pass starts
  text,      \* its lines now; a line of node 0 holds only its comment
  order,     \* the nodes as the parser lists them
  notes,     \* the line numbers of the comments (ExtractComments)
  idx,       \* the first comment nothing has taken yet (commentIdx)
  at,        \* how many nodes of "order" the walk has reached
  open,      \* the nodes the walk is inside of
  leading,   \* node -> the comments printed above it
  trailing,  \* node -> the comment printed behind it
  phase,     \* read | attach | printed
  pass,      \* how many times the file has been formatted
  once       \* its lines after the first pass

vars == <<program, source, text, order, notes, idx, at, open, leading,
          trailing, phase, pass, once>>

----------------------------------------------------------------------------
(* Lines and positions                                                     *)

\* The nodes the walk attaches comments to.
Visited(n) == program[n].kind # "section"

FirstLine(lines, n) ==
  CHOOSE l \in DOMAIN lines :
    lines[l].node = n /\ \A k \in 1 .. l - 1 : lines[k].node # n

\* node.Pos().Line
PosLine(lines, n) == CHOOSE l \in DOMAIN lines : lines[l].node = n /\ lines[l].pos

\* The elements of a finite set in the order of a set of pairs.
Listed(S, before) ==
  [i \in 1 .. Cardinality(S) |->
     CHOOSE x \in S : Cardinality({y \in S : <<y, x>> \in before}) = i - 1]

\* The comment tokens, in the order of the file.
ExtractComments(lines) ==
  LET S == {l \in DOMAIN lines : lines[l].note # None}
  IN  Listed(S, {q \in S \X S : q[1] < q[2]})

\* The nodes of the parsed tree, in the order of the file.
Parsed(lines) ==
  LET S == {lines[l].node : l \in DOMAIN lines} \ {0}
  IN  Listed(S, {q \in S \X S : FirstLine(lines, q[1]) < FirstLine(lines, q[2])})

----------------------------------------------------------------------------
(* Printing                                                                *)

\* Petiole and skill, then the imports by bucket and path, then the
\* declarations as they were.
PrintOrder ==
  LET S == Range(order)
      Before(a, b) ==
        \/ program[a].group < program[b].group
        \/ /\ program[a].group = program[b].group
           /\ FirstLine(text, a) < FirstLine(text, b)
  IN  Listed(S, {q \in S \X S : Before(q[1], q[2])})

\* The trailing comment the printer asks for.
Behind(n) == IF program[n].kind = "mute" THEN None ELSE trailing[n]

\* The leading comments of a node, on lines of their own.
CommentLines(n) ==
  [i \in 1 .. Len(leading[n]) |-> [node |-> 0, note |-> leading[n][i], pos |-> FALSE]]

\* Mutant: the trailing comment is printed behind the first line.
NodeLinesBeside(n) ==
  [j \in 1 .. program[n].want |->
     [node |-> n, note |-> IF j = 1 THEN Behind(n) ELSE None, pos |-> j = program[n].lands]]

\* The lines of a node, the trailing comment behind the last one written.
NodeLines(n) ==
  [j \in 1 .. program[n].want |->
     [node |-> n, note |-> IF j = program[n].want THEN Behind(n) ELSE None,
      pos |-> j = program[n].lands]]

\* Mutant: the imports are sorted, the comments stay where they were.
PrintUnsorted ==
  LET printed == PrintOrder
  IN  FlattenSeq([i \in 1 .. Len(printed) |->
                    CommentLines(order[i]) \o NodeLines(printed[i])])

PrintProgram ==
  LET printed == PrintOrder
  IN  FlattenSeq([i \in 1 .. Len(printed) |->
                    CommentLines(printed[i]) \o NodeLines(printed[i])])

----------------------------------------------------------------------------
(* Formatting                                                              *)

Nodes == DOMAIN program

Init ==
  /\ \E f \in Inputs : program = f.program /\ source = f.lines
  /\ text = source /\ once = <<>>
  /\ order = <<>> /\ notes = <<>>
  /\ idx = 1 /\ at = 0 /\ open = <<>>
  /\ leading = [n \in Nodes |-> <<>>]
  /\ trailing = [n \in Nodes |-> None]
  /\ phase = "read" /\ pass = 0

\* Format: scan, take the comments out of the tokens, parse.
Read ==
  /\ phase = "read"
  /\ order' = Parsed(text)
  /\ notes' = ExtractComments(text)
  /\ idx' = 1 /\ at' = 0 /\ open' = <<>>
  /\ leading' = [n \in Nodes |-> <<>>]
  /\ trailing' = [n \in Nodes |-> None]
  /\ phase' = "attach"
  /\ UNCHANGED <<program, source, text, pass, once>>

\* How many of the comments not taken yet are on a line above l.
TakenAbove(l) == Cardinality({i \in idx .. Len(notes) : notes[i] < l})

\* The walk is done with node n when the next node is not inside it.
Inside(n) == at < Len(order) /\ program[order[at + 1]].depth > program[n].depth

Arriving ==
  /\ phase = "attach" /\ at < Len(order)
  /\ open # <<>> => Inside(Last(open))

\* Arrive at a node: every comment above its line that nothing has taken yet
\* is a leading comment of it, adjacent or not (attachLeadingComments).
AttachLeading ==
  /\ Arriving
  /\ LET n    == order[at + 1]
         upto == idx + TakenAbove(PosLine(text, n))
     IN  /\ Visited(n)
         /\ leading' = [leading EXCEPT ![n] =
                          [i \in 1 .. upto - idx |-> text[notes[idx + i - 1]].note]]
         /\ idx' = upto
         /\ open' = Append(open, n)
  /\ at' = at + 1
  /\ UNCHANGED <<program, source, text, order, notes, trailing, phase, pass, once>>

\* A line the walk has no node for takes nothing.
PassBy ==
  /\ Arriving
  /\ ~ Visited(order[at + 1])
  /\ at' = at + 1
  /\ UNCHANGED <<program, source, text, order, notes, idx, open, leading,
                 trailing, phase, pass, once>>

\* Mutant: the trailing comment is not counted as taken.
AttachTrailingAgain ==
  /\ phase = "attach"
  /\ open # <<>>
  /\ LET n      == Last(open)
         beside == idx <= Len(notes) /\ notes[idx] = PosLine(text, n)
     IN  /\ ~ Inside(n)
         /\ trailing' = IF beside THEN [trailing EXCEPT ![n] = text[notes[idx]].note]
                                  ELSE trailing
  /\ open' = Front(open)
  /\ UNCHANGED <<program, source, text, order, notes, idx, at, leading, phase, pass, once>>

\* Leave a node, the nodes inside it done: the next comment is its trailing
\* comment if it is on the node's own line (attachTrailingComment).
AttachTrailing ==
  /\ phase = "attach"
  /\ open # <<>>
  /\ LET n      == Last(open)
         beside == idx <= Len(notes) /\ notes[idx] = PosLine(text, n)
     IN  /\ ~ Inside(n)
         /\ trailing' = IF beside THEN [trailing EXCEPT ![n] = text[notes[idx]].note]
                                  ELSE trailing
         /\ idx' = IF beside THEN idx + 1 ELSE idx
  /\ open' = Front(open)
  /\ UNCHANGED <<program, source, text, order, notes, at, leading, phase, pass, once>>

\* Print the tree with the comments attached to it.
PrintTree ==
  /\ phase = "attach" /\ at = Len(order) /\ open = <<>>
  /\ text' = PrintProgram
  /\ once' = IF pass = 0 THEN text' ELSE once
  /\ pass' = pass + 1
  /\ phase' = "printed"
  /\ UNCHANGED <<program, source, order, notes, idx, at, open, leading, trailing>>

\* fmt --check, or fmt again, on what fmt wrote.
FormatAgain ==
  /\ phase = "printed" /\ pass = 1
  /\ phase' = "read"
  /\ UNCHANGED <<program, source, text, order, notes, idx, at, open, leading,
                 trailing, pass, once>>

Next == \/ Read \/ AttachLeading \/ PassBy \/ AttachTrailing \/ PrintTree \/ FormatAgain

Spec == Init /\ [][Next]_vars

----------------------------------------------------------------------------
(* Properties                                                              *)

TypeOK ==
  /\ \A l \in DOMAIN text :
       text[l].node \in Nodes \cup {0} /\ text[l].note \in Comments \cup {None}
  /\ idx \in 1 .. Len(notes) + 1
  /\ at \in 0 .. Len(order)
  /\ \A n \in Nodes :
       leading[n] \in Seq(Comments) /\ trailing[n] \in Comments \cup {None}
  /\ phase \in {"read", "attach", "printed"} /\ pass \in 0 .. 2

Formatted == phase = "printed" /\ pass = 1

LineOf(c) == CHOOSE l \in DOMAIN source : source[l].note = c
InSource == {source[l].note : l \in DOMAIN source} \ {None}
Copies(c) == Cardinality({l \in DOMAIN text : text[l].note = c})

\* Some node prints the comments of line l: the one that is on the line, if it
\* has a place for them, or else any node further down.
HasPlace(l) ==
  LET positions == {n \in Nodes : Visited(n) /\ PosLine(source, n) = l}
  IN  IF positions = {} THEN \E n \in Nodes : Visited(n) /\ PosLine(source, n) > l
      ELSE \E n \in positions : program[n].kind # "mute"

\* No comment is printed twice, and one is dropped only when it is behind the
\* last node of the file, or beside an enum header or a top-level var: a
\* comment inside a statement the walk does not enter moves to a later node,
\* however many nested blocks are closed in between (attachLeadingComments,
\* attachTrailingComment and their order in attachCommentsToBlock).
KeptOnce ==
  Formatted => \A c \in InSource : Copies(c) = IF HasPlace(LineOf(c)) THEN 1 ELSE 0

\* The node whose first line is the next line of code below line l, if any.
Below(lines, l) ==
  LET code == {k \in l + 1 .. Len(lines) : lines[k].node # 0}
  IN  IF code = {} THEN 0
      ELSE LET k == CHOOSE k \in code : \A j \in code : k <= j
               n == lines[k].node
           IN  IF k = FirstLine(lines, n) THEN n ELSE 0

\* The comment beside the position of a node is its trailing comment and printed:
\* a comment beside a head goes to the first node inside it.
TakesTrailing(n) ==
  /\ Visited(n) /\ program[n].kind # "mute"
  /\ \A m \in Nodes : Within(program, n, m) => ~ Visited(m)

\* A comment goes where its node goes: one right above a node is printed right
\* above that node, and one beside its position stays beside the node, also
\* when the imports change places and when the lines in between are joined or
\* broken (printImportsWithComments, printLeadingComments).
TravelsWithNode ==
  Formatted =>
    \A c \in InSource :
      LET l == LineOf(c)
          n == IF source[l].node = 0 THEN Below(source, l) ELSE source[l].node
      IN  \/ n = 0 \/ ~ Visited(n)
          \/ IF source[l].node = 0
             THEN \E k \in DOMAIN text :
                    text[k].node = 0 /\ text[k].note = c /\ Below(text, k) = n
             ELSE l = PosLine(source, n) /\ TakesTrailing(n) =>
                    \E k \in DOMAIN text : text[k].node = n /\ text[k].note = c

\* No comment is beside the position of a node whose position is printed on
\* another line than its last: that comment is printed behind the last line,
\* where the next pass takes it for another node's.  So it is with a comment
\* behind go, defer or select, behind a call or chain with an onerr block, and
\* behind the last |> of a chain that is printed joined, with the arguments of a
\* call on lines of their own.
Settled ==
  \A n \in Nodes :
    TakesTrailing(n) /\ source[PosLine(source, n)].note # None
      => program[n].lands = program[n].want

\* Formatting a formatted file changes nothing exactly if the file was settled:
\* then fmt --check accepts what fmt wrote, and otherwise it does not
\* (FormatCheck; formatter_property_test.go asks it of a set of files).
Idempotent == phase = "printed" /\ pass = 2 => (text = once <=> Settled)

=============================================================================
