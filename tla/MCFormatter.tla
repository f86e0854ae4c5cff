---------------------------- MODULE MCFormatter ----------------------------
(***************************************************************************)
(* The files of run formatter: a function whose body is one or two         *)
(* statements of every kind, or a declaration of another kind, between     *)
(* what may stand before it (petiole, skill, two imports in either order)  *)
(* and what may follow it, with up to two comments anywhere.               *)
(***************************************************************************)
EXTENDS FormatterComments

CONSTANTS c1, c2

\* A node as the file has it: on "size" lines, its position on line "pos".
Node(kind, depth, size, pos, want, lands) ==
  [kind |-> kind, depth |-> depth, size |-> size, pos |-> pos, want |-> want,
   lands |-> lands, group |-> 9]
Grouped(kind, group) == [Node(kind, 0, 1, 1, 1, 1) EXCEPT !.group = group]

Line(kind, d) == <<Node(kind, d, 1, 1, 1, 1)>>
Leaf(d)       == Line("leaf", d)
Section(d)    == Line("section", d)
Header(d)     == Line("head", d)

\* Statements on one line, printed on one or several: f(x), x := f(...) with
\* arguments on lines of their own, a |> f() that is broken.
OneLine(d) == { Leaf(d), <<Node("leaf", d, 1, 1, 2, 1)>>, <<Node("leaf", d, 1, 1, 2, 2)>> }

\* On two: a chain that stays broken or is joined, one whose last call gets its
\* arguments on lines of their own, and a go block.
TwoLines(d) ==
  { <<Node("leaf", d, 2, 2, 2, 2)>>, <<Node("leaf", d, 2, 2, 1, 1)>>,
    <<Node("leaf", d, 2, 2, 2, 1)>>, <<Node("leaf", d, 2, 1, 2, 1)>> }

\* On more: a chain with an onerr block, broken or joined; if with else.
Long(d) ==
  { <<Node("leaf", d, 3, 2, 3, 2)>>, <<Node("leaf", d, 3, 2, 2, 1)>>,
    Header(d) \o Leaf(d + 1) \o Section(d + 1) \o Leaf(d + 1) }

Statements(d) == OneLine(d) \cup TwoLines(d) \cup Long(d)

Bodies == Statements(1) \cup {s \o t : s \in Statements(1), t \in Statements(1)}

\* The header of a function, without and with a directive above it.
Func(body) == Header(0) \o body
Directed(body) == <<Node("head", 0, 2, 2, 2, 2)>> \o body

Var   == <<Node("mute", 0, 2, 1, 2, 1)>>
Enum  == Line("mute", 0) \o Section(1)
Const == Leaf(0) \o Section(1) \o Section(1)
Type  == Header(0) \o Leaf(1) \o Leaf(1)

Before == { <<>>,
            <<Grouped("leaf", 0), Grouped("section", 1)>>,
            <<Grouped("leaf", 3), Grouped("leaf", 2)>> }
After  == { <<>>, Var, Const }

Programs ==
       { Func(b) \o a : b \in Bodies, a \in {<<>>, Const} }
  \cup { b \o d \o a : b \in Before, a \in After \cup {Enum},
                       d \in {Func(Leaf(1)), Directed(Leaf(1)), Type, Enum, Const} }

----------------------------------------------------------------------------
(* Where the comments are: slot 2k - 1 is above line k, slot 2k behind it. *)

\* The lines of a program without comments.
CodeLines(p) ==
  FlattenSeq([n \in 1 .. Len(p) |->
                [j \in 1 .. p[n].size |->
                   [node |-> n, note |-> None, pos |-> j = p[n].pos]]])

\* What the parser makes of it.
Program(p) ==
  [n \in 1 .. Len(p) |-> [kind |-> p[n].kind, depth |-> p[n].depth, want |-> p[n].want,
                          lands |-> p[n].lands, group |-> p[n].group]]

With(lines, slot, c) ==
  LET k == (slot + 1) \div 2
  IN  IF slot % 2 = 0 THEN [lines EXCEPT ![k].note = c]
      ELSE SubSeq(lines, 1, k - 1) \o <<[node |-> 0, note |-> c, pos |-> FALSE]>>
             \o SubSeq(lines, k, Len(lines))

\* The lower comment first, so that the slots above stay where they are.
Commented(code) ==
  LET all == 1 .. 2 * Len(code) + 1
  IN  {code} \cup {With(code, s, c1) : s \in all}
      \cup {With(With(code, st[2], c2), st[1], c1) :
               st \in {st \in all \X all :
                         st[1] < st[2] \/ (st[1] = st[2] /\ st[1] % 2 = 1)}}

Files ==
  UNION {[program : {Program(p)}, lines : Commented(CodeLines(p))] : p \in Programs}

MCComments == {c1, c2}
=============================================================================
