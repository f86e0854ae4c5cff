------------------------------- MODULE GoCode -------------------------------
(***************************************************************************)
(* Go source as the sequence of its scopes, declarations, uses and jumps,  *)
(* and the rules of the Go compiler about them: what it is that generated  *)
(* code has to satisfy.  Types and unused variables are left out.          *)
(***************************************************************************)
EXTENDS SequencesExt, Integers, FiniteSets

Event(op, kind, n, names) == [op |-> op, kind |-> kind, n |-> n, names |-> names]
\* Scopes: "func" (n results), "loop", "switch" (also select) and "block".
OpenScope(kind, n) == Event("open", kind, n, <<>>)
CloseScope == Event("close", "", 0, <<>>)
Declare(names) == Event("declare", ":=", 0, names)
Var(names) == Event("declare", "var", 0, names)        \* also parameters
Use(name) == Event("use", "", 0, <<name>>)
Jump(kind) == Event("jump", kind, 0, <<>>)
\* Unknowable: the one value is a call of unknown results.
Unknowable == 99
Returning(n) == Event("jump", "return", n, <<>>)
Goto(label) == Event("goto", "", 0, <<label>>)
Label(name) == Event("label", "", 0, <<name>>)
Malformed == Event("malformed", "", 0, <<>>)           \* not Go at all

Predeclared == {"print", "len", "append", "delete", "min", "max", "panic", "close", "make", "recover"}

Frame(kind, n) == [kind |-> kind, n |-> n, names |-> {}, gotos |-> {}]
Err(c, what) == [c EXCEPT !.errors = @ \union {what}]

Depth(c) == Len(c.frames)
Visible(c, n) == n \in Predeclared \/ \E i \in DOMAIN c.frames : n \in c.frames[i].names

\* A jump does not leave the function it stands in.
FunctionFrames(c) == {i \in DOMAIN c.frames : c.frames[i].kind = "func"}
Around(c) ==
  {c.frames[i].kind : i \in {j \in DOMAIN c.frames : \A k \in FunctionFrames(c) : j > k}}
Results(c) == c.frames[CHOOSE i \in FunctionFrames(c) : \A j \in FunctionFrames(c) : j <= i].n

\* := declares what is not yet declared here and needs one such name; var needs all to be new.
Declares(c, e) ==
  LET names == ToSet(e.names) \ {"_"}
      new == names \ Last(c.frames).names
      legal == IF e.kind = "var" THEN new = names /\ Cardinality(names) = Len(SelectSeq(e.names, LAMBDA n : n # "_"))
                                 ELSE new # {}
      c1 == IF legal THEN c ELSE Err(c, <<"redeclared", e.names[1]>>)
  IN [c1 EXCEPT !.frames[Depth(c)].names = @ \union new,
                !.gotos = {[g EXCEPT !.over = @ \union {Depth(c)}] : g \in c.gotos}]

Jumps(c, e) ==
  LET legal == CASE e.kind = "break"    -> Around(c) \intersect {"loop", "switch"} # {}
                 [] e.kind = "continue" -> "loop" \in Around(c)
                 [] e.kind = "return"   -> e.n \in {Results(c), Unknowable}
  IN IF legal THEN c ELSE Err(c, <<e.kind, "">>)

\* A label is gone to, and no declaration of its block is jumped over.
Labels(c, name) ==
  LET to == {g \in c.gotos : g.label = name} IN
  CASE to = {} -> Err(c, <<"unused label", "">>)
    [] \E g \in to : Depth(c) \in g.over -> Err(c, <<"goto", "">>)
    [] OTHER -> c

\* Labels are those of one function.
Closes(c) ==
  [c EXCEPT !.frames = Front(@),
            !.gotos = IF Last(c.frames).kind = "func" THEN Last(c.frames).gotos
                      ELSE {[g EXCEPT !.over = @ \ {Depth(c)}] : g \in c.gotos}]
Opens(c, e) ==
  [c EXCEPT !.frames = Append(@, [Frame(e.kind, e.n) EXCEPT !.gotos = c.gotos]),
            !.gotos = IF e.kind = "func" THEN {} ELSE @]

Check(c, e) ==
  CASE e.op = "open"    -> Opens(c, e)
    [] e.op = "close"   -> Closes(c)
    [] e.op = "declare" -> Declares(c, e)
    [] e.op = "use"     -> IF Visible(c, e.names[1]) THEN c ELSE Err(c, <<"undefined", e.names[1]>>)
    [] e.op = "jump"    -> Jumps(c, e)
    [] e.op = "goto"    -> [c EXCEPT !.gotos = @ \union {[label |-> e.names[1], over |-> {}]}]
    [] e.op = "label"   -> Labels(c, e.names[1])
    [] e.op = "malformed" -> Err(c, <<"syntax", "">>)

\* What Go has to say of code, given the names its package and its imports declare.
GoErrors(code, package) ==
  FoldLeft(Check, [frames |-> <<[Frame("file", 0) EXCEPT !.names = package]>>, gotos |-> {}, errors |-> {}], code).errors

UsedNames(code) == {code[i].names[1] : i \in {j \in DOMAIN code : code[j].op = "use"}}
==============================================================================
