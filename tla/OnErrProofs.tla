---------------------------- MODULE OnErrProofs ----------------------------
(***************************************************************************)
(* Proofs about the lowering of pipe chains with an onerr clause, for      *)
(* every chain of every length.                                            *)
(*                                                                         *)
(* The code of a chain is described without saying how it was made: every  *)
(* statement checks a step that can fail, in the order of the chain; its   *)
(* argument reads a variable that an earlier statement has assigned, and   *)
(* the plain calls nested around it lead from there to the value that the  *)
(* step is to be given (Meaning).                                          *)
(***************************************************************************)
EXTENDS OnErrLowering, SequenceTheorems, WellFoundedInduction, TLAPS

(***************************************************************************)
(* Chains.                                                                 *)
(***************************************************************************)

(* A set of naturals has a least element. *)
LEMMA LeastElement ==
  ASSUME NEW T \in SUBSET Nat, T # {}
  PROVE  \E x \in T : \A y \in T : x <= y
<1> DEFINE R == {ss \in Nat \X Nat : ss[1] < ss[2]}
<1>1. IsWellFoundedOn(R, Nat)
  BY NatLessThanWellFounded DEF OpToRel
<1>2. \E x \in T : \A y \in T : <<y, x>> \notin R
  BY <1>1, WFMin
<1>3. ASSUME NEW x \in T, NEW y \in T, <<y, x>> \notin R
      PROVE  x <= y
  <2>1. x \in Nat /\ y \in Nat
    OBVIOUS
  <2>2. <<y, x>> \in Nat \X Nat /\ <<y, x>>[1] = y /\ <<y, x>>[2] = x
    BY <2>1
  <2>3. ~(y < x)
    BY <1>3, <2>2
  <2> QED BY <2>1, <2>3
<1> QED BY <1>2, <1>3

IsChain(c) ==
  /\ c \in [base : BaseKinds, steps : Seq(StepKinds), form : Forms, handler : Handlers]
  /\ WellTyped(c)

(* What a chain consists of. *)
LEMMA ChainTypes ==
  ASSUME NEW c, IsChain(c)
  PROVE  /\ c.base \in BaseKinds /\ c.form \in Forms /\ c.handler \in Handlers
         /\ c.steps \in Seq(StepKinds)
         /\ LastStep(c) \in Nat
         /\ First(c) \in {0, 1}
         /\ \A k \in 1 .. LastStep(c) : Kind(c, k) = c.steps[k] /\ Kind(c, k) \in StepKinds
         /\ Kind(c, 0) = c.base
         /\ c.base = "check" => LastStep(c) = 0 /\ c.form = "stmt"
<1>1. /\ c.base \in BaseKinds /\ c.form \in Forms /\ c.handler \in Handlers
      /\ c.steps \in Seq(StepKinds)
  BY DEF IsChain
<1>2. LastStep(c) \in Nat
  BY <1>1, LenProperties DEF LastStep
<1>3. ASSUME NEW k \in 1 .. LastStep(c)
      PROVE  Kind(c, k) = c.steps[k] /\ Kind(c, k) \in StepKinds
  <2>1. k # 0 /\ k \in DOMAIN c.steps
    BY <1>1, <1>2, LenProperties DEF LastStep
  <2> QED BY <1>1, <2>1, ElementOfSeq, LenProperties DEF Kind
<1> QED BY <1>1, <1>2, <1>3 DEF First, Kind, IsChain, WellTyped

(* The value of step j reaches step k. *)
Reaches(c, j, k) ==
  /\ j \in 0 .. k - 1 /\ Kind(c, j) # "check"
  /\ \A m \in j + 1 .. k - 1 : Kind(c, m) = "check"

(* At most one call in front of a step reaches it with its value, the one ValueBefore names. *)
LEMMA ReachesOnce ==
  ASSUME NEW c, NEW k \in Nat, k > 0, NEW j, Reaches(c, j, k)
  PROVE  ValueBefore(c, k) = j
<1>1. \A h \in 0 .. k - 1 : Reaches(c, h, k) => h = j
  <2> SUFFICES ASSUME NEW h \in 0 .. k - 1, Reaches(c, h, k), h # j PROVE FALSE
    OBVIOUS
  <2>1. h \in j + 1 .. k - 1 \/ j \in h + 1 .. k - 1
    BY DEF Reaches
  <2> QED BY <2>1 DEF Reaches
<1>2. ValueBefore(c, k) = CHOOSE h \in 0 .. k - 1 :
                            /\ Kind(c, h) # "check"
                            /\ \A m \in h + 1 .. k - 1 : Kind(c, m) = "check"
  BY DEF ValueBefore
<1>3. j \in 0 .. k - 1 /\ Kind(c, j) # "check" /\ \A m \in j + 1 .. k - 1 : Kind(c, m) = "check"
  BY DEF Reaches
<1>4. \A h \in 0 .. k - 1 :
        Kind(c, h) # "check" /\ (\A m \in h + 1 .. k - 1 : Kind(c, m) = "check") => h = j
  BY <1>1 DEF Reaches
<1> QED BY <1>2, <1>3, <1>4

(* A value reaches every step, if the base is one. *)
LEMMA SomeValue ==
  ASSUME NEW c, Kind(c, 0) # "check", NEW k \in Nat, k > 0
  PROVE  Reaches(c, ValueBefore(c, k), k)
<1> DEFINE T == {m \in Nat : m > 0 /\ ~\E j : Reaches(c, j, m)}
<1>1. SUFFICES T = {}
  <2>1. \E j : Reaches(c, j, k)
    BY <1>1
  <2> QED BY <2>1, ReachesOnce
<1>2. SUFFICES ASSUME T # {} PROVE FALSE
  OBVIOUS
<1>3. PICK x \in T : \A y \in T : x <= y
  BY <1>2, LeastElement
<1>4. CASE x = 1
  <2>1. Reaches(c, 0, 1)
    BY DEF Reaches
  <2> QED BY <1>3, <1>4, <2>1
<1>5. CASE x > 1
  <2>1. x - 1 \in Nat /\ x - 1 > 0 /\ ~(x <= x - 1)
    BY <1>3, <1>5
  <2>2. PICK j : Reaches(c, j, x - 1)
    BY <1>3, <2>1
  <2>3. CASE Kind(c, x - 1) = "check"
    <3>1. Reaches(c, j, x)
      <4>1. j \in 0 .. x - 1
        BY <1>3, <1>5, <2>2 DEF Reaches
      <4>2. \A m \in j + 1 .. x - 1 : m = x - 1 \/ m \in j + 1 .. (x - 1) - 1
        BY <1>3, <1>5, <4>1
      <4> QED BY <2>2, <2>3, <4>1, <4>2 DEF Reaches
    <3> QED BY <1>3, <3>1
  <2>4. CASE Kind(c, x - 1) # "check"
    <3>1. Reaches(c, x - 1, x)
      BY <1>3, <1>5, <2>4 DEF Reaches
    <3> QED BY <1>3, <3>1
  <2> QED BY <2>3, <2>4
<1> QED BY <1>3, <1>4, <1>5

(* One step further. *)
LEMMA ValueNext ==
  ASSUME NEW c, NEW k \in Nat
  PROVE  /\ Kind(c, k) # "check" => ValueBefore(c, k + 1) = k
         /\ Kind(c, k) = "check" /\ k > 0 /\ Kind(c, 0) # "check" =>
              ValueBefore(c, k + 1) = ValueBefore(c, k)
<1>1. ASSUME Kind(c, k) # "check"
      PROVE  ValueBefore(c, k + 1) = k
  <2>1. Reaches(c, k, k + 1)
    BY <1>1 DEF Reaches
  <2> QED BY <2>1, ReachesOnce
<1>2. ASSUME Kind(c, k) = "check", k > 0, Kind(c, 0) # "check"
      PROVE  ValueBefore(c, k + 1) = ValueBefore(c, k)
  <2>1. PICK j : j = ValueBefore(c, k)
    OBVIOUS
  <2>2. Reaches(c, j, k)
    BY <1>2, <2>1, SomeValue
  <2>3. Reaches(c, j, k + 1)
    <3>1. j \in 0 .. k
      BY <2>2 DEF Reaches
    <3>2. \A m \in j + 1 .. (k + 1) - 1 : m = k \/ m \in j + 1 .. k - 1
      BY <3>1
    <3> QED BY <1>2, <2>2, <3>1, <3>2 DEF Reaches
  <2> QED BY <2>1, <2>3, ReachesOnce
<1> QED BY <1>1, <1>2

(***************************************************************************)
(* The invariant.  Everything is stated of a chain and its code, not of    *)
(* the variables, so that the lemmas about it speak of both sides of a     *)
(* step.                                                                   *)
(***************************************************************************)
Expr(c) == [from : Names(c), nested : Seq(0 .. LastStep(c))]
Value(c) == Default .. LastStep(c)
Statement(c) == [step : {NoValue} \cup 0 .. LastStep(c), arg : Expr(c),
                 to : Names(c), handles : {Target, Blank}]

InputValue(c) == IF c.base = "input" THEN 0 ELSE NoValue

(* A variable holds the value of step b before statement p of the code s. *)
Holds(c, s, v, b, p) ==
  \/ v = Input /\ b = InputValue(c)
  \/ \E q \in 1 .. p - 1 : s[q].step = b /\ b \in 0 .. LastStep(c)
                           /\ Kind(c, b) = "fallible" /\ s[q].to = v

(* What the first m nested calls of an expression make of b. *)
Made(e, b, m) == IF m = 0 THEN b ELSE e.nested[m]

(* The chain does give step k a value. *)
Valued(c, k) == k >= First(c) /\ (c.base = "check" => k = 0)

(* From b, the calls of expression e lead to the value that step k is given. *)
Leads(c, e, b, k) ==
  /\ \A m \in 1 .. Len(e.nested) :
       /\ e.nested[m] \in 0 .. k - 1
       /\ Kind(c, e.nested[m]) = "plain"
       /\ ValueBefore(c, e.nested[m]) = Made(e, b, m - 1)
  /\ Valued(c, k) => ValueBefore(c, k) = Made(e, b, Len(e.nested))

(* Expression e, before statement p, is what step k is given. *)
Meaning(c, s, e, k, p) == \E b \in {NoValue} \cup 0 .. LastStep(c) :
                            Holds(c, s, e.from, b, p) /\ Leads(c, e, b, k)

TargetOf(c) == IF HasTarget(c) THEN Target ELSE Blank

(* The step after a statement, the end of the chain for the last assignment. *)
For(c, t) == IF t.step = NoValue THEN LastStep(c) + 1 ELSE t.step

(* What lowering the first j steps may emit. *)
Emitted(c, t, j) ==
  \/ /\ t.step = NoValue /\ t.to = TargetOf(c) /\ t.handles = Blank
     /\ LastStep(c) > 0
     /\ c.form = "decl" => t.arg # Variable(Target)
  \/ /\ t.step \in 0 .. j - 1 /\ CanFail(c, t.step)
     /\ t.to = IF Kind(c, t.step) = "fallible" THEN VarOf(c, t.step) ELSE Blank
     /\ t.handles = HandlerNames(c, t.to)

Placed(c, j, s, o, p) ==
  /\ Emitted(c, s[p], j)
  /\ Len(s[p].arg.nested) <= LastStep(c) + 1
  /\ Meaning(c, s, s[p].arg, For(c, s[p]), p)
  /\ s[p].step = NoValue => o # "lowering" /\ p = Len(s)
  /\ \A q \in 1 .. p - 1 : For(c, s[q]) < For(c, s[p])

AllPlaced(c, j, s, o) == \A p \in 1 .. Len(s) : Placed(c, j, s, o, p)

(* The code s and the expression e after the first j steps of c; the    *)
(* outcome says whether the end was lowered, too.                          *)
CodeInv(c, j, e, s, o) ==
  /\ j \in 0 .. LastStep(c) + 1 /\ (o # "lowering" => j = LastStep(c) + 1)
  /\ e \in Expr(c) /\ Len(e.nested) <= j
  /\ s \in Seq(Statement(c))
  /\ j = 0 => e = Variable(Input)
  /\ Meaning(c, s, e, j, Len(s) + 1)
  /\ AllPlaced(c, j, s, o)
  /\ o # "lowering" /\ HasTarget(c) /\ (\A p \in 1 .. Len(s) : s[p].step # NoValue) =>
       e = Variable(Target)

(* The step whose call was the last before statement p. *)
Reached(c, s, p) == IF p = 1 THEN First(c) - 1
                    ELSE IF s[p - 1].step = NoValue THEN LastStep(c) ELSE s[p - 1].step

(* An expression nests the calls between two steps, each once. *)
Covers(e, low, high) ==
  /\ low + Len(e.nested) + 1 = high
  /\ \A m \in 1 .. Len(e.nested) : e.nested[m] = low + m

(* The code of a supported chain calls every step once, in order, and uses *)
(* every temporary.                                                        *)
AllOnce(c, s) ==
  \A p \in 1 .. Len(s) : Covers(s[p].arg, Reached(c, s, p), For(c, s[p]))

AllUsed(e, s, o) ==
  \A p \in 1 .. Len(s) :
    s[p].to \in Nat => \/ \E q \in p + 1 .. Len(s) : s[q].arg.from = s[p].to
                       \/ o = "lowering" /\ e.from = s[p].to

OnceInv(c, j, e, s, o) ==
  /\ AllOnce(c, s)
  /\ AllUsed(e, s, o)
  /\ j < First(c) => s = <<>>
  /\ o = "lowering" /\ j >= First(c) => Covers(e, Reached(c, s, Len(s) + 1), j)
  /\ o # "lowering" => Reached(c, s, Len(s) + 1) = LastStep(c)

(* The values of the steps before statement p are in their variables. *)
Kept(c, s, p, st) ==
  \A q \in 1 .. p - 1 : Kind(c, s[q].step) = "fallible" => st[s[q].to] = s[q].step

(* The calls made before statement p: those that can fail are its steps;   *)
(* they come in order; and every call is given the value of its chain.     *)
Seen(c, s, p, cs) ==
  \A x \in 1 .. Len(cs) : CanFail(c, cs[x].step) => \E r \in 1 .. p - 1 : s[r].step = cs[x].step

InOrder(c, cs) ==
  \A x, y \in 1 .. Len(cs) :
    x < y /\ CanFail(c, cs[x].step) /\ CanFail(c, cs[y].step) => cs[x].step < cs[y].step

RightArgs(c, cs) == \A x \in 1 .. Len(cs) : cs[x].arg = ValueBefore(c, cs[x].step)

(* The assignment at the end was made. *)
Assigned == pc > 1 /\ code[pc - 1].step = NoValue

RunTypes ==
  /\ pc \in 1 .. Len(code) + 1
  /\ nested \in Nat
  /\ pc <= Len(code) => nested <= Len(code[pc].arg.nested)
  /\ pc = Len(code) + 1 => nested = 0
  /\ store \in [Names(chain) -> Value(chain)]
  /\ calls \in Seq([step : 0 .. LastStep(chain), arg : Value(chain)])
  /\ outcome \in {"lowering", "running", "handled", "left", "done"}

RunInv ==
  /\ RunTypes
  /\ outcome = "lowering" => pc = 1 /\ nested = 0 /\ calls = <<>>
  /\ store[Input] = InputValue(chain)
  /\ chain.handler = "leave" => outcome # "handled" /\ RightArgs(chain, calls)
  /\ outcome = "running" /\ ~Assigned => Kept(chain, code, pc, store)
  /\ Seen(chain, code, pc, calls)
  /\ InOrder(chain, calls)

Phase == IF outcome = "lowering" THEN "lowering" ELSE "running"

OnErrInv ==
  /\ IsChain(chain)
  /\ CodeInv(chain, i, current, code, Phase)
  /\ RunInv

(* And of a supported chain: the next call is the next step's, an error is *)
(* that of the last, and the target has the value that is promised.        *)
PromiseInv ==
  /\ outcome \in {"lowering", "running"} =>
       First(chain) + Len(calls) = Reached(chain, code, pc) + 1 + nested
  /\ outcome = "handled" => Reached(chain, code, pc) = LastStep(chain)
  /\ ~HasTarget(chain) => store[Target] = Old
  /\ outcome = "running" /\ Assigned /\ HasTarget(chain) =>
       store[Target] = ValueBefore(chain, LastStep(chain) + 1)
  /\ outcome = "handled" /\ chain.handler = "default" /\ HasTarget(chain) =>
       pc = Len(code) + 1 /\ store[Target] = Default

SupportedInv ==
  Supported(chain) => OnceInv(chain, i, current, code, Phase) /\ PromiseInv

(***************************************************************************)
(* Variables.                                                              *)
(***************************************************************************)

(* The last step that returns a value and an error is one of them. *)
LEMMA LastErrStepIsLast ==
  ASSUME NEW c, IsChain(c), NEW h \in Steps(c), c.steps[h] = "fallible"
  PROVE  /\ LastErrStep(c) \in Steps(c) /\ c.steps[LastErrStep(c)] = "fallible"
         /\ h <= LastErrStep(c)
<1> DEFINE E == {k \in Steps(c) : c.steps[k] = "fallible"}
           n == LastStep(c)
           T == {m \in Nat : m <= n /\ n - m \in E}
<1>1. n \in Nat /\ h \in 1 .. n
  BY ChainTypes DEF Steps
<1>2. n - h \in T
  <2>1. n - (n - h) = h /\ n - h \in Nat /\ n - h <= n
    BY <1>1
  <2> QED BY <2>1
<1>3. PICK m \in T : \A y \in T : m <= y
  BY <1>2, LeastElement
<1>4. \A j \in E : j <= n - m
  <2> TAKE j \in E
  <2>1. j \in 1 .. n
    BY DEF Steps
  <2>2. n - (n - j) = j /\ n - j \in Nat /\ n - j <= n
    BY <1>1, <2>1
  <2>3. n - j \in T
    BY <2>2
  <2> QED BY <1>1, <1>3, <2>1, <2>3
<1>5. E # {} /\ n - m \in E
  BY <1>3
<1>6. LastErrStep(c) = CHOOSE k \in E : \A j \in E : j <= k
  BY <1>5 DEF LastErrStep
<1>7. LastErrStep(c) \in E /\ \A j \in E : j <= LastErrStep(c)
  BY <1>4, <1>5, <1>6
<1> QED BY <1>7

(* A chain none of whose steps can fail with a value has no last one. *)
LEMMA NoErrStep ==
  ASSUME NEW c, \A h \in Steps(c) : c.steps[h] # "fallible"
  PROVE  LastErrStep(c) = -1
<1>1. {k \in Steps(c) : c.steps[k] = "fallible"} = {}
  OBVIOUS
<1> QED BY <1>1 DEF LastErrStep

(* A step that returns a value and an error has a variable of its own. *)
LEMMA VarTypes ==
  ASSUME NEW c, IsChain(c), NEW k \in 0 .. LastStep(c)
  PROVE  /\ VarOf(c, k) \in {Target, Blank, k}
         /\ VarOf(c, k) \in Names(c) /\ VarOf(c, k) # Input
         /\ VarOf(c, k) = Blank => LastStep(c) = 0
         /\ VarOf(c, k) = Target => HasTarget(c)
         /\ VarOf(c, k) \in Nat => LastStep(c) > 0 /\ VarOf(c, k) = k
<1>1. LastStep(c) \in Nat
  BY ChainTypes
<1>2. VarOf(c, k) \in {Target, Blank, k}
  BY DEF VarOf
<1> QED BY <1>1, <1>2 DEF VarOf, Names, Input, Target, Blank, HasTarget

(* Every checked step has a variable of its own (uniqueId). *)
LEMMA VarsDiffer ==
  ASSUME NEW c, IsChain(c), NEW k \in 0 .. LastStep(c), NEW h \in 0 .. LastStep(c),
         Kind(c, k) = "fallible", Kind(c, h) = "fallible", VarOf(c, k) = VarOf(c, h)
  PROVE  k = h
<1> DEFINE n == LastStep(c)
<1>1. n \in Nat
  BY ChainTypes
<1>2. CASE n = 0
  BY <1>1, <1>2
<1>3. CASE n > 0
  <2>1. SUFFICES ASSUME k # h PROVE FALSE
    OBVIOUS
  <2>2. VarOf(c, k) = Target /\ VarOf(c, h) = Target
    <3>1. VarOf(c, k) \in {Target, k} /\ VarOf(c, h) \in {Target, h}
      BY <1>1, <1>3, VarTypes
    <3> QED BY <1>1, <2>1, <3>1 DEF Target
  <2> DEFINE Last(x) == x > 0 /\ x = LastErrStep(c)
             Alone(x) == x = 0 /\ \A j \in Steps(c) : c.steps[j] = "check"
  <2>3. (Last(k) \/ Alone(k)) /\ (Last(h) \/ Alone(h))
    BY <1>3, <2>2 DEF VarOf, Target
  <2>4. ASSUME NEW x \in 0 .. n, Last(x), Kind(c, x) = "fallible", NEW y, Alone(y)
        PROVE  FALSE
    <3>1. x \in Steps(c) /\ c.steps[x] = "fallible"
      BY <1>1, <2>4, ChainTypes DEF Steps
    <3> QED BY <2>4, <3>1
  <2> QED BY <2>1, <2>3, <2>4
<1> QED BY <1>1, <1>2, <1>3

(* The variable of a step is the target's where that is declared. *)
LEMMA TargetVar ==
  ASSUME NEW c, IsChain(c), NEW k \in 0 .. LastStep(c), VarOf(c, k) = Target, LastStep(c) > 0
  PROVE  /\ c.form = "decl"
         /\ \/ k > 0 /\ k = LastErrStep(c)
            \/ k = 0 /\ \A j \in Steps(c) : c.steps[j] = "check"
BY ChainTypes DEF VarOf, Target

(***************************************************************************)
(* The lowering keeps CodeInv.                                             *)
(***************************************************************************)

(* Code that is longer says the same of what stood before it. *)
LEMMA MeaningStays ==
  ASSUME NEW c, NEW s, NEW t, NEW e, NEW k, NEW p \in Nat, NEW q \in Nat, p <= q,
         \A r \in 1 .. p - 1 : t[r] = s[r],
         Meaning(c, s, e, k, p)
  PROVE  Meaning(c, t, e, k, q)
<1>1. PICK b \in {NoValue} \cup 0 .. LastStep(c) : Holds(c, s, e.from, b, p) /\ Leads(c, e, b, k)
  BY DEF Meaning
<1>2. Holds(c, t, e.from, b, q)
  <2>1. 1 .. p - 1 \subseteq 1 .. q - 1
    OBVIOUS
  <2> QED BY <1>1, <2>1 DEF Holds
<1> QED BY <1>1, <1>2 DEF Meaning

(* A statement that is in its place stays there when others are appended. *)
LEMMA PlacedStays ==
  ASSUME NEW c, IsChain(c), NEW s, NEW t, NEW n \in Nat, n = Len(s), NEW p \in 1 .. n,
         \A r \in 1 .. n : t[r] = s[r],
         NEW j \in Nat, NEW h \in Nat, j <= h, NEW o,
         Placed(c, j, s, "lowering", p)
  PROVE  Placed(c, h, t, o, p)
<1>1. t[p] = s[p] /\ \A q \in 1 .. p - 1 : t[q] = s[q]
  OBVIOUS
<1>2. s[p].step # NoValue
  BY DEF Placed
<1>3. Emitted(c, t[p], h)
  <2>1. Emitted(c, s[p], j)
    BY DEF Placed
  <2>2. 0 .. j - 1 \subseteq 0 .. h - 1
    OBVIOUS
  <2> QED BY <1>1, <1>2, <2>1, <2>2 DEF Emitted
<1>4. Meaning(c, t, t[p].arg, For(c, t[p]), p)
  <2>1. Meaning(c, s, s[p].arg, For(c, s[p]), p)
    BY DEF Placed
  <2>2. Meaning(c, t, s[p].arg, For(c, s[p]), p)
    BY <1>1, <2>1, MeaningStays
  <2> QED BY <1>1, <2>2
<1>5. \A q \in 1 .. p - 1 : For(c, t[q]) < For(c, t[p])
  BY <1>1 DEF Placed
<1> QED BY <1>1, <1>2, <1>3, <1>4, <1>5 DEF Placed

(* A statement more. *)
LEMMA EmitPlaces ==
  ASSUME NEW c, IsChain(c), NEW h \in 0 .. LastStep(c) + 1, NEW j \in 0 .. h, NEW o,
         NEW e, NEW s, CodeInv(c, j, e, s, "lowering"),
         NEW x \in Statement(c), Emitted(c, x, h), Len(x.arg.nested) \in 0 .. LastStep(c) + 1,
         Meaning(c, s, x.arg, For(c, x), Len(s) + 1),
         x.step = NoValue => o # "lowering", For(c, x) \in j .. LastStep(c) + 1,
         NEW t, t = Append(s, x)
  PROVE  AllPlaced(c, h, t, o)
<1> PICK n \in Nat : n = LastStep(c)
  BY ChainTypes
<1>1. s \in Seq(Statement(c)) /\ \A p \in 1 .. Len(s) : Placed(c, j, s, "lowering", p)
  BY DEF CodeInv, AllPlaced
<1>0. j \in Nat /\ h \in Nat /\ j <= h
  OBVIOUS
<1> PICK m \in Nat : m = Len(s)
  BY <1>1, LenProperties
<1>2. t \in Seq(Statement(c)) /\ Len(t) = m + 1 /\ t[m + 1] = x /\ \A r \in 1 .. m : t[r] = s[r]
  BY <1>1, AppendProperties
<1>3. ASSUME NEW p \in 1 .. m
      PROVE  Placed(c, h, t, o, p)
  <2>1. Placed(c, j, s, "lowering", p)
    BY <1>1
  <2> QED BY <1>0, <1>2, <2>1, PlacedStays
<1>4. Placed(c, h, t, o, m + 1)
  <2>1. Meaning(c, t, x.arg, For(c, x), m + 1)
    <3>1. Meaning(c, s, x.arg, For(c, x), m + 1)
      OBVIOUS
    <3>2. m + 1 \in Nat /\ m + 1 <= m + 1 /\ \A r \in 1 .. (m + 1) - 1 : t[r] = s[r]
      BY <1>2
    <3> QED BY <3>1, <3>2, MeaningStays
  <2>2. ASSUME NEW q \in 1 .. m
        PROVE  For(c, t[q]) < For(c, x)
    <3>1. Placed(c, j, s, "lowering", q)
      BY <1>1
    <3>2. s[q].step \in 0 .. j - 1 /\ s[q].step # NoValue
      BY <3>1 DEF Placed, Emitted
    <3>3. For(c, x) \in Int
      BY DEF For, Statement, NoValue
    <3> QED BY <1>1, <1>2, <3>2, <3>3 DEF For
  <2>3. For(c, t[m + 1]) = For(c, x)
    BY <1>2
  <2>4. \A q \in 1 .. (m + 1) - 1 : For(c, t[q]) < For(c, t[m + 1])
    BY <2>2, <2>3
  <2> QED BY <1>2, <2>1, <2>3, <2>4 DEF Placed
<1>5. AllPlaced(c, h, t, o)
  <2>1. \A p \in 1 .. Len(t) : p \in 1 .. m \/ p = m + 1
    BY <1>2
  <2> QED BY <1>3, <1>4, <2>1 DEF AllPlaced
<1> QED BY <1>5

(* No code describes no step. *)
LEMMA CodeStarts ==
  ASSUME NEW c, IsChain(c)
  PROVE  CodeInv(c, 0, Variable(Input), <<>>, "lowering")
<1> PICK n \in Nat : n = LastStep(c)
  BY ChainTypes
<1>1. Variable(Input) \in Expr(c) /\ Variable(Input).nested = <<>> /\ Variable(Input).from = Input
  BY DEF Variable, Expr, Names
<1>2. InputValue(c) \in {NoValue} \cup 0 .. n
  BY DEF InputValue
<1>3. Holds(c, <<>>, Input, InputValue(c), 1)
  BY DEF Holds
<1>4. Leads(c, Variable(Input), InputValue(c), 0)
  <2>1. Valued(c, 0) => ValueBefore(c, 0) = InputValue(c)
    BY DEF Valued, First, ValueBefore, InputValue
  <2>2. Len(<<>>) = 0
    OBVIOUS
  <2> QED BY <1>1, <2>1, <2>2 DEF Leads, Made
<1>5. Meaning(c, <<>>, Variable(Input), 0, 1)
  BY <1>1, <1>2, <1>3, <1>4 DEF Meaning
<1> QED BY <1>1, <1>5 DEF CodeInv, AllPlaced

(* The expression after the step at j. *)
LEMMA StepsAreCalls ==
  ASSUME NEW c, IsChain(c), NEW k \in 0 .. LastStep(c), Kind(c, k) \in StepKinds
  PROVE  /\ Valued(c, k)
         /\ CanFail(c, k) <=> Kind(c, k) # "plain"
<1>1. k >= First(c)
  BY ChainTypes DEF First, Kind, StepKinds
<1>2. c.base = "check" => k = 0
  BY ChainTypes
<1> QED BY <1>1, <1>2 DEF Valued, CanFail, StepKinds

(* A checked call of step k. *)
Check(c, k, e, v) == [step |-> k, arg |-> e, to |-> v, handles |-> HandlerNames(c, v)]

(* Its variable. *)
Result(c, k) == IF Kind(c, k) = "fallible" THEN VarOf(c, k) ELSE Blank

(* The check the lowering appends for a step is in its place. *)
LEMMA CheckIsPlaced ==
  ASSUME NEW c, IsChain(c), NEW k \in 0 .. LastStep(c), CanFail(c, k),
         NEW e, NEW s, CodeInv(c, k, e, s, "lowering"),
         NEW t, t = Append(s, Check(c, k, e, Result(c, k))),
         NEW h \in Nat, h = k + 1
  PROVE  Check(c, k, e, Result(c, k)) \in Statement(c) /\ AllPlaced(c, h, t, "lowering")
<1> PICK n \in Nat : n = LastStep(c)
  BY ChainTypes
<1> PICK x : x = Check(c, k, e, Result(c, k))
  OBVIOUS
<1>1. x.step = k /\ x.arg = e /\ x.to = Result(c, k) /\ x.handles = HandlerNames(c, Result(c, k))
  BY DEF Check
<1>2. /\ e \in Expr(c) /\ Len(e.nested) <= k
      /\ Meaning(c, s, e, k, Len(s) + 1)
  BY DEF CodeInv
<1>3. Result(c, k) \in Names(c)
  BY VarTypes DEF Result, Names
<1>4. x \in Statement(c)
  <2>1. HandlerNames(c, Result(c, k)) \in {Target, Blank}
    BY DEF HandlerNames
  <2> QED BY <1>2, <1>3, <2>1 DEF Statement, Check
<1>5. Emitted(c, x, h)
  <2>1. k \in 0 .. h - 1
    OBVIOUS
  <2> QED BY <1>1, <2>1 DEF Emitted, Result
<1>6. For(c, x) = k /\ x.step # NoValue
  BY <1>1 DEF For, NoValue
<1>7. Len(x.arg.nested) \in 0 .. LastStep(c) + 1
  <2>1. Len(e.nested) \in Nat
    BY <1>2, LenProperties DEF Expr
  <2> QED BY <1>1, <1>2, <2>1
<1>8. Meaning(c, s, x.arg, For(c, x), Len(s) + 1)
  BY <1>1, <1>2, <1>6
<1>9. h \in 0 .. LastStep(c) + 1 /\ k \in 0 .. h /\ For(c, x) \in k .. LastStep(c) + 1
  BY <1>6
<1>10. AllPlaced(c, h, t, "lowering")
  BY <1>4, <1>5, <1>6, <1>7, <1>8, <1>9, EmitPlaces
<1> QED BY <1>4, <1>10

(* LowerFallible *)
LEMMA FallibleCode ==
  ASSUME NEW c, IsChain(c), NEW k \in 0 .. LastStep(c), Kind(c, k) = "fallible",
         NEW e, NEW s, CodeInv(c, k, e, s, "lowering")
  PROVE  CodeInv(c, k + 1, Variable(VarOf(c, k)), Append(s, Check(c, k, e, VarOf(c, k))), "lowering")
<1> PICK n \in Nat : n = LastStep(c)
  BY ChainTypes
<1> PICK t : t = Append(s, Check(c, k, e, VarOf(c, k)))
  OBVIOUS
<1> PICK v : v = VarOf(c, k)
  OBVIOUS
<1>0. s \in Seq(Statement(c))
  BY DEF CodeInv
<1> PICK m \in Nat : m = Len(s)
  BY <1>0, LenProperties
<1>1. CanFail(c, k) /\ Result(c, k) = v
  BY DEF CanFail, Result
<1> PICK h \in Nat : h = k + 1
  OBVIOUS
<1>2. /\ t \in Seq(Statement(c)) /\ Len(t) = m + 1
      /\ t[m + 1] = Check(c, k, e, v)
      /\ AllPlaced(c, h, t, "lowering")
  <2>1. t = Append(s, Check(c, k, e, Result(c, k)))
    BY <1>1
  <2>2. Check(c, k, e, Result(c, k)) \in Statement(c) /\ AllPlaced(c, h, t, "lowering")
    BY <1>1, <2>1, CheckIsPlaced
  <2> QED BY <1>0, <1>1, <2>1, <2>2, AppendProperties
<1>3. v \in Names(c)
  BY VarTypes
<1>4. Variable(v).from = v /\ Variable(v).nested = <<>> /\ Variable(v) \in Expr(c)
  BY <1>3 DEF Variable, Expr
<1>5. Holds(c, t, v, k, Len(t) + 1)
  <2>1. t[m + 1].step = k /\ t[m + 1].to = v
    BY <1>2 DEF Check
  <2>2. m + 1 \in 1 .. (Len(t) + 1) - 1
    BY <1>2
  <2> QED BY <2>1, <2>2 DEF Holds
<1>6. Leads(c, Variable(v), k, k + 1)
  <2>1. ValueBefore(c, k + 1) = k
    BY ValueNext
  <2> QED BY <1>4, <2>1 DEF Leads, Made
<1>7. Meaning(c, t, Variable(v), k + 1, Len(t) + 1)
  BY <1>4, <1>5, <1>6 DEF Meaning
<1>8. k + 1 \in 0 .. LastStep(c) + 1 /\ Len(<<>>) <= k + 1 /\ k + 1 # 0
  OBVIOUS
<1>9. CodeInv(c, k + 1, Variable(v), t, "lowering")
  BY <1>2, <1>4, <1>7, <1>8 DEF CodeInv
<1> QED BY <1>9

(* LowerCheck *)
LEMMA CheckCode ==
  ASSUME NEW c, IsChain(c), NEW k \in 0 .. LastStep(c), Kind(c, k) = "check",
         NEW e, NEW s, CodeInv(c, k, e, s, "lowering")
  PROVE  CodeInv(c, k + 1, e, Append(s, Check(c, k, e, Blank)), "lowering")
<1> PICK n \in Nat : n = LastStep(c)
  BY ChainTypes
<1> PICK t : t = Append(s, Check(c, k, e, Blank))
  OBVIOUS
<1>0. /\ s \in Seq(Statement(c)) /\ e \in Expr(c) /\ Len(e.nested) <= k
      /\ Meaning(c, s, e, k, Len(s) + 1)
  BY DEF CodeInv
<1> PICK m \in Nat : m = Len(s)
  BY <1>0, LenProperties
<1>1. CanFail(c, k) /\ Result(c, k) = Blank
  BY DEF CanFail, Result
<1> PICK h \in Nat : h = k + 1
  OBVIOUS
<1>2. /\ t \in Seq(Statement(c)) /\ Len(t) = m + 1
      /\ \A r \in 1 .. m : t[r] = s[r]
      /\ AllPlaced(c, h, t, "lowering")
  <2>1. t = Append(s, Check(c, k, e, Result(c, k)))
    BY <1>1
  <2>2. Check(c, k, e, Result(c, k)) \in Statement(c) /\ AllPlaced(c, h, t, "lowering")
    BY <1>1, <2>1, CheckIsPlaced
  <2> QED BY <1>0, <1>1, <2>1, <2>2, AppendProperties
<1>3. PICK b \in {NoValue} \cup 0 .. n : Holds(c, s, e.from, b, m + 1) /\ Leads(c, e, b, k)
  BY <1>0 DEF Meaning
<1>4. Holds(c, t, e.from, b, Len(t) + 1)
  <2>1. \A r \in 1 .. (m + 1) - 1 : r \in 1 .. (Len(t) + 1) - 1 /\ t[r] = s[r]
    BY <1>2
  <2> QED BY <1>3, <2>1 DEF Holds
<1>5. Leads(c, e, b, k + 1)
  <2>1. \A x \in 0 .. k - 1 : x \in 0 .. (k + 1) - 1
    OBVIOUS
  <2>2. Valued(c, k + 1) => k > 0 /\ Kind(c, 0) # "check"
    BY ChainTypes DEF Valued, Kind
  <2>3. Valued(c, k + 1) => ValueBefore(c, k + 1) = ValueBefore(c, k)
    BY <2>2, ValueNext
  <2>4. Valued(c, k)
    BY StepsAreCalls DEF StepKinds
  <2> QED BY <1>3, <2>1, <2>3, <2>4 DEF Leads
<1>6. Meaning(c, t, e, k + 1, Len(t) + 1)
  BY <1>3, <1>4, <1>5 DEF Meaning
<1>7. Len(e.nested) <= k + 1 /\ k + 1 \in 0 .. LastStep(c) + 1 /\ k + 1 # 0
  <2>1. Len(e.nested) \in Nat
    BY <1>0, LenProperties DEF Expr
  <2> QED BY <1>0, <2>1
<1>8. CodeInv(c, k + 1, e, t, "lowering")
  BY <1>0, <1>2, <1>6, <1>7 DEF CodeInv
<1> QED BY <1>8

(* Nothing is emitted. *)
LEMMA AllPlacedStays ==
  ASSUME NEW c, IsChain(c), NEW s, NEW n \in Nat, n = Len(s),
         NEW h \in Nat, NEW j \in 0 .. h, NEW o, AllPlaced(c, j, s, "lowering")
  PROVE  AllPlaced(c, h, s, o)
<1>1. j \in Nat /\ h \in Nat /\ j <= h
  OBVIOUS
<1>2. ASSUME NEW p \in 1 .. n
      PROVE  Placed(c, h, s, o, p)
  <2>1. Placed(c, j, s, "lowering", p)
    BY DEF AllPlaced
  <2> QED BY <1>1, <2>1, PlacedStays
<1> QED BY <1>2 DEF AllPlaced

(* One more call is nested. *)
Nested(e, k) == [e EXCEPT !.nested = Append(@, k)]

(* Wrapping an expression in a call adds that call outside the others. *)
LEMMA NestedCall ==
  ASSUME NEW c, IsChain(c), NEW e \in Expr(c), NEW k \in 0 .. LastStep(c),
         NEW f, f = Nested(e, k)
  PROVE  /\ f \in Expr(c) /\ f.from = e.from
         /\ f.nested \in Seq(0 .. LastStep(c))
         /\ Len(f.nested) = Len(e.nested) + 1
         /\ f.nested[Len(e.nested) + 1] = k
         /\ \A m \in 1 .. Len(e.nested) : f.nested[m] = e.nested[m]
<1>1. e.nested \in Seq(0 .. LastStep(c)) /\ e.from \in Names(c)
  BY DEF Expr
<1>2. f = [from |-> e.from, nested |-> Append(e.nested, k)]
  BY DEF Nested, Expr
<1>3. Append(e.nested, k) \in Seq(0 .. LastStep(c))
  BY <1>1, AppendProperties
<1> QED BY <1>1, <1>2, <1>3, AppendProperties DEF Expr

(* LowerPlain *)
LEMMA PlainCode ==
  ASSUME NEW c, IsChain(c), NEW k \in 0 .. LastStep(c), Kind(c, k) = "plain",
         NEW e, NEW s, CodeInv(c, k, e, s, "lowering")
  PROVE  CodeInv(c, k + 1, Nested(e, k), s, "lowering")
<1> PICK n \in Nat : n = LastStep(c)
  BY ChainTypes
<1>0. /\ s \in Seq(Statement(c)) /\ e \in Expr(c) /\ Len(e.nested) <= k
      /\ AllPlaced(c, k, s, "lowering")
      /\ Meaning(c, s, e, k, Len(s) + 1)
  BY DEF CodeInv
<1> PICK m \in Nat : m = Len(s)
  BY <1>0, LenProperties
<1> PICK h \in Nat : h = k + 1
  OBVIOUS
<1> PICK f : f = Nested(e, k)
  OBVIOUS
<1> PICK d \in Nat : d = Len(e.nested)
  BY <1>0, LenProperties DEF Expr
<1>1. /\ f \in Expr(c) /\ f.from = e.from
      /\ Len(f.nested) = d + 1 /\ f.nested[d + 1] = k
      /\ \A x \in 1 .. d : f.nested[x] = e.nested[x]
  <2>1. e \in Expr(c)
    BY <1>0
  <2> QED BY <2>1, NestedCall
<1>2. PICK b \in {NoValue} \cup 0 .. n : Holds(c, s, e.from, b, m + 1) /\ Leads(c, e, b, k)
  BY <1>0 DEF Meaning
<1>3. ValueBefore(c, k) = Made(e, b, d)
  <2>1. Valued(c, k)
    BY StepsAreCalls DEF StepKinds
  <2> QED BY <1>2, <2>1 DEF Leads
<1>4. ASSUME NEW x \in 1 .. d + 1
      PROVE  /\ f.nested[x] \in 0 .. h - 1
             /\ Kind(c, f.nested[x]) = "plain"
             /\ ValueBefore(c, f.nested[x]) = Made(f, b, x - 1)
  <2>1. CASE x \in 1 .. d
    <3>1. /\ e.nested[x] \in 0 .. k - 1
          /\ Kind(c, e.nested[x]) = "plain"
          /\ ValueBefore(c, e.nested[x]) = Made(e, b, x - 1)
      BY <1>2, <2>1 DEF Leads
    <3>2. Made(f, b, x - 1) = Made(e, b, x - 1)
      <4>1. x - 1 = 0 \/ x - 1 \in 1 .. d
        BY <2>1
      <4> QED BY <1>1, <4>1 DEF Made
    <3> QED BY <1>1, <2>1, <3>1, <3>2
  <2>2. CASE x = d + 1
    <3>1. Made(f, b, d) = Made(e, b, d)
      <4>1. d = 0 \/ d \in 1 .. d
        OBVIOUS
      <4> QED BY <1>1, <4>1 DEF Made
    <3>2. x - 1 = d
      BY <2>2
    <3>3. f.nested[x] = k
      BY <1>1, <2>2
    <3> QED BY <1>3, <3>1, <3>2, <3>3
  <2> QED BY <2>1, <2>2
<1>5. ValueBefore(c, h) = Made(f, b, d + 1)
  <2>1. ValueBefore(c, k + 1) = k
    BY ValueNext
  <2> QED BY <1>1, <2>1 DEF Made
<1>6. Leads(c, f, b, h)
  BY <1>1, <1>4, <1>5 DEF Leads
<1>7. Meaning(c, s, f, h, Len(s) + 1)
  BY <1>1, <1>2, <1>6 DEF Meaning
<1>8. AllPlaced(c, h, s, "lowering")
  <2>1. k \in 0 .. h
    OBVIOUS
  <2> QED BY <1>0, <2>1, AllPlacedStays
<1>9. Len(f.nested) <= h /\ h \in 0 .. LastStep(c) + 1 /\ h # 0
  BY <1>0, <1>1
<1>10. CodeInv(c, h, f, s, "lowering")
  BY <1>0, <1>1, <1>7, <1>8, <1>9 DEF CodeInv
<1> QED BY <1>10

(* LowerInput *)
LEMMA InputCode ==
  ASSUME NEW c, IsChain(c), c.base = "input",
         NEW e, NEW s, CodeInv(c, 0, e, s, "lowering")
  PROVE  CodeInv(c, 1, e, s, "lowering")
<1> PICK n \in Nat : n = LastStep(c)
  BY ChainTypes
<1>0. /\ s \in Seq(Statement(c)) /\ e \in Expr(c) /\ e = Variable(Input)
      /\ AllPlaced(c, 0, s, "lowering")
  BY DEF CodeInv
<1> PICK m \in Nat : m = Len(s)
  BY <1>0, LenProperties
<1>1. e.from = Input /\ e.nested = <<>>
  BY <1>0 DEF Variable
<1>2. Holds(c, s, Input, 0, m + 1)
  BY DEF Holds, InputValue
<1>3. Leads(c, e, 0, 1)
  <2>1. Kind(c, 0) # "check"
    BY DEF Kind
  <2>2. ValueBefore(c, 0 + 1) = 0
    BY <2>1, ValueNext
  <2> QED BY <1>1, <2>2 DEF Leads, Made
<1>4. Meaning(c, s, e, 1, Len(s) + 1)
  BY <1>1, <1>2, <1>3 DEF Meaning
<1>5. AllPlaced(c, 1, s, "lowering")
  <2>1. 1 \in Nat /\ 0 \in 0 .. 1
    OBVIOUS
  <2> QED BY <1>0, <2>1, AllPlacedStays
<1>6. 1 \in 0 .. LastStep(c) + 1 /\ Len(e.nested) <= 1
  BY <1>1
<1> QED BY <1>0, <1>4, <1>5, <1>6 DEF CodeInv

(* What LowerEnd does about the last value. *)
Copied(c, e) ==
  /\ LastStep(c) # 0
  /\ c.form = "decl" => e # Variable(Target)
  /\ c.form = "blank" => e.nested = <<>>

Copy(c, e) == [step |-> NoValue, arg |-> e, to |-> TargetOf(c), handles |-> Blank]

(* LowerEnd, with an assignment at the end. *)
LEMMA CopyCode ==
  ASSUME NEW c, IsChain(c), NEW e, NEW s, NEW h, h = LastStep(c) + 1,
         CodeInv(c, h, e, s, "lowering"), LastStep(c) > 0,
         c.form = "decl" => e # Variable(Target)
  PROVE  CodeInv(c, h, e, Append(s, Copy(c, e)), "running")
<1> PICK n \in Nat : n = LastStep(c)
  BY ChainTypes
<1>0. /\ s \in Seq(Statement(c)) /\ e \in Expr(c) /\ Len(e.nested) <= h
      /\ Meaning(c, s, e, h, Len(s) + 1)
  BY DEF CodeInv
<1> PICK m \in Nat : m = Len(s)
  BY <1>0, LenProperties
<1> PICK x : x = Copy(c, e)
  OBVIOUS
<1> PICK t : t = Append(s, x)
  OBVIOUS
<1>1. x.step = NoValue /\ x.arg = e /\ x.to = TargetOf(c) /\ x.handles = Blank
  BY DEF Copy
<1>2. x \in Statement(c)
  BY <1>0 DEF Copy, Statement, TargetOf, Names
<1>3. Emitted(c, x, h)
  BY <1>1 DEF Emitted
<1>4. For(c, x) = h
  BY <1>1 DEF For
<1>5. h \in 0 .. LastStep(c) + 1 /\ h \in 0 .. h /\ For(c, x) \in h .. LastStep(c) + 1
  BY <1>4
<1>6. Len(x.arg.nested) \in 0 .. LastStep(c) + 1
  <2>1. Len(e.nested) \in Nat
    BY <1>0, LenProperties DEF Expr
  <2> QED BY <1>0, <1>1, <2>1
<1>7. Meaning(c, s, x.arg, For(c, x), Len(s) + 1)
  BY <1>0, <1>1, <1>4
<1>8. x.step = NoValue => "running" # "lowering"
  OBVIOUS
<1>9. AllPlaced(c, h, t, "running")
  BY <1>2, <1>3, <1>5, <1>6, <1>7, <1>8, EmitPlaces
<1>10. t \in Seq(Statement(c)) /\ Len(t) = m + 1 /\ t[m + 1] = x /\ \A r \in 1 .. m : t[r] = s[r]
  BY <1>0, <1>2, AppendProperties
<1>11. Meaning(c, t, e, h, Len(t) + 1)
  <2>1. PICK p, q \in Nat : p = m + 1 /\ q = p + 1
    OBVIOUS
  <2>2. p <= q /\ \A r \in 1 .. p - 1 : t[r] = s[r]
    BY <1>10, <2>1
  <2>3. Meaning(c, s, e, h, p)
    BY <1>0, <2>1
  <2>4. Meaning(c, t, e, h, q)
    BY <2>2, <2>3, MeaningStays
  <2> QED BY <1>10, <2>1, <2>4
<1>12. ~\A p \in 1 .. Len(t) : t[p].step # NoValue
  <2>1. m + 1 \in 1 .. Len(t)
    BY <1>10
  <2> QED BY <1>1, <1>10, <2>1
<1>13. h # 0
  OBVIOUS
<1>14. CodeInv(c, h, e, t, "running")
  BY <1>0, <1>5, <1>9, <1>10, <1>11, <1>12, <1>13 DEF CodeInv
<1> QED BY <1>14

(* LowerEnd, without. *)
LEMMA EndCode ==
  ASSUME NEW c, IsChain(c), NEW e, NEW s, NEW h, h = LastStep(c) + 1,
         CodeInv(c, h, e, s, "lowering"), ~Copied(c, e)
  PROVE  CodeInv(c, h, e, s, "running")
<1> PICK n \in Nat : n = LastStep(c)
  BY ChainTypes
<1>0. /\ s \in Seq(Statement(c)) /\ e \in Expr(c) /\ Len(e.nested) <= h
      /\ Meaning(c, s, e, h, Len(s) + 1) /\ AllPlaced(c, h, s, "lowering")
  BY DEF CodeInv
<1> PICK m \in Nat : m = Len(s)
  BY <1>0, LenProperties
<1>1. AllPlaced(c, h, s, "running")
  <2>1. h \in Nat /\ h \in 0 .. h
    OBVIOUS
  <2> QED BY <1>0, <2>1, AllPlacedStays
<1>2. ASSUME HasTarget(c)
      PROVE  e = Variable(Target)
  <2>1. CASE n > 0
    BY <1>2, <2>1 DEF HasTarget, Copied
  <2>2. CASE n = 0
    <3>1. Kind(c, 0) = "fallible"
      <4>1. PICK k \in 0 .. n : CanFail(c, k)
        BY DEF IsChain, WellTyped
      <4>2. k = 0
        BY <2>2
      <4>3. c.base # "check"
        BY <1>2, ChainTypes DEF HasTarget
      <4> QED BY <4>1, <4>2, <4>3 DEF CanFail, Kind
    <3>2. ValueBefore(c, h) = 0
      <4>1. ValueBefore(c, 0 + 1) = 0
        BY <3>1, ValueNext
      <4> QED BY <2>2, <4>1
    <3>3. PICK b \in {NoValue} \cup 0 .. n : Holds(c, s, e.from, b, m + 1) /\ Leads(c, e, b, h)
      BY <1>0 DEF Meaning
    <3>4. e.nested = <<>>
      <4>1. e.nested \in Seq(0 .. n)
        BY <1>0 DEF Expr
      <4>2. ASSUME Len(e.nested) # 0 PROVE FALSE
        <5>1. 1 \in 1 .. Len(e.nested)
          BY <4>1, <4>2, LenProperties
        <5>2. e.nested[1] \in 0 .. h - 1 /\ Kind(c, e.nested[1]) = "plain"
          BY <3>3, <5>1 DEF Leads
        <5>3. e.nested[1] = 0
          BY <2>2, <5>2
        <5> QED BY <3>1, <5>2, <5>3
      <4> QED BY <4>1, <4>2, EmptySeq
    <3>5. b = 0
      <4>1. Valued(c, h)
        BY <1>2, <2>2, ChainTypes DEF Valued, HasTarget
      <4>2. Len(<<>>) = 0
        OBVIOUS
      <4> QED BY <3>2, <3>3, <3>4, <4>1, <4>2 DEF Leads, Made
    <3>6. e.from = Target
      <4>1. ~(InputValue(c) = 0)
        BY <3>1 DEF InputValue, Kind, NoValue
      <4>2. e.from = VarOf(c, 0)
        <5>1. PICK q \in 1 .. (m + 1) - 1 : s[q].step = 0 /\ s[q].to = e.from
          BY <3>3, <3>5, <4>1 DEF Holds
        <5>2. Placed(c, h, s, "lowering", q)
          BY <1>0, <5>1 DEF AllPlaced
        <5> QED BY <3>1, <5>1, <5>2 DEF Placed, Emitted, NoValue
      <4> QED BY <1>2, <2>2, <4>2 DEF VarOf
    <3> QED BY <1>0, <3>4, <3>6 DEF Variable, Expr
  <2> QED BY <2>1, <2>2
<1>3. h \in 0 .. LastStep(c) + 1 /\ h # 0
  OBVIOUS
<1> QED BY <1>0, <1>1, <1>2, <1>3 DEF CodeInv

(***************************************************************************)
(* Supported chains: every step is called once, every temporary is used.   *)
(***************************************************************************)

(* No plain call stands before a step that the value is not plain for.     *)
LEMMA NothingNested ==
  ASSUME NEW c, IsChain(c), NEW s, NEW e \in Expr(c), NEW k, NEW p,
         Meaning(c, s, e, k, p), Valued(c, k),
         Kind(c, ValueBefore(c, k)) # "plain"
  PROVE  e.nested = <<>>
<1>1. PICK b \in {NoValue} \cup 0 .. LastStep(c) : Leads(c, e, b, k)
  BY DEF Meaning
<1>2. e.nested \in Seq(0 .. LastStep(c))
  BY DEF Expr
<1> PICK d \in Nat : d = Len(e.nested)
  BY <1>2, LenProperties
<1>3. ASSUME d # 0 PROVE FALSE
  <2>1. d \in 1 .. Len(e.nested)
    BY <1>3
  <2>2. Kind(c, e.nested[d]) = "plain"
    BY <1>1, <2>1 DEF Leads
  <2>3. ValueBefore(c, k) = e.nested[d]
    BY <1>1, <1>3 DEF Leads, Made
  <2> QED BY <2>2, <2>3
<1> QED BY <1>2, <1>3, EmptySeq

(* The last value of a supported chain that does not end in a plain call.  *)
LEMMA LastNotPlain ==
  ASSUME NEW c, IsChain(c), Supported(c), ~EndsPlain(c), NEW h, h = LastStep(c) + 1,
         Valued(c, h)
  PROVE  Kind(c, ValueBefore(c, h)) # "plain"
<1> PICK n \in Nat : n = LastStep(c)
  BY ChainTypes
<1>1. Kind(c, n) # "plain"
  BY DEF EndsPlain
<1>2. CASE Kind(c, n) # "check"
  BY <1>1, <1>2, ValueNext
<1>3. CASE Kind(c, n) = "check"
  <2>1. n > 0 /\ Kind(c, 0) # "check"
    BY <1>3, ChainTypes DEF Valued, Kind
  <2>2. ValueBefore(c, n + 1) = ValueBefore(c, n)
    BY <1>3, <2>1, ValueNext
  <2>3. Kind(c, ValueBefore(c, n)) # "plain"
    BY <1>3, <2>1 DEF Supported, Steps
  <2> QED BY <2>2, <2>3
<1> QED BY <1>2, <1>3

(* Appending a statement that makes the calls owed since the last keeps every call made once. *)
LEMMA AppendOnce ==
  ASSUME NEW c, NEW s \in Seq(Statement(c)), NEW x \in Statement(c), NEW t, t = Append(s, x),
         AllOnce(c, s), Covers(x.arg, Reached(c, s, Len(s) + 1), For(c, x))
  PROVE  AllOnce(c, t)
<1> PICK m \in Nat : m = Len(s)
  BY LenProperties
<1>1. Len(t) = m + 1 /\ t[m + 1] = x /\ \A r \in 1 .. m : t[r] = s[r]
  BY AppendProperties
<1>2. \A p \in 1 .. m + 1 : Reached(c, t, p) = Reached(c, s, p)
  <2> TAKE p \in 1 .. m + 1
  <2>1. p # 1 => t[p - 1] = s[p - 1]
    BY <1>1
  <2> QED BY <2>1 DEF Reached
<1>3. ASSUME NEW p \in 1 .. m + 1
      PROVE  Covers(t[p].arg, Reached(c, t, p), For(c, t[p]))
  <2>1. Reached(c, t, p) = Reached(c, s, p)
    BY <1>2
  <2>2. CASE p \in 1 .. m
    <3>1. Covers(s[p].arg, Reached(c, s, p), For(c, s[p]))
      BY <2>2 DEF AllOnce
    <3>2. t[p] = s[p]
      BY <1>1, <2>2
    <3> QED BY <2>1, <3>1, <3>2
  <2>3. CASE p = m + 1
    <3>1. t[p] = x
      BY <1>1, <2>3
    <3> QED BY <2>1, <2>3, <3>1
  <2> QED BY <2>2, <2>3
<1> QED BY <1>1, <1>3 DEF AllOnce

(* Behind the new statement the code has reached its step, or the last one. *)
LEMMA AppendReached ==
  ASSUME NEW c, NEW s \in Seq(Statement(c)), NEW x \in Statement(c), NEW t, t = Append(s, x)
  PROVE  Reached(c, t, Len(t) + 1) = IF x.step = NoValue THEN LastStep(c) ELSE x.step
<1> PICK m \in Nat : m = Len(s)
  BY LenProperties
<1>1. Len(t) = m + 1 /\ t[m + 1] = x
  BY AppendProperties
<1>2. (m + 1) + 1 # 1 /\ ((m + 1) + 1) - 1 = m + 1
  OBVIOUS
<1> QED BY <1>1, <1>2 DEF Reached

(* The statement that is emitted reads the variable of the expression. *)
LEMMA AppendUsed ==
  ASSUME NEW c, NEW s \in Seq(Statement(c)), NEW x \in Statement(c), NEW t, t = Append(s, x),
         NEW e, NEW f, NEW o, AllUsed(e, s, "lowering"), x.arg = e,
         x.to \notin Nat \/ (o = "lowering" /\ f.from = x.to)
  PROVE  AllUsed(f, t, o)
<1> PICK m \in Nat : m = Len(s)
  BY LenProperties
<1>1. Len(t) = m + 1 /\ t[m + 1] = x /\ \A r \in 1 .. m : t[r] = s[r]
  BY AppendProperties
<1>2. ASSUME NEW p \in 1 .. m + 1, t[p].to \in Nat
      PROVE  \/ \E q \in p + 1 .. m + 1 : t[q].arg.from = t[p].to
             \/ o = "lowering" /\ f.from = t[p].to
  <2>1. CASE p \in 1 .. m
    <3>1. t[p] = s[p]
      BY <1>1, <2>1
    <3>2. \/ \E q \in p + 1 .. m : s[q].arg.from = s[p].to
          \/ e.from = s[p].to
      BY <1>2, <2>1, <3>1 DEF AllUsed
    <3>3. ASSUME NEW q \in p + 1 .. m, s[q].arg.from = s[p].to
          PROVE  \E r \in p + 1 .. m + 1 : t[r].arg.from = t[p].to
      <4>1. q \in 1 .. m /\ q \in p + 1 .. m + 1
        OBVIOUS
      <4>2. t[q] = s[q]
        BY <1>1, <4>1
      <4> QED BY <3>1, <3>3, <4>1, <4>2
    <3>4. ASSUME e.from = s[p].to
          PROVE  \E r \in p + 1 .. m + 1 : t[r].arg.from = t[p].to
      <4>1. m + 1 \in p + 1 .. m + 1
        BY <2>1
      <4>2. t[m + 1].arg.from = t[p].to
        BY <1>1, <3>1, <3>4
      <4> QED BY <4>1, <4>2
    <3> QED BY <3>2, <3>3, <3>4
  <2>2. CASE p = m + 1
    <3>1. t[p] = x
      BY <1>1, <2>2
    <3> QED BY <1>2, <3>1
  <2> QED BY <2>1, <2>2
<1> QED BY <1>1, <1>2 DEF AllUsed

(* LowerFallible *)
LEMMA FallibleOnce ==
  ASSUME NEW c, IsChain(c), NEW k \in 0 .. LastStep(c), Kind(c, k) = "fallible",
         NEW e, NEW s, CodeInv(c, k, e, s, "lowering"), OnceInv(c, k, e, s, "lowering")
  PROVE  OnceInv(c, k + 1, Variable(VarOf(c, k)), Append(s, Check(c, k, e, VarOf(c, k))), "lowering")
<1> PICK n \in Nat : n = LastStep(c)
  BY ChainTypes
<1> PICK x : x = Check(c, k, e, VarOf(c, k))
  OBVIOUS
<1> PICK t : t = Append(s, x)
  OBVIOUS
<1> PICK v : v = VarOf(c, k)
  OBVIOUS
<1> PICK h \in Nat : h = k + 1
  OBVIOUS
<1>0. s \in Seq(Statement(c)) /\ k >= First(c) /\ First(c) \in {0, 1}
  BY StepsAreCalls, ChainTypes DEF CodeInv, StepKinds, Valued
<1>1. CanFail(c, k) /\ Result(c, k) = v
  BY DEF CanFail, Result
<1>2. x \in Statement(c)
  <2>1. t = Append(s, Check(c, k, e, Result(c, k)))
    BY <1>1
  <2>2. Check(c, k, e, Result(c, k)) \in Statement(c)
    BY <1>1, <2>1, CheckIsPlaced
  <2> QED BY <1>1, <2>2
<1>3. x.step = k /\ x.arg = e /\ x.to = v /\ x.step # NoValue
  BY DEF Check, NoValue
<1>4. For(c, x) = k
  BY <1>3 DEF For
<1>5. AllOnce(c, s) /\ AllUsed(e, s, "lowering") /\ Covers(e, Reached(c, s, Len(s) + 1), k)
  BY <1>0 DEF OnceInv
<1>6. AllOnce(c, t)
  BY <1>0, <1>2, <1>3, <1>4, <1>5, AppendOnce
<1>7. Variable(v).from = v /\ Variable(v).nested = <<>>
  BY DEF Variable
<1>8. AllUsed(Variable(v), t, "lowering")
  <2>1. s \in Seq(Statement(c)) /\ x \in Statement(c) /\ t = Append(s, x)
    BY <1>0, <1>2
  <2>2. AllUsed(e, s, "lowering") /\ x.arg = e /\ Variable(v).from = x.to
    BY <1>3, <1>5, <1>7
  <2> QED BY ONLY <2>1, <2>2, AppendUsed
<1>9. Reached(c, t, Len(t) + 1) = k
  BY <1>0, <1>2, <1>3, AppendReached
<1>10. Covers(Variable(v), k, h)
  BY <1>7 DEF Covers
<1>11. ~(h < First(c))
  BY <1>0
<1>12. OnceInv(c, h, Variable(v), t, "lowering")
  BY <1>6, <1>8, <1>9, <1>10, <1>11 DEF OnceInv
<1> QED BY <1>12

(* LowerCheck *)
LEMMA CheckOnce ==
  ASSUME NEW c, IsChain(c), Supported(c), NEW k \in 0 .. LastStep(c), Kind(c, k) = "check",
         NEW e, NEW s, CodeInv(c, k, e, s, "lowering"), OnceInv(c, k, e, s, "lowering")
  PROVE  OnceInv(c, k + 1, e, Append(s, Check(c, k, e, Blank)), "lowering")
<1> PICK n \in Nat : n = LastStep(c)
  BY ChainTypes
<1> PICK x : x = Check(c, k, e, Blank)
  OBVIOUS
<1> PICK t : t = Append(s, x)
  OBVIOUS
<1> PICK h \in Nat : h = k + 1
  OBVIOUS
<1>0. /\ s \in Seq(Statement(c)) /\ k >= First(c) /\ First(c) \in {0, 1}
      /\ e \in Expr(c) /\ Meaning(c, s, e, k, Len(s) + 1) /\ Len(e.nested) <= k
      /\ Valued(c, k)
  BY StepsAreCalls, ChainTypes DEF CodeInv, StepKinds, Valued
<1>1. CanFail(c, k) /\ Result(c, k) = Blank
  BY DEF CanFail, Result
<1>2. x \in Statement(c)
  <2>1. t = Append(s, Check(c, k, e, Result(c, k)))
    BY <1>1
  <2>2. Check(c, k, e, Result(c, k)) \in Statement(c)
    BY <1>1, <2>1, CheckIsPlaced
  <2> QED BY <1>1, <2>2
<1>3. x.step = k /\ x.arg = e /\ x.to = Blank /\ x.step # NoValue
  BY DEF Check, NoValue
<1>4. For(c, x) = k /\ ~(x.to \in Nat)
  BY <1>3 DEF For, Blank
<1>5. AllOnce(c, s) /\ AllUsed(e, s, "lowering") /\ Covers(e, Reached(c, s, Len(s) + 1), k)
  BY <1>0 DEF OnceInv
<1>6. AllOnce(c, t)
  BY <1>0, <1>2, <1>3, <1>4, <1>5, AppendOnce
<1>7. e.nested = <<>>
  <2>1. CASE k = 0
    BY <1>0, <2>1, EmptySeq, LenProperties DEF Expr
  <2>2. CASE k > 0
    <3>1. Kind(c, ValueBefore(c, k)) # "plain"
      BY <2>2 DEF Supported, Steps
    <3> QED BY <1>0, <3>1, NothingNested
  <2> QED BY <2>1, <2>2
<1>8. AllUsed(e, t, "lowering")
  BY <1>0, <1>2, <1>3, <1>4, <1>5, AppendUsed
<1>9. Reached(c, t, Len(t) + 1) = k
  BY <1>0, <1>2, <1>3, AppendReached
<1>10. Covers(e, k, h)
  BY <1>7 DEF Covers
<1>11. ~(h < First(c))
  BY <1>0
<1>12. OnceInv(c, h, e, t, "lowering")
  BY <1>6, <1>8, <1>9, <1>10, <1>11 DEF OnceInv
<1> QED BY <1>12

(* LowerPlain *)
LEMMA PlainOnce ==
  ASSUME NEW c, IsChain(c), NEW k \in 0 .. LastStep(c), Kind(c, k) = "plain",
         NEW e, NEW s, CodeInv(c, k, e, s, "lowering"), OnceInv(c, k, e, s, "lowering")
  PROVE  OnceInv(c, k + 1, Nested(e, k), s, "lowering")
<1> PICK n \in Nat : n = LastStep(c)
  BY ChainTypes
<1> PICK h \in Nat : h = k + 1
  OBVIOUS
<1> PICK f : f = Nested(e, k)
  OBVIOUS
<1>0. /\ k >= First(c) /\ First(c) \in {0, 1} /\ e \in Expr(c)
      /\ s \in Seq(Statement(c))
  BY StepsAreCalls, ChainTypes DEF CodeInv, StepKinds, Valued
<1> PICK d \in Nat : d = Len(e.nested)
  BY <1>0, LenProperties DEF Expr
<1> PICK r : r = Reached(c, s, Len(s) + 1)
  OBVIOUS
<1>1. /\ f.from = e.from
      /\ Len(f.nested) = d + 1 /\ f.nested[d + 1] = k
      /\ \A m \in 1 .. d : f.nested[m] = e.nested[m]
  BY <1>0, NestedCall
<1>2. AllOnce(c, s) /\ AllUsed(e, s, "lowering") /\ Covers(e, r, k)
  BY <1>0 DEF OnceInv
<1>3. r + d + 1 = k /\ \A m \in 1 .. d : e.nested[m] = r + m
  BY <1>2 DEF Covers
<1>4. r \in Int
  <2> PICK m \in Nat : m = Len(s)
    BY <1>0, LenProperties
  <2>1. m # 0 => s[m].step \in {NoValue} \cup 0 .. n
    <3>1. m # 0 => s[m] \in Statement(c)
      BY <1>0, ElementOfSeq
    <3> QED BY <3>1 DEF Statement
  <2> QED BY <1>0, <2>1 DEF Reached, NoValue
<1>5. Covers(f, r, h)
  <2>1. ASSUME NEW m \in 1 .. d + 1
        PROVE  f.nested[m] = r + m
    <3>1. CASE m \in 1 .. d
      BY <1>1, <1>3, <3>1
    <3>2. CASE m = d + 1
      BY <1>1, <1>3, <1>4, <3>2
    <3> QED BY <3>1, <3>2
  <2>2. r + (d + 1) + 1 = h
    BY <1>3, <1>4
  <2> QED BY <1>1, <2>1, <2>2 DEF Covers
<1>6. AllUsed(f, s, "lowering")
  BY <1>1, <1>2 DEF AllUsed
<1>7. ~(h < First(c))
  BY <1>0
<1>8. OnceInv(c, h, f, s, "lowering")
  BY <1>2, <1>5, <1>6, <1>7 DEF OnceInv
<1> QED BY <1>8

(* LowerInput *)
LEMMA InputOnce ==
  ASSUME NEW c, IsChain(c), c.base = "input",
         NEW e, NEW s, CodeInv(c, 0, e, s, "lowering"), OnceInv(c, 0, e, s, "lowering")
  PROVE  OnceInv(c, 1, e, s, "lowering")
<1>1. First(c) = 1
  BY DEF First
<1>2. AllOnce(c, s) /\ AllUsed(e, s, "lowering") /\ s = <<>>
  BY <1>1 DEF OnceInv
<1>3. e.nested = <<>>
  BY DEF CodeInv, Variable
<1>4. Reached(c, s, Len(s) + 1) = 0
  BY <1>1, <1>2 DEF Reached
<1>5. Covers(e, 0, 1)
  BY <1>3 DEF Covers
<1> QED BY <1>1, <1>2, <1>4, <1>5 DEF OnceInv

(* LowerEnd, with an assignment at the end. *)
LEMMA CopyOnce ==
  ASSUME NEW c, IsChain(c), NEW e, NEW s, NEW h, h = LastStep(c) + 1,
         CodeInv(c, h, e, s, "lowering"), OnceInv(c, h, e, s, "lowering")
  PROVE  OnceInv(c, h, e, Append(s, Copy(c, e)), "running")
<1> PICK n \in Nat : n = LastStep(c)
  BY ChainTypes
<1> PICK x : x = Copy(c, e)
  OBVIOUS
<1> PICK t : t = Append(s, x)
  OBVIOUS
<1>0. s \in Seq(Statement(c)) /\ e \in Expr(c)
  BY DEF CodeInv
<1>1. x.step = NoValue /\ x.arg = e /\ x.to = TargetOf(c)
  BY DEF Copy
<1>2. x \in Statement(c)
  BY <1>0 DEF Copy, Statement, TargetOf, Names
<1>3. For(c, x) = h /\ ~(x.to \in Nat)
  BY <1>1 DEF For, TargetOf, Target, Blank
<1>4. ~(h < First(c)) /\ h >= First(c)
  BY ChainTypes
<1>5. AllOnce(c, s) /\ AllUsed(e, s, "lowering") /\ Covers(e, Reached(c, s, Len(s) + 1), h)
  BY <1>4 DEF OnceInv
<1>6. AllOnce(c, t)
  BY <1>0, <1>1, <1>2, <1>3, <1>5, AppendOnce
<1>7. AllUsed(e, t, "running")
  BY <1>0, <1>1, <1>2, <1>3, <1>5, AppendUsed
<1>8. Reached(c, t, Len(t) + 1) = n
  BY <1>0, <1>1, <1>2, AppendReached
<1>9. OnceInv(c, h, e, t, "running")
  BY <1>4, <1>6, <1>7, <1>8 DEF OnceInv
<1> QED BY <1>9

(* What LowerEnd leaves out was made before. *)
LEMMA NothingLeftOut ==
  ASSUME NEW c, IsChain(c), Supported(c), NEW e, NEW s, NEW h, h = LastStep(c) + 1,
         CodeInv(c, h, e, s, "lowering"), ~Copied(c, e)
  PROVE  /\ e.nested = <<>>
         /\ LastStep(c) > 0 => e = Variable(Target)
<1> PICK n \in Nat : n = LastStep(c)
  BY ChainTypes
<1>0. e \in Expr(c) /\ Meaning(c, s, e, h, Len(s) + 1)
  BY DEF CodeInv
<1>1. CASE n = 0
  <2>1. PICK k \in 0 .. n : CanFail(c, k)
    BY DEF IsChain, WellTyped
  <2>2. Kind(c, 0) \in {"fallible", "check"}
    BY <1>1, <2>1 DEF CanFail
  <2>3. PICK b : Leads(c, e, b, h)
    BY <1>0 DEF Meaning
  <2>4. e.nested \in Seq(0 .. n)
    BY <1>0 DEF Expr
  <2>5. ASSUME Len(e.nested) # 0 PROVE FALSE
    <3>1. 1 \in 1 .. Len(e.nested)
      BY <2>4, <2>5, LenProperties
    <3>2. e.nested[1] \in 0 .. h - 1 /\ Kind(c, e.nested[1]) = "plain"
      BY <2>3, <3>1 DEF Leads
    <3>3. e.nested[1] = 0
      BY <1>1, <3>2
    <3> QED BY <2>2, <3>2, <3>3
  <2> QED BY <1>1, <2>4, <2>5, EmptySeq
<1>2. CASE n > 0
  <2>1. c.form = "decl" \/ (c.form = "blank" /\ e.nested # <<>>)
    BY <1>2 DEF Copied
  <2>2. CASE c.form = "decl"
    BY <1>2, <2>2 DEF Copied, Variable
  <2>3. CASE c.form = "blank" /\ e.nested # <<>>
    <3>1. ~EndsPlain(c)
      BY <2>3 DEF Supported
    <3>2. Valued(c, h)
      BY <1>2, ChainTypes DEF Valued
    <3>3. Kind(c, ValueBefore(c, h)) # "plain"
      BY <3>1, <3>2, LastNotPlain
    <3> QED BY <1>0, <2>3, <3>2, <3>3, NothingNested
  <2> QED BY <2>1, <2>2, <2>3
<1> QED BY <1>1, <1>2

(* LowerEnd, without. *)
LEMMA EndOnce ==
  ASSUME NEW c, IsChain(c), Supported(c), NEW e, NEW s, NEW h, h = LastStep(c) + 1,
         CodeInv(c, h, e, s, "lowering"), OnceInv(c, h, e, s, "lowering"), ~Copied(c, e)
  PROVE  OnceInv(c, h, e, s, "running")
<1> PICK n \in Nat : n = LastStep(c)
  BY ChainTypes
<1>0. s \in Seq(Statement(c)) /\ AllPlaced(c, h, s, "lowering")
  BY DEF CodeInv
<1> PICK m \in Nat : m = Len(s)
  BY <1>0, LenProperties
<1>1. e.nested = <<>> /\ (n > 0 => e = Variable(Target))
  BY NothingLeftOut
<1>2. ~(h < First(c)) /\ h >= First(c)
  BY ChainTypes
<1> PICK r : r = Reached(c, s, Len(s) + 1)
  OBVIOUS
<1>3. AllOnce(c, s) /\ AllUsed(e, s, "lowering") /\ Covers(e, r, h)
  BY <1>2 DEF OnceInv
<1>4. r \in Int
  <2>1. m # 0 => s[m].step \in {NoValue} \cup 0 .. n
    <3>1. m # 0 => s[m] \in Statement(c)
      BY <1>0, ElementOfSeq
    <3> QED BY <3>1 DEF Statement
  <2> QED BY <2>1, ChainTypes DEF Reached, NoValue
<1>5. r = n
  BY <1>1, <1>3, <1>4 DEF Covers
<1>6. ASSUME NEW p \in 1 .. m, s[p].to \in Nat
      PROVE  \E q \in p + 1 .. m : s[q].arg.from = s[p].to
  <2>1. CASE n > 0
    <3>1. e.from = Target
      BY <1>1, <2>1 DEF Variable
    <3>2. e.from # s[p].to
      BY <1>6, <3>1 DEF Target
    <3> QED BY <1>3, <1>6, <3>2 DEF AllUsed
  <2>2. CASE n = 0
    <3>1. Placed(c, h, s, "lowering", p)
      BY <1>0 DEF AllPlaced
    <3>2. s[p].step \in 0 .. h - 1 /\ s[p].to = IF Kind(c, s[p].step) = "fallible" THEN VarOf(c, s[p].step) ELSE Blank
      BY <3>1 DEF Placed, Emitted
    <3>3. PICK k \in 0 .. n : k = s[p].step
      BY <3>2
    <3>4. ~(VarOf(c, k) \in Nat)
      BY <2>2 DEF VarOf, Target, Blank
    <3>5. ~(s[p].to \in Nat)
      BY <3>2, <3>3, <3>4 DEF Blank
    <3> QED BY <1>6, <3>5
  <2> QED BY <2>1, <2>2
<1>7. AllUsed(e, s, "running")
  BY <1>6 DEF AllUsed
<1> QED BY <1>2, <1>3, <1>5, <1>7 DEF OnceInv

(* No call has been made twice, or left out, before the first statement. *)
LEMMA OnceStarts ==
  ASSUME NEW c, IsChain(c)
  PROVE  OnceInv(c, 0, Variable(Input), <<>>, "lowering")
<1>1. AllOnce(c, <<>>) /\ AllUsed(Variable(Input), <<>>, "lowering")
  BY DEF AllOnce, AllUsed
<1>2. 0 >= First(c) => Covers(Variable(Input), Reached(c, <<>>, Len(<<>>) + 1), 0)
  BY ChainTypes DEF Covers, Variable, Reached
<1> QED BY <1>1, <1>2 DEF OnceInv

(***************************************************************************)
(* Go accepts the code.                                                    *)
(***************************************************************************)

(* The step that assigns to the variable that is declared has the last     *)
(* value.                                                                  *)
LEMMA TargetGetsTheValue ==
  ASSUME NEW c, IsChain(c), Supported(c), LastStep(c) > 0,
         NEW k \in 0 .. LastStep(c), Kind(c, k) = "fallible", VarOf(c, k) = Target,
         NEW h, h = LastStep(c) + 1
  PROVE  ~EndsPlain(c) /\ ValueBefore(c, h) = k
<1> PICK n \in Nat : n = LastStep(c)
  BY ChainTypes
<1>1. /\ c.form = "decl"
      /\ \/ k > 0 /\ k = LastErrStep(c)
         \/ k = 0 /\ \A j \in Steps(c) : c.steps[j] = "check"
  BY TargetVar
<1>2. CASE k = 0 /\ \A j \in Steps(c) : c.steps[j] = "check"
  <2>1. \A j \in 1 .. n : Kind(c, j) = "check"
    BY <1>2, ChainTypes DEF Steps
  <2>2. Reaches(c, 0, n + 1)
    BY <1>2, <2>1 DEF Reaches
  <2>3. ValueBefore(c, n + 1) = 0
    BY <2>2, ReachesOnce
  <2> QED BY <1>2, <2>1, <2>3 DEF EndsPlain
<1>3. CASE k > 0 /\ k = LastErrStep(c)
  <2>1. ~EndsPlain(c)
    <3>1. LastErrStep(c) # -1
      BY <1>3
    <3> QED BY <1>1, <3>1 DEF Supported
  <2>2. Kind(c, 0) # "check"
    BY ChainTypes
  <2>3. PICK j : j = ValueBefore(c, h)
    OBVIOUS
  <2>4. Reaches(c, j, n + 1)
    BY <2>2, <2>3, SomeValue
  <2>5. j \in 0 .. n /\ Kind(c, j) # "check" /\ \A m \in j + 1 .. n : Kind(c, m) = "check"
    BY <2>4 DEF Reaches
  <2>6. j >= k
    BY <2>5
  <2>7. Kind(c, j) # "plain"
    <3>1. Valued(c, h)
      BY <2>2, ChainTypes DEF Valued
    <3> QED BY <2>1, <2>3, <3>1, LastNotPlain
  <2>8. j <= k
    <3>1. j \in Steps(c)
      BY <1>3, <2>5, <2>6 DEF Steps
    <3>2. c.steps[j] = "fallible"
      BY <2>5, <2>7, <3>1, ChainTypes DEF Steps, StepKinds
    <3>3. LastErrStep(c) \in Steps(c) /\ j <= LastErrStep(c)
      BY <3>1, <3>2, LastErrStepIsLast
    <3> QED BY <1>3, <3>3
  <2> QED BY <2>1, <2>3, <2>5, <2>6, <2>8
<1> QED BY <1>1, <1>2, <1>3

(* Where nothing but the variable of a step holds its value. *)
LEMMA HeldByItsVar ==
  ASSUME NEW c, IsChain(c), NEW j, NEW s, NEW o, AllPlaced(c, j, s, o), s \in Seq(Statement(c)),
         NEW p \in 1 .. Len(s) + 1, NEW v, NEW k \in 0 .. LastStep(c), Kind(c, k) = "fallible",
         Holds(c, s, v, k, p)
  PROVE  v = VarOf(c, k)
<1> PICK m \in Nat : m = Len(s)
  BY LenProperties
<1>1. k # InputValue(c)
  BY DEF InputValue, Kind, NoValue
<1>2. PICK q \in 1 .. p - 1 : s[q].step = k /\ s[q].to = v
  BY <1>1 DEF Holds
<1>3. Placed(c, j, s, o, q)
  BY DEF AllPlaced
<1> QED BY <1>2, <1>3 DEF Placed, Emitted, NoValue

(* The last assignment declares a new variable. *)
LEMMA LastIsNew ==
  ASSUME NEW c, IsChain(c), Supported(c), NEW j, NEW e, NEW s, NEW o, CodeInv(c, j, e, s, o),
         c.form = "decl", NEW p \in 1 .. Len(s), s[p].step = NoValue, NEW q \in 1 .. p - 1
  PROVE  s[q].to # Target
<1> PICK n \in Nat : n = LastStep(c)
  BY ChainTypes
<1>0. s \in Seq(Statement(c)) /\ AllPlaced(c, j, s, o) /\ j \in 0 .. n + 1
  BY DEF CodeInv
<1> PICK m \in Nat : m = Len(s)
  BY <1>0, LenProperties
<1>1. SUFFICES ASSUME s[q].to = Target PROVE FALSE
  OBVIOUS
<1>2. Placed(c, j, s, o, q) /\ Placed(c, j, s, o, p)
  BY <1>0 DEF AllPlaced
<1>3. s[q].step # NoValue
  BY <1>2 DEF Placed
<1>4. PICK k \in 0 .. n : k = s[q].step /\ Kind(c, k) = "fallible" /\ VarOf(c, k) = Target
  BY <1>0, <1>1, <1>2, <1>3 DEF Placed, Emitted, Target, Blank
<1>5. n > 0 /\ s[p].arg # Variable(Target)
  BY <1>2 DEF Placed, Emitted, NoValue
<1> PICK h : h = n + 1
  OBVIOUS
<1>6. ~EndsPlain(c) /\ ValueBefore(c, h) = k
  BY <1>4, <1>5, TargetGetsTheValue
<1> PICK a : a = s[p].arg
  OBVIOUS
<1>7. Meaning(c, s, a, h, p)
  BY <1>2 DEF Placed, For
<1>8. a \in Expr(c)
  <2>1. s[p] \in Statement(c)
    BY <1>0, ElementOfSeq
  <2> QED BY <2>1 DEF Statement
<1>9. Valued(c, h)
  BY <1>5, ChainTypes DEF Valued
<1>10. a.nested = <<>>
  <2>1. Kind(c, ValueBefore(c, h)) # "plain"
    BY <1>6, <1>9, LastNotPlain
  <2> QED BY <1>7, <1>8, <1>9, <2>1, NothingNested
<1>11. Holds(c, s, a.from, k, p)
  <2>1. PICK b \in {NoValue} \cup 0 .. n : Holds(c, s, a.from, b, p) /\ Leads(c, a, b, h)
    BY <1>7 DEF Meaning
  <2>2. Len(<<>>) = 0
    OBVIOUS
  <2>3. b = k
    BY <1>6, <1>9, <1>10, <2>1, <2>2 DEF Leads, Made
  <2> QED BY <2>1, <2>3
<1>12. a.from = Target
  <2>1. p \in 1 .. Len(s) + 1
    OBVIOUS
  <2>2. a.from = VarOf(c, k)
    BY <1>0, <1>4, <1>11, <2>1, HeldByItsVar
  <2> QED BY <1>4, <2>2
<1>13. a = Variable(Target)
  BY <1>8, <1>10, <1>12 DEF Variable, Expr
<1> QED BY <1>5, <1>13

(* A statement reads what one before it assigned. *)
LEMMA ReadsWhatWasAssigned ==
  ASSUME NEW c, IsChain(c), NEW j, NEW e, NEW s, NEW o, CodeInv(c, j, e, s, o),
         NEW p \in 1 .. Len(s)
  PROVE  s[p].arg.from = Input \/ \E q \in 1 .. p - 1 : s[q].to = s[p].arg.from /\ s[q].to # Blank
<1> PICK n \in Nat : n = LastStep(c)
  BY ChainTypes
<1>0. s \in Seq(Statement(c)) /\ AllPlaced(c, j, s, o) /\ j \in 0 .. n + 1
  BY DEF CodeInv
<1> PICK m \in Nat : m = Len(s)
  BY <1>0, LenProperties
<1>1. Placed(c, j, s, o, p)
  BY <1>0 DEF AllPlaced
<1>2. PICK b \in {NoValue} \cup 0 .. n : Holds(c, s, s[p].arg.from, b, p)
  BY <1>1 DEF Placed, Meaning
<1>3. CASE s[p].arg.from = Input
  BY <1>3
<1>4. ASSUME NEW q \in 1 .. p - 1, s[q].step = b, b \in 0 .. n, Kind(c, b) = "fallible",
             s[q].to = s[p].arg.from
      PROVE  s[q].to # Blank
  <2>1. Placed(c, j, s, o, q)
    BY <1>0 DEF AllPlaced
  <2>2. s[q].to = VarOf(c, b)
    BY <1>4, <2>1 DEF Placed, Emitted, NoValue
  <2>3. n > 0
    <3>1. CASE s[p].step = NoValue
      BY <1>1, <3>1 DEF Placed, Emitted, NoValue
    <3>2. CASE s[p].step # NoValue
      <4>1. s[p].step \in 0 .. j - 1 /\ s[q].step < s[p].step
        BY <1>1, <1>4, <3>2 DEF Placed, Emitted, For, NoValue
      <4>2. s[p].step <= n
        BY <1>0, <4>1
      <4> QED BY <1>4, <4>1, <4>2
    <3> QED BY <3>1, <3>2
  <2> QED BY <1>4, <2>2, <2>3, VarTypes
<1> QED BY <1>2, <1>3, <1>4 DEF Holds

(***************************************************************************)
(* The steps of the lowering.                                              *)
(***************************************************************************)

(* What an action of the lowering does to the code and the expression. *)
LoweredTo(j, e, s, o) ==
  /\ outcome = "lowering" /\ chain' = chain /\ UNCHANGED running
  /\ i' = j /\ current' = e /\ code' = s /\ outcome' = o

(* One turn of the loop over the steps: the input, a step with an error and a value, one with an
   error alone, or a plain call. *)
LEMMA LowerSteps ==
  ASSUME IsChain(chain), CodeInv(chain, i, current, code, Phase), Lower
  PROVE  \/ /\ chain.base = "input" /\ i = 0
            /\ LoweredTo(1, current, code, "lowering")
         \/ \E k \in 0 .. LastStep(chain) :
              /\ i = k /\ Kind(chain, k) = "fallible"
              /\ LoweredTo(k + 1, Variable(VarOf(chain, k)),
                           Append(code, Check(chain, k, current, VarOf(chain, k))), "lowering")
         \/ \E k \in 0 .. LastStep(chain) :
              /\ i = k /\ Kind(chain, k) = "check"
              /\ LoweredTo(k + 1, current, Append(code, Check(chain, k, current, Blank)), "lowering")
         \/ \E k \in 0 .. LastStep(chain) :
              /\ i = k /\ Kind(chain, k) = "plain"
              /\ LoweredTo(k + 1, Nested(current, k), code, "lowering")
         \/ /\ i = LastStep(chain) + 1 /\ Copied(chain, current)
            /\ LoweredTo(i, current, Append(code, Copy(chain, current)), "running")
         \/ /\ i = LastStep(chain) + 1 /\ ~Copied(chain, current)
            /\ LoweredTo(i, current, code, "running")
<1> PICK n \in Nat : n = LastStep(chain)
  BY ChainTypes
<1>1. CASE LowerInput
  BY <1>1 DEF LowerInput, Lowering, LoweredTo
<1>2. ASSUME NEW k \in 0 .. LastStep(chain), LowerFallible(k)
      PROVE  /\ i = k /\ Kind(chain, k) = "fallible"
             /\ LoweredTo(k + 1, Variable(VarOf(chain, k)),
                          Append(code, Check(chain, k, current, VarOf(chain, k))), "lowering")
  BY <1>2 DEF LowerFallible, Lowering, LoweredTo, Emit, Checked, Check
<1>3. ASSUME NEW k \in 0 .. LastStep(chain), LowerCheck(k)
      PROVE  /\ i = k /\ Kind(chain, k) = "check"
             /\ LoweredTo(k + 1, current, Append(code, Check(chain, k, current, Blank)), "lowering")
  BY <1>3 DEF LowerCheck, Lowering, LoweredTo, Emit, Checked, Check
<1>4. ASSUME NEW k \in 0 .. LastStep(chain), LowerPlain(k)
      PROVE  /\ i = k /\ Kind(chain, k) = "plain"
             /\ LoweredTo(k + 1, Nested(current, k), code, "lowering")
  BY <1>4 DEF LowerPlain, Lowering, LoweredTo, Nested
<1>5. CASE LowerEnd
  <2>1. i = LastStep(chain) + 1
    BY <1>5 DEF LowerEnd, CodeInv
  <2>2. CASE Copied(chain, current)
    <3>1. LoweredTo(i, current, Append(code, Copy(chain, current)), "running")
      BY <1>5, <2>2 DEF LowerEnd, LoweredTo, Copied, Copy, Emit, TargetOf
    <3> QED BY <2>1, <2>2, <3>1
  <2>3. CASE ~Copied(chain, current)
    <3>1. LoweredTo(i, current, code, "running")
      BY <1>5, <2>3 DEF LowerEnd, LoweredTo, Copied, Emit
    <3> QED BY <2>1, <2>3, <3>1
  <2> QED BY <2>2, <2>3
<1> QED BY <1>1, <1>2, <1>3, <1>4, <1>5 DEF Lower

(* Each keeps the description of the code, and for a supported chain that calls are made once. *)
LEMMA LowerKeepsCode ==
  ASSUME IsChain(chain), CodeInv(chain, i, current, code, Phase), Lower
  PROVE  /\ CodeInv(chain', i', current', code', Phase')
         /\ Supported(chain) /\ OnceInv(chain, i, current, code, Phase) =>
              OnceInv(chain', i', current', code', Phase')
<1> PICK n \in Nat : n = LastStep(chain)
  BY ChainTypes
<1> DEFINE Goal(j, e, s, o) ==
             /\ CodeInv(chain, j, e, s, o)
             /\ Supported(chain) /\ OnceInv(chain, i, current, code, "lowering") =>
                  OnceInv(chain, j, e, s, o)
<1>1. ASSUME NEW j, NEW e, NEW s, NEW o \in {"lowering", "running"}, LoweredTo(j, e, s, o),
             Goal(j, e, s, o)
      PROVE  /\ CodeInv(chain', i', current', code', Phase')
             /\ Supported(chain) /\ OnceInv(chain, i, current, code, Phase) =>
                  OnceInv(chain', i', current', code', Phase')
  <2>1. /\ chain' = chain /\ i' = j /\ current' = e /\ code' = s
        /\ Phase = "lowering" /\ Phase' = o
    BY <1>1 DEF LoweredTo, Phase
  <2> QED BY <1>1, <2>1
<1>2. Phase = "lowering"
  <2>1. outcome = "lowering"
    BY LowerSteps DEF LoweredTo
  <2> QED BY <2>1 DEF Phase
<1>3. CodeInv(chain, i, current, code, "lowering")
  BY <1>2
<1>4. CASE chain.base = "input" /\ i = 0 /\ LoweredTo(1, current, code, "lowering")
  <2>1. Goal(1, current, code, "lowering")
    BY <1>3, <1>4, InputCode, InputOnce
  <2> QED BY <1>1, <1>4, <2>1
<1>5. ASSUME NEW k \in 0 .. LastStep(chain), i = k, Kind(chain, k) = "fallible"
      PROVE  Goal(k + 1, Variable(VarOf(chain, k)),
                  Append(code, Check(chain, k, current, VarOf(chain, k))), "lowering")
  BY <1>3, <1>5, FallibleCode, FallibleOnce
<1>6. ASSUME NEW k \in 0 .. LastStep(chain), i = k, Kind(chain, k) = "check"
      PROVE  Goal(k + 1, current, Append(code, Check(chain, k, current, Blank)), "lowering")
  BY <1>3, <1>6, CheckCode, CheckOnce
<1>7. ASSUME NEW k \in 0 .. LastStep(chain), i = k, Kind(chain, k) = "plain"
      PROVE  Goal(k + 1, Nested(current, k), code, "lowering")
  BY <1>3, <1>7, PlainCode, PlainOnce
<1>8. ASSUME i = LastStep(chain) + 1, Copied(chain, current)
      PROVE  Goal(i, current, Append(code, Copy(chain, current)), "running")
  <2>1. LastStep(chain) > 0 /\ (chain.form = "decl" => current # Variable(Target))
    BY <1>8 DEF Copied
  <2> QED BY <1>3, <1>8, <2>1, CopyCode, CopyOnce
<1>9. ASSUME i = LastStep(chain) + 1, ~Copied(chain, current)
      PROVE  Goal(i, current, code, "running")
  BY <1>3, <1>9, EndCode, EndOnce
<1> HIDE DEF Goal
<1> QED BY <1>1, <1>4, <1>5, <1>6, <1>7, <1>8, <1>9, LowerSteps

(* The code does not run while it is made. *)
LEMMA LowerKeepsRun ==
  ASSUME OnErrInv, Lower
  PROVE  RunInv'
<1>1. /\ outcome = "lowering" /\ outcome' \in {"lowering", "running"}
      /\ chain' = chain /\ UNCHANGED running
  BY LowerSteps DEF OnErrInv, LoweredTo
<1>2. code' \in Seq(Statement(chain))
  <2>1. CodeInv(chain', i', current', code', Phase')
    BY LowerKeepsCode DEF OnErrInv
  <2> QED BY <1>1, <2>1 DEF CodeInv
<1>3. pc' = 1 /\ nested' = 0 /\ calls' = <<>> /\ store' = store
  BY <1>1 DEF OnErrInv, RunInv, running
<1>4. \A p \in 1 .. Len(code') : code'[p] \in Statement(chain)
  BY <1>2, ElementOfSeq
<1> PICK m \in Nat : m = Len(code')
  BY <1>2, LenProperties
<1>5. RunTypes'
  <2>1. ASSUME pc' <= m
        PROVE  nested' <= Len(code'[pc'].arg.nested)
    <3>1. code'[1] \in Statement(chain)
      BY <1>3, <1>4, <2>1
    <3>2. Len(code'[1].arg.nested) \in Nat
      BY <3>1, LenProperties DEF Statement, Expr
    <3> QED BY <1>3, <3>2
  <2> QED BY <1>1, <1>3, <2>1 DEF OnErrInv, RunInv, RunTypes
<1>6. Seen(chain', code', pc', calls') /\ InOrder(chain', calls') /\ RightArgs(chain', calls')
  BY <1>3 DEF Seen, InOrder, RightArgs
<1>7. Kept(chain', code', pc', store')
  BY <1>3 DEF Kept
<1> QED BY <1>1, <1>3, <1>5, <1>6, <1>7 DEF OnErrInv, RunInv

(***************************************************************************)
(* The steps of the code.                                                  *)
(***************************************************************************)

(* What a statement needs. *)
LEMMA StatementTypes ==
  ASSUME NEW c, IsChain(c), NEW j, NEW e, NEW s, NEW o, CodeInv(c, j, e, s, o),
         NEW p \in 1 .. Len(s)
  PROVE  /\ s[p] \in Statement(c) /\ s[p].arg \in Expr(c)
         /\ s[p].arg.nested \in Seq(0 .. LastStep(c))
         /\ Len(s[p].arg.nested) \in 0 .. LastStep(c) + 1
         /\ s[p].step = NoValue \/ (s[p].step \in 0 .. LastStep(c) /\ CanFail(c, s[p].step))
         /\ s[p].to # Input /\ s[p].handles # Input
<1> PICK n \in Nat : n = LastStep(c)
  BY ChainTypes
<1>1. s \in Seq(Statement(c)) /\ AllPlaced(c, j, s, o) /\ j \in 0 .. n + 1
  BY DEF CodeInv
<1>2. s[p] \in Statement(c)
  BY <1>1, ElementOfSeq
<1>3. Placed(c, j, s, o, p)
  BY <1>1 DEF AllPlaced
<1>4. s[p].arg \in Expr(c) /\ s[p].arg.nested \in Seq(0 .. n) /\ s[p].handles \in {Target, Blank}
  BY <1>2 DEF Statement, Expr
<1>5. Len(s[p].arg.nested) \in 0 .. n + 1
  <2>1. Len(s[p].arg.nested) \in Nat
    BY <1>4, LenProperties
  <2> QED BY <1>3, <2>1 DEF Placed
<1>6. Emitted(c, s[p], j)
  BY <1>3 DEF Placed
<1>7. s[p].step = NoValue \/ (s[p].step \in 0 .. n /\ CanFail(c, s[p].step))
  BY <1>1, <1>6 DEF Emitted
<1>8. s[p].to # Input
  <2>1. CASE s[p].step = NoValue
    BY <1>6, <2>1 DEF Emitted, TargetOf, Target, Blank, Input, NoValue
  <2>2. CASE s[p].step # NoValue
    <3>1. PICK k \in 0 .. n : k = s[p].step
      BY <1>7, <2>2
    <3>2. s[p].to = VarOf(c, k) \/ s[p].to = Blank
      BY <1>6, <2>2, <3>1 DEF Emitted
    <3>3. VarOf(c, k) # Input
      BY VarTypes
    <3> QED BY <3>2, <3>3 DEF Blank, Input
  <2> QED BY <2>1, <2>2
<1> QED BY <1>2, <1>4, <1>5, <1>7, <1>8 DEF Target, Blank, Input

(* The steps of the statements come in the order of the chain. *)
LEMMA StepsInOrder ==
  ASSUME NEW c, IsChain(c), NEW j, NEW e, NEW s, NEW o, CodeInv(c, j, e, s, o),
         NEW p \in 1 .. Len(s), NEW q \in 1 .. p - 1
  PROVE  /\ s[q].step \in 0 .. LastStep(c)
         /\ s[p].step # NoValue => s[q].step < s[p].step
<1> PICK n \in Nat : n = LastStep(c)
  BY ChainTypes
<1>1. s \in Seq(Statement(c)) /\ AllPlaced(c, j, s, o) /\ j \in 0 .. n + 1
  BY DEF CodeInv
<1> PICK m \in Nat : m = Len(s)
  BY <1>1, LenProperties
<1>2. Placed(c, j, s, o, p) /\ Placed(c, j, s, o, q)
  BY <1>1 DEF AllPlaced
<1>3. s[q].step # NoValue
  BY <1>2 DEF Placed
<1> QED BY <1>1, <1>2, <1>3 DEF Placed, Emitted, For, NoValue

(* No statement writes to the variable of a step before it, but the last. *)
LEMMA OwnVariable ==
  ASSUME NEW c, IsChain(c), NEW j, NEW e, NEW s, NEW o, CodeInv(c, j, e, s, o),
         NEW p \in 1 .. Len(s), NEW q \in 1 .. p - 1, s[p].step # NoValue,
         Kind(c, s[q].step) = "fallible"
  PROVE  s[q].to # s[p].to
<1> PICK n \in Nat : n = LastStep(c)
  BY ChainTypes
<1>1. s \in Seq(Statement(c)) /\ AllPlaced(c, j, s, o) /\ j \in 0 .. n + 1
  BY DEF CodeInv
<1> PICK m \in Nat : m = Len(s)
  BY <1>1, LenProperties
<1>2. Placed(c, j, s, o, p) /\ Placed(c, j, s, o, q)
  BY <1>1 DEF AllPlaced
<1>3. s[q].step \in 0 .. n /\ s[p].step \in 0 .. n /\ s[q].step < s[p].step
  <2>1. s[p].step \in 0 .. n
    BY StatementTypes
  <2> QED BY <2>1, StepsInOrder
<1> PICK k \in 0 .. n : k = s[q].step
  BY <1>3
<1> PICK l \in 0 .. n : l = s[p].step
  BY <1>3
<1>4. s[q].to = VarOf(c, k) /\ s[p].to = IF Kind(c, l) = "fallible" THEN VarOf(c, l) ELSE Blank
  BY <1>2, <1>3 DEF Placed, Emitted, NoValue
<1>5. n > 0 /\ k # l
  BY <1>3
<1>6. VarOf(c, k) # Blank
  BY <1>5, VarTypes
<1>7. Kind(c, l) = "fallible" => VarOf(c, k) # VarOf(c, l)
  BY <1>5, VarsDiffer
<1> QED BY <1>4, <1>6, <1>7

(* The argument of a statement is the value it is to be given. *)
LEMMA ArgumentIsRight ==
  ASSUME NEW c, IsChain(c), NEW j, NEW e, NEW s, NEW o, CodeInv(c, j, e, s, o),
         NEW p \in 1 .. Len(s), NEW st, st[Input] = InputValue(c), Kept(c, s, p, st)
  PROVE  \E b : /\ Leads(c, s[p].arg, b, For(c, s[p]))
                /\ \A x \in Nat : Made(s[p].arg, b, x) =
                                  IF x = 0 THEN st[s[p].arg.from] ELSE s[p].arg.nested[x]
<1>1. Placed(c, j, s, o, p)
  BY DEF CodeInv, AllPlaced
<1>2. PICK b : Holds(c, s, s[p].arg.from, b, p) /\ Leads(c, s[p].arg, b, For(c, s[p]))
  BY <1>1 DEF Placed, Meaning
<1>3. st[s[p].arg.from] = b
  BY <1>2 DEF Holds, Kept
<1> QED BY <1>2, <1>3 DEF Made

(* A call more. *)
LEMMA CallAppends ==
  ASSUME NEW S, NEW cs \in Seq(S), NEW x \in S, NEW t, t = Append(cs, x)
  PROVE  /\ t \in Seq(S) /\ Len(t) = Len(cs) + 1 /\ t[Len(cs) + 1] = x
         /\ \A y \in 1 .. Len(cs) : t[y] = cs[y]
BY AppendProperties

CallOf(c) == [step : 0 .. LastStep(c), arg : Value(c)]

(* A call with the right argument keeps all arguments right. *)
LEMMA ArgsStayRight ==
  ASSUME NEW c, NEW cs \in Seq(CallOf(c)), NEW x \in CallOf(c), NEW t, t = Append(cs, x),
         RightArgs(c, cs), x.arg = ValueBefore(c, x.step)
  PROVE  RightArgs(c, t)
<1> PICK m \in Nat : m = Len(cs)
  BY LenProperties
<1>1. Len(t) = m + 1 /\ t[m + 1] = x /\ \A y \in 1 .. m : t[y] = cs[y]
  BY CallAppends
<1>2. ASSUME NEW y \in 1 .. m + 1
      PROVE  t[y].arg = ValueBefore(c, t[y].step)
  <2>1. CASE y \in 1 .. m
    <3>1. t[y] = cs[y] /\ cs[y].arg = ValueBefore(c, cs[y].step)
      BY <1>1, <2>1 DEF RightArgs
    <3> QED BY <3>1
  <2>2. CASE y = m + 1
    BY <1>1, <2>2
  <2> QED BY <2>1, <2>2
<1> QED BY <1>1, <1>2 DEF RightArgs

(* A plain call is made while statement p runs. *)
LEMMA PlainCallMade ==
  ASSUME NEW c, NEW s, NEW p, NEW cs \in Seq(CallOf(c)), NEW x \in CallOf(c),
         NEW t, t = Append(cs, x), Seen(c, s, p, cs), InOrder(c, cs), ~CanFail(c, x.step)
  PROVE  Seen(c, s, p, t) /\ InOrder(c, t)
<1> PICK m \in Nat : m = Len(cs)
  BY LenProperties
<1>1. Len(t) = m + 1 /\ t[m + 1] = x /\ \A y \in 1 .. m : t[y] = cs[y]
  BY CallAppends
<1>2. \A y \in 1 .. m + 1 : CanFail(c, t[y].step) => y \in 1 .. m
  <2> SUFFICES ASSUME NEW y \in 1 .. m + 1, CanFail(c, t[y].step) PROVE y \in 1 .. m
    OBVIOUS
  <2>1. y # m + 1
    BY <1>1
  <2> QED BY <2>1
<1>3. Seen(c, s, p, t)
  <2>1. ASSUME NEW y \in 1 .. m + 1, CanFail(c, t[y].step)
        PROVE  \E r \in 1 .. p - 1 : s[r].step = t[y].step
    <3>1. y \in 1 .. m /\ t[y] = cs[y]
      BY <1>1, <1>2, <2>1
    <3> QED BY <2>1, <3>1 DEF Seen
  <2> QED BY <1>1, <2>1 DEF Seen
<1>4. InOrder(c, t)
  <2>1. ASSUME NEW y \in 1 .. m + 1, NEW z \in 1 .. m + 1,
               y < z, CanFail(c, t[y].step), CanFail(c, t[z].step)
        PROVE  t[y].step < t[z].step
    <3>1. y \in 1 .. m /\ t[y] = cs[y] /\ z \in 1 .. m /\ t[z] = cs[z]
      BY <1>1, <1>2, <2>1
    <3> QED BY <2>1, <3>1 DEF InOrder
  <2> QED BY <1>1, <2>1 DEF InOrder
<1> QED BY <1>3, <1>4

(* The call of statement p itself. *)
LEMMA StepCallMade ==
  ASSUME NEW c, IsChain(c), NEW j, NEW e, NEW s, NEW o, CodeInv(c, j, e, s, o),
         NEW p \in 1 .. Len(s), s[p].step # NoValue,
         NEW cs \in Seq(CallOf(c)), NEW x \in CallOf(c), x.step = s[p].step,
         NEW t, t = Append(cs, x), Seen(c, s, p, cs), InOrder(c, cs)
  PROVE  Seen(c, s, p + 1, t) /\ InOrder(c, t)
<1> PICK m \in Nat : m = Len(cs)
  BY LenProperties
<1>0. s \in Seq(Statement(c))
  BY DEF CodeInv
<1> PICK l \in Nat : l = Len(s)
  BY <1>0, LenProperties
<1>1. Len(t) = m + 1 /\ t[m + 1] = x /\ \A y \in 1 .. m : t[y] = cs[y]
  BY CallAppends
<1>2. ASSUME NEW y \in 1 .. m, CanFail(c, t[y].step)
      PROVE  \E r \in 1 .. p - 1 : s[r].step = t[y].step
  <2>1. t[y] = cs[y]
    BY <1>1
  <2> QED BY <1>2, <2>1 DEF Seen
<1>3. Seen(c, s, p + 1, t)
  <2>1. ASSUME NEW y \in 1 .. m + 1, CanFail(c, t[y].step)
        PROVE  \E r \in 1 .. (p + 1) - 1 : s[r].step = t[y].step
    <3>1. CASE y \in 1 .. m
      <4>1. PICK r \in 1 .. p - 1 : s[r].step = t[y].step
        BY <1>2, <2>1, <3>1
      <4>2. r \in 1 .. (p + 1) - 1
        OBVIOUS
      <4> QED BY <4>1, <4>2
    <3>2. CASE y = m + 1
      <4>1. p \in 1 .. (p + 1) - 1
        OBVIOUS
      <4> QED BY <1>1, <3>2, <4>1
    <3> QED BY <3>1, <3>2
  <2> QED BY <1>1, <2>1 DEF Seen
<1>4. InOrder(c, t)
  <2>1. ASSUME NEW y \in 1 .. m + 1, NEW z \in 1 .. m + 1,
               y < z, CanFail(c, t[y].step), CanFail(c, t[z].step)
        PROVE  t[y].step < t[z].step
    <3>1. y \in 1 .. m
      BY <2>1
    <3>2. CASE z \in 1 .. m
      <4>1. t[y] = cs[y] /\ t[z] = cs[z]
        BY <1>1, <3>1, <3>2
      <4> QED BY <2>1, <3>1, <3>2, <4>1 DEF InOrder
    <3>3. CASE z = m + 1
      <4>1. PICK r \in 1 .. p - 1 : s[r].step = t[y].step
        BY <1>2, <2>1, <3>1
      <4>2. s[r].step < s[p].step
        BY StepsInOrder
      <4> QED BY <1>1, <3>3, <4>1, <4>2
    <3> QED BY <3>2, <3>3
  <2> QED BY <1>1, <2>1 DEF InOrder
<1> QED BY <1>3, <1>4

(* A run that is at a statement is at one of the code, somewhere in its nested calls. *)
LEMMA AtStatement ==
  ASSUME OnErrInv, AtStmt
  PROVE  /\ pc \in 1 .. Len(code) /\ Stmt = code[pc]
         /\ nested \in 0 .. Len(Stmt.arg.nested)
         /\ ArgValue \in Value(chain)
         /\ outcome \in {"running", "handled"}
         /\ \A k \in 1 .. Len(Stmt.arg.nested) :
              /\ Stmt.arg.nested[k] \in 0 .. LastStep(chain)
              /\ Kind(chain, Stmt.arg.nested[k]) = "plain"
<1> PICK n \in Nat : n = LastStep(chain)
  BY ChainTypes DEF OnErrInv
<1>1. CodeInv(chain, i, current, code, Phase) /\ IsChain(chain)
  BY DEF OnErrInv
<1>2. RunTypes
  BY DEF OnErrInv, RunInv
<1>3. Len(code) \in Nat
  BY <1>1, LenProperties DEF CodeInv
<1>4. pc \in 1 .. Len(code) /\ Stmt = code[pc]
  BY <1>2, <1>3 DEF RunTypes, AtStmt, Stmt
<1> PICK p : p = pc
  OBVIOUS
<1> PICK a : a = Stmt.arg
  OBVIOUS
<1>5. /\ code[p].arg \in Expr(chain) /\ code[p].arg.nested \in Seq(0 .. n)
      /\ Len(code[p].arg.nested) \in 0 .. n + 1
  BY <1>1, <1>4, StatementTypes
<1>6. nested \in 0 .. Len(a.nested)
  BY <1>2, <1>3, <1>4, <1>5 DEF RunTypes
<1>7. ArgValue \in Value(chain)
  <2>1. CASE nested = 0
    <3>1. a.from \in Names(chain)
      BY <1>4, <1>5 DEF Expr
    <3>2. store[a.from] \in Value(chain)
      BY <1>2, <3>1 DEF RunTypes
    <3> QED BY <2>1, <3>2 DEF ArgValue
  <2>2. CASE nested # 0
    <3>1. nested \in 1 .. Len(a.nested)
      BY <1>6, <2>2
    <3>2. a.nested[nested] \in 0 .. n
      BY <1>4, <1>5, <3>1, ElementOfSeq
    <3> QED BY <2>2, <3>2 DEF ArgValue, Value, Default
  <2> QED BY <2>1, <2>2
<1>8. ASSUME NEW k \in 1 .. Len(a.nested)
      PROVE  a.nested[k] \in 0 .. n /\ Kind(chain, a.nested[k]) = "plain"
  <2>1. Placed(chain, i, code, Phase, p)
    BY <1>1, <1>4 DEF CodeInv, AllPlaced
  <2>2. PICK b : Leads(chain, code[p].arg, b, For(chain, code[p]))
    BY <2>1 DEF Placed, Meaning
  <2>3. Kind(chain, a.nested[k]) = "plain"
    BY <1>4, <2>2 DEF Leads
  <2>4. a.nested[k] \in 0 .. n
    BY <1>4, <1>5, ElementOfSeq
  <2> QED BY <2>3, <2>4
<1> QED BY <1>4, <1>6, <1>7, <1>8 DEF AtStmt, Running

(* Before any error, the value at hand is what the statement's step is to get. *)
LEMMA AtStatementRunning ==
  ASSUME OnErrInv, AtStmt, outcome = "running"
  PROVE  /\ Kept(chain, code, pc, store)
         /\ \E b : /\ Leads(chain, Stmt.arg, b, For(chain, Stmt))
                   /\ ArgValue = Made(Stmt.arg, b, nested)
<1>1. CodeInv(chain, i, current, code, Phase) /\ IsChain(chain) /\ store[Input] = InputValue(chain)
  BY DEF OnErrInv, RunInv
<1>2. pc \in 1 .. Len(code) /\ Stmt = code[pc] /\ nested \in Nat
  BY AtStatement DEF OnErrInv, RunInv, RunTypes
<1>3. ~Assigned
  <2>1. SUFFICES ASSUME pc - 1 \in 1 .. pc - 1, code[pc - 1].step = NoValue PROVE FALSE
    BY <1>2 DEF Assigned
  <2>2. code[pc - 1].step \in 0 .. LastStep(chain)
    BY <1>1, <1>2, <2>1, StepsInOrder
  <2> QED BY <2>1, <2>2 DEF NoValue
<1>4. Kept(chain, code, pc, store)
  BY <1>3 DEF OnErrInv, RunInv
<1>5. \E b : /\ Leads(chain, code[pc].arg, b, For(chain, code[pc]))
             /\ \A x \in Nat : Made(code[pc].arg, b, x) =
                               IF x = 0 THEN store[code[pc].arg.from] ELSE code[pc].arg.nested[x]
  BY <1>1, <1>2, <1>4, ArgumentIsRight
<1> QED BY <1>2, <1>4, <1>5 DEF ArgValue

(* Running does not change the code. *)
LEMMA RunKeepsCode ==
  ASSUME OnErrInv, Run
  PROVE  /\ chain' = chain /\ i' = i /\ current' = current /\ code' = code
         /\ Phase = "running" /\ Phase' = "running"
         /\ outcome \in {"running", "handled"}
         /\ IsChain(chain)' /\ CodeInv(chain, i, current, code, Phase)'
<1>1. /\ chain' = chain /\ i' = i /\ current' = current /\ code' = code
      /\ outcome \in {"running", "handled"} /\ outcome' # "lowering"
  BY DEF Run, CallNested, CallSucceeds, CallFails, AssignResult, Done, lowering, ArgReady,
         AtStmt, Running
<1>2. Phase = "running" /\ Phase' = "running"
  BY <1>1 DEF Phase
<1>3. CodeInv(chain', i', current', code', Phase') /\ IsChain(chain')
  BY <1>1, <1>2 DEF OnErrInv
<1> QED BY <1>1, <1>2, <1>3

(* The call that is made next. *)
LEMMA CallIsOne ==
  ASSUME OnErrInv, AtStmt, NEW k \in 0 .. LastStep(chain)
  PROVE  [step |-> k, arg |-> ArgValue] \in CallOf(chain)
BY AtStatement DEF CallOf

(* A plain call inside an argument keeps what is known of the run. *)
LEMMA CallNestedKeeps ==
  ASSUME OnErrInv, CallNested
  PROVE  RunInv'
<1> PICK n \in Nat : n = LastStep(chain)
  BY ChainTypes DEF OnErrInv
<1>1. AtStmt /\ nested < Len(Stmt.arg.nested)
  BY DEF CallNested
<1>2. /\ pc \in 1 .. Len(code) /\ Stmt = code[pc]
      /\ nested \in 0 .. Len(Stmt.arg.nested)
      /\ outcome \in {"running", "handled"}
  BY <1>1, AtStatement
<1>3. /\ chain' = chain /\ code' = code /\ pc' = pc /\ store' = store /\ outcome' = outcome
      /\ nested' = nested + 1
  BY DEF CallNested, lowering
<1>4. IsChain(chain) /\ CodeInv(chain, i, current, code, Phase) /\ RunTypes
  BY DEF OnErrInv, RunInv
<1>5. Len(Stmt.arg.nested) \in Nat /\ Len(code) \in Nat
  BY <1>2, <1>4, StatementTypes, LenProperties DEF CodeInv
<1> PICK k : k = Stmt.arg.nested[nested + 1]
  OBVIOUS
<1> PICK x : x = [step |-> k, arg |-> ArgValue]
  OBVIOUS
<1>6. k \in 0 .. n /\ Kind(chain, k) = "plain"
  <2>1. nested + 1 \in 1 .. Len(Stmt.arg.nested)
    BY <1>1, <1>2, <1>5
  <2> QED BY <1>1, <2>1, AtStatement
<1>7. x \in CallOf(chain) /\ calls' = Append(calls, x) /\ x.step = k /\ x.arg = ArgValue
  BY <1>1, <1>6, CallIsOne DEF CallNested, MakeCall
<1>8. calls \in Seq(CallOf(chain))
  BY <1>4 DEF RunTypes, CallOf
<1>9. calls' \in Seq(CallOf(chain))
  BY <1>7, <1>8, CallAppends
<1>10. Seen(chain, code, pc, calls') /\ InOrder(chain, calls')
  <2>1. ~CanFail(chain, x.step)
    BY <1>6, <1>7 DEF CanFail
  <2>2. Seen(chain, code, pc, calls) /\ InOrder(chain, calls)
    BY DEF OnErrInv, RunInv
  <2> QED BY <1>7, <1>8, <2>1, <2>2, PlainCallMade
<1>11. ASSUME chain.handler = "leave"
       PROVE  RightArgs(chain, calls')
  <2>1. outcome = "running" /\ RightArgs(chain, calls)
    BY <1>2, <1>11 DEF OnErrInv, RunInv
  <2>2. PICK b : Leads(chain, Stmt.arg, b, For(chain, Stmt)) /\ ArgValue = Made(Stmt.arg, b, nested)
    BY <1>1, <2>1, AtStatementRunning
  <2>3. nested + 1 \in 1 .. Len(Stmt.arg.nested) /\ (nested + 1) - 1 = nested
    BY <1>1, <1>2, <1>5
  <2>4. ValueBefore(chain, k) = Made(Stmt.arg, b, nested)
    BY <2>2, <2>3 DEF Leads
  <2>5. x.arg = ValueBefore(chain, x.step)
    BY <1>7, <2>2, <2>4
  <2> QED BY <1>7, <1>8, <2>1, <2>5, ArgsStayRight
<1>12. RunTypes'
  <2>1. nested + 1 \in Nat /\ nested + 1 <= Len(Stmt.arg.nested) /\ pc # Len(code) + 1
    BY <1>1, <1>2, <1>5
  <2> QED BY <1>2, <1>3, <1>4, <1>9, <2>1 DEF RunTypes, CallOf
<1>13. Assigned' = Assigned
  BY <1>3 DEF Assigned
<1> QED BY <1>2, <1>3, <1>10, <1>11, <1>12, <1>13 DEF OnErrInv, RunInv

(* The call of a statement, whatever it returns. *)
LEMMA StepCall ==
  ASSUME OnErrInv, ArgReady, Stmt.step # NoValue, MakeCall(Stmt.step)
  PROVE  /\ calls' \in Seq(CallOf(chain))
         /\ Seen(chain, code, pc + 1, calls') /\ InOrder(chain, calls')
         /\ chain.handler = "leave" => RightArgs(chain, calls')
<1> PICK n \in Nat : n = LastStep(chain)
  BY ChainTypes DEF OnErrInv
<1>1. AtStmt /\ nested = Len(Stmt.arg.nested)
  BY DEF ArgReady
<1>2. /\ pc \in 1 .. Len(code) /\ Stmt = code[pc]
      /\ outcome \in {"running", "handled"}
  BY <1>1, AtStatement
<1>3. IsChain(chain) /\ CodeInv(chain, i, current, code, Phase) /\ RunTypes
  BY DEF OnErrInv, RunInv
<1> PICK k : k = Stmt.step
  OBVIOUS
<1> PICK x : x = [step |-> k, arg |-> ArgValue]
  OBVIOUS
<1>4. k \in 0 .. n /\ CanFail(chain, k) /\ code[pc].step # NoValue
  BY <1>2, <1>3, StatementTypes
<1>5. x \in CallOf(chain) /\ calls' = Append(calls, x) /\ x.step = code[pc].step /\ x.arg = ArgValue
  BY <1>1, <1>2, <1>4, CallIsOne DEF MakeCall
<1>6. calls \in Seq(CallOf(chain))
  BY <1>3 DEF RunTypes, CallOf
<1>7. calls' \in Seq(CallOf(chain))
  BY <1>5, <1>6, CallAppends
<1>8. Seen(chain, code, pc, calls) /\ InOrder(chain, calls)
  BY DEF OnErrInv, RunInv
<1>9. Seen(chain, code, pc + 1, calls') /\ InOrder(chain, calls')
  BY <1>2, <1>3, <1>4, <1>5, <1>6, <1>8, StepCallMade
<1>10. ASSUME chain.handler = "leave"
       PROVE  RightArgs(chain, calls')
  <2>1. outcome = "running" /\ RightArgs(chain, calls)
    BY <1>2, <1>10 DEF OnErrInv, RunInv
  <2>2. PICK b : Leads(chain, Stmt.arg, b, For(chain, Stmt)) /\ ArgValue = Made(Stmt.arg, b, nested)
    BY <1>1, <2>1, AtStatementRunning
  <2>3. For(chain, Stmt) = k
    BY <1>2, <1>4 DEF For
  <2>4. Valued(chain, k)
    BY <1>3, <1>4, StepsAreCalls DEF CanFail, StepKinds
  <2>5. ValueBefore(chain, k) = ArgValue
    BY <1>1, <2>2, <2>3, <2>4 DEF Leads
  <2>6. x.arg = ValueBefore(chain, x.step)
    BY <1>2, <1>5, <2>5
  <2> QED BY <1>5, <1>6, <2>1, <2>6, ArgsStayRight
<1> QED BY <1>7, <1>9, <1>10

(* A variable is written. *)
LEMMA StoreTypes ==
  ASSUME NEW c, IsChain(c), NEW st \in [Names(c) -> Value(c)], NEW v, NEW x \in Value(c)
  PROVE  [st EXCEPT ![v] = x] \in [Names(c) -> Value(c)]
OBVIOUS

(* The zero value, the default, the old value and every result are values. *)
LEMMA SpecialValues ==
  ASSUME NEW c, IsChain(c)
  PROVE  /\ Zero \in Value(c) /\ Default \in Value(c) /\ Old \in Value(c) /\ NoValue \in Value(c)
         /\ 0 .. LastStep(c) \subseteq Value(c)
BY ChainTypes DEF Value, Zero, Default, Old, NoValue

(* The types of the run after a statement. *)
LEMMA NextStmtTypes ==
  ASSUME OnErrInv, Run, ArgReady, NextStmt,
         store' \in [Names(chain) -> Value(chain)], calls' \in Seq(CallOf(chain)),
         outcome' \in {"running", "handled", "left"}
  PROVE  RunTypes' /\ pc' = pc + 1 /\ pc \in 1 .. Len(code)
<1>1. chain' = chain /\ code' = code
  BY RunKeepsCode
<1>2. pc \in 1 .. Len(code) /\ IsChain(chain) /\ CodeInv(chain, i, current, code, Phase)
  BY AtStatement DEF ArgReady, OnErrInv
<1>3. Len(code) \in Nat
  BY <1>2, LenProperties DEF CodeInv
<1>4. pc' = pc + 1 /\ nested' = 0
  BY DEF NextStmt
<1>5. ASSUME pc + 1 <= Len(code)
      PROVE  0 <= Len(code[pc + 1].arg.nested)
  <2>1. PICK p \in 1 .. Len(code) : p = pc + 1
    BY <1>2, <1>3, <1>5
  <2>2. Len(code[p].arg.nested) \in 0 .. LastStep(chain) + 1
    BY <1>2, StatementTypes
  <2> QED BY <2>1, <2>2
<1>6. RunTypes'
  BY <1>1, <1>2, <1>3, <1>4, <1>5 DEF RunTypes, CallOf
<1> QED BY <1>2, <1>4, <1>6

(* A call that succeeds stores its result where the following steps look for it. *)
LEMMA CallSucceedsKeeps ==
  ASSUME OnErrInv, CallSucceeds
  PROVE  RunInv'
<1> PICK n \in Nat : n = LastStep(chain)
  BY ChainTypes DEF OnErrInv
<1>1. /\ ArgReady /\ Stmt.step # NoValue /\ MakeCall(Stmt.step) /\ NextStmt /\ Run
      /\ outcome' = outcome /\ store' = [store EXCEPT ![Stmt.to] = Stmt.step]
  BY DEF CallSucceeds, Run
<1>2. chain' = chain /\ code' = code /\ IsChain(chain)
  BY <1>1, RunKeepsCode DEF OnErrInv
<1>3. /\ pc \in 1 .. Len(code) /\ Stmt = code[pc] /\ outcome \in {"running", "handled"} /\ AtStmt
  BY <1>1, AtStatement DEF ArgReady
<1>4. CodeInv(chain, i, current, code, Phase) /\ store \in [Names(chain) -> Value(chain)]
  BY DEF OnErrInv, RunInv, RunTypes
<1>5. Stmt.step \in 0 .. n /\ Stmt.to # Input /\ Stmt.to \in Names(chain)
  BY <1>1, <1>2, <1>3, <1>4, StatementTypes DEF Statement
<1>6. store' \in [Names(chain) -> Value(chain)]
  BY <1>1, <1>2, <1>4, <1>5, StoreTypes, SpecialValues
<1>7. /\ calls' \in Seq(CallOf(chain))
      /\ Seen(chain, code, pc + 1, calls') /\ InOrder(chain, calls')
      /\ chain.handler = "leave" => RightArgs(chain, calls')
  BY <1>1, StepCall
<1>8. RunTypes' /\ pc' = pc + 1
  BY <1>1, <1>3, <1>6, <1>7, NextStmtTypes
<1>9. store'[Input] = InputValue(chain)
  BY <1>1, <1>4, <1>5 DEF OnErrInv, RunInv, Names
<1>10. ASSUME outcome = "running"
       PROVE  Kept(chain, code, pc + 1, store')
  <2>1. Kept(chain, code, pc, store)
    BY <1>3, <1>10, AtStatementRunning
  <2>2. ASSUME NEW q \in 1 .. (pc + 1) - 1, Kind(chain, code[q].step) = "fallible"
        PROVE  store'[code[q].to] = code[q].step
    <3>1. q \in 1 .. Len(code)
      <4>1. Len(code) \in Nat
        BY <1>4, LenProperties DEF CodeInv
      <4> QED BY <1>3, <4>1
    <3>2. code[q].to \in Names(chain)
      BY <1>2, <1>4, <3>1, StatementTypes DEF Statement
    <3>3. CASE q = pc
      BY <1>1, <1>3, <1>4, <1>5, <3>3
    <3>4. CASE q # pc
      <4>1. q \in 1 .. pc - 1
        BY <1>3, <3>4
      <4>2. code[q].to # code[pc].to
        BY <1>1, <1>2, <1>3, <1>4, <2>2, <4>1, OwnVariable
      <4>3. store[code[q].to] = code[q].step
        BY <2>1, <2>2, <4>1 DEF Kept
      <4> QED BY <1>1, <1>3, <1>4, <3>2, <4>2, <4>3
    <3> QED BY <3>3, <3>4
  <2> QED BY <2>2 DEF Kept
<1> QED BY <1>1, <1>2, <1>3, <1>7, <1>8, <1>9, <1>10 DEF OnErrInv, RunInv

(* A call that fails leaves the chain or hands it to the handler. *)
LEMMA CallFailsKeeps ==
  ASSUME OnErrInv, CallFails
  PROVE  RunInv'
<1> PICK n \in Nat : n = LastStep(chain)
  BY ChainTypes DEF OnErrInv
<1>1. /\ ArgReady /\ Stmt.step # NoValue /\ MakeCall(Stmt.step) /\ NextStmt /\ Run
      /\ outcome' = IF chain.handler = "leave" THEN "left" ELSE "handled"
      /\ store' = IF chain.handler = "default"
                  THEN [store EXCEPT ![Stmt.to] = Zero, ![Stmt.handles] = Default]
                  ELSE [store EXCEPT ![Stmt.to] = Zero]
  BY DEF CallFails, Run
<1>2. chain' = chain /\ code' = code /\ IsChain(chain)
  BY <1>1, RunKeepsCode DEF OnErrInv
<1>3. pc \in 1 .. Len(code) /\ Stmt = code[pc]
  BY <1>1, AtStatement DEF ArgReady
<1>4. CodeInv(chain, i, current, code, Phase) /\ store \in [Names(chain) -> Value(chain)]
  BY DEF OnErrInv, RunInv, RunTypes
<1>5. Stmt.to # Input /\ Stmt.handles # Input
  BY <1>1, <1>2, <1>3, <1>4, StatementTypes
<1>6. store' \in [Names(chain) -> Value(chain)]
  <2>1. Zero \in Value(chain) /\ Default \in Value(chain)
    BY <1>2, SpecialValues
  <2>2. [store EXCEPT ![Stmt.to] = Zero] \in [Names(chain) -> Value(chain)]
    BY <1>2, <1>4, <2>1, StoreTypes
  <2>3. [[store EXCEPT ![Stmt.to] = Zero] EXCEPT ![Stmt.handles] = Default] \in [Names(chain) -> Value(chain)]
    BY <1>2, <2>1, <2>2, StoreTypes
  <2> QED BY <1>1, <2>2, <2>3
<1>7. /\ calls' \in Seq(CallOf(chain))
      /\ Seen(chain, code, pc + 1, calls') /\ InOrder(chain, calls')
      /\ chain.handler = "leave" => RightArgs(chain, calls')
  BY <1>1, StepCall
<1>8. RunTypes' /\ pc' = pc + 1
  BY <1>1, <1>3, <1>6, <1>7, NextStmtTypes
<1>9. store'[Input] = InputValue(chain)
  <2>1. store[Input] = InputValue(chain) /\ Input \in Names(chain)
    BY DEF OnErrInv, RunInv, Names
  <2>2. [store EXCEPT ![Stmt.to] = Zero][Input] = store[Input]
    BY <1>4, <1>5, <2>1
  <2>3. [store EXCEPT ![Stmt.to] = Zero, ![Stmt.handles] = Default][Input] = store[Input]
    BY <1>4, <1>5, <2>1
  <2> QED BY <1>1, <2>1, <2>2, <2>3
<1> QED BY <1>1, <1>2, <1>7, <1>8, <1>9 DEF OnErrInv, RunInv

(* The last statement assigns the value of the chain. *)
LEMMA AssignResultKeeps ==
  ASSUME OnErrInv, AssignResult
  PROVE  RunInv'
<1> PICK n \in Nat : n = LastStep(chain)
  BY ChainTypes DEF OnErrInv
<1>1. /\ ArgReady /\ Stmt.step = NoValue /\ NextStmt /\ Run
      /\ outcome' = outcome /\ calls' = calls /\ store' = [store EXCEPT ![Stmt.to] = ArgValue]
  BY DEF AssignResult, Run
<1>2. chain' = chain /\ code' = code /\ IsChain(chain)
  BY <1>1, RunKeepsCode DEF OnErrInv
<1>3. /\ pc \in 1 .. Len(code) /\ Stmt = code[pc] /\ outcome \in {"running", "handled"}
      /\ ArgValue \in Value(chain)
  BY <1>1, AtStatement DEF ArgReady
<1>4. CodeInv(chain, i, current, code, Phase) /\ store \in [Names(chain) -> Value(chain)] /\ RunTypes
  BY DEF OnErrInv, RunInv, RunTypes
<1>5. Stmt.to # Input
  BY <1>2, <1>3, <1>4, StatementTypes
<1>6. store' \in [Names(chain) -> Value(chain)]
  BY <1>1, <1>2, <1>3, <1>4, StoreTypes
<1>7. calls' \in Seq(CallOf(chain))
  BY <1>1, <1>4 DEF RunTypes, CallOf
<1>8. RunTypes' /\ pc' = pc + 1
  BY <1>1, <1>3, <1>6, <1>7, NextStmtTypes
<1>9. store'[Input] = InputValue(chain)
  BY <1>1, <1>4, <1>5 DEF OnErrInv, RunInv, Names
<1>10. Assigned'
  BY <1>1, <1>2, <1>3, <1>8 DEF Assigned
<1>11. Seen(chain, code, pc + 1, calls)
  <2>1. 1 .. pc - 1 \subseteq 1 .. (pc + 1) - 1
    BY <1>3
  <2>2. Seen(chain, code, pc, calls)
    BY DEF OnErrInv, RunInv
  <2> QED BY <2>1, <2>2 DEF Seen
<1>12. InOrder(chain, calls) /\ (chain.handler = "leave" => outcome # "handled" /\ RightArgs(chain, calls))
  BY DEF OnErrInv, RunInv
<1>13. outcome' # "lowering"
  BY <1>1, <1>3
<1> QED BY <1>1, <1>2, <1>8, <1>9, <1>10, <1>11, <1>12, <1>13 DEF RunInv

(* A run that has ended stays as it is. *)
LEMMA DoneKeeps ==
  ASSUME OnErrInv, Done
  PROVE  RunInv'
<1>1. /\ chain' = chain /\ code' = code /\ pc' = pc /\ nested' = nested /\ store' = store
      /\ calls' = calls /\ outcome' = "done"
  BY DEF Done, lowering, running
<1>2. RunTypes'
  BY <1>1 DEF OnErrInv, RunInv, RunTypes
<1> QED BY <1>1, <1>2 DEF OnErrInv, RunInv

(***************************************************************************)
(* The invariant.                                                          *)
(***************************************************************************)

(* Every program starts with no code and no run. *)
LEMMA OnErrStarts == Init => OnErrInv
<1> SUFFICES ASSUME Init PROVE OnErrInv
  OBVIOUS
<1>1. IsChain(chain)
  BY ProgramsAssumption DEF Init, IsChain
<1> PICK n \in Nat : n = LastStep(chain)
  BY <1>1, ChainTypes
<1>2. Phase = "lowering" /\ current = Variable(Input) /\ i = 0 /\ code = <<>>
  BY DEF Init, Phase, Variable
<1>3. CodeInv(chain, i, current, code, Phase)
  BY <1>1, <1>2, CodeStarts
<1>4. store \in [Names(chain) -> Value(chain)]
  <2>1. Old \in Value(chain) /\ NoValue \in Value(chain) /\ 0 \in Value(chain)
    BY <1>1, SpecialValues
  <2> QED BY <2>1 DEF Init
<1>5. RunTypes
  BY <1>4 DEF Init, RunTypes
<1>6. store[Input] = InputValue(chain)
  BY DEF Init, Names, InputValue
<1> QED BY <1>1, <1>3, <1>5, <1>6 DEF Init, OnErrInv, RunInv, RightArgs, Seen, InOrder, Kept

(* Making the code and running it keep the invariant. *)
LEMMA OnErrSteps == OnErrInv /\ [Next]_vars => OnErrInv'
<1> SUFFICES ASSUME OnErrInv, [Next]_vars PROVE OnErrInv'
  OBVIOUS
<1>1. CASE Lower
  <2>1. RunInv'
    BY <1>1, LowerKeepsRun
  <2>2. CodeInv(chain, i, current, code, Phase)'
    BY <1>1, LowerKeepsCode DEF OnErrInv
  <2>3. chain' = chain
    BY <1>1, LowerSteps DEF LoweredTo, OnErrInv
  <2> QED BY <2>1, <2>2, <2>3 DEF OnErrInv
<1>2. CASE Run
  <2>1. RunInv'
    BY <1>2, CallNestedKeeps, CallSucceedsKeeps, CallFailsKeeps, AssignResultKeeps, DoneKeeps DEF Run
  <2> QED BY <1>2, <2>1, RunKeepsCode DEF OnErrInv
<1>3. CASE UNCHANGED vars
  BY <1>3 DEF OnErrInv, RunInv, RunTypes, Assigned, Phase, vars, lowering, running
<1> QED BY <1>1, <1>2, <1>3 DEF Next, Finished

(***************************************************************************)
(* Supported chains keep the promise.                                      *)
(***************************************************************************)

KeepsOnce == Supported(chain) /\ OnceInv(chain, i, current, code, Phase) /\ PromiseInv

(* What the code has reached is a step, or none yet. *)
LEMMA ReachedIsStep ==
  ASSUME NEW c, IsChain(c), NEW s \in Seq(Statement(c)), NEW p \in 1 .. Len(s) + 1
  PROVE  Reached(c, s, p) \in -1 .. LastStep(c)
<1> PICK n \in Nat : n = LastStep(c)
  BY ChainTypes
<1> PICK m \in Nat : m = Len(s)
  BY LenProperties
<1>1. CASE p = 1
  BY <1>1, ChainTypes DEF Reached
<1>2. CASE p # 1
  <2>1. p - 1 \in 1 .. Len(s)
    BY <1>2
  <2>2. s[p - 1] \in Statement(c)
    BY <2>1, ElementOfSeq
  <2>3. s[p - 1].step \in {NoValue} \cup 0 .. n
    BY <2>2 DEF Statement
  <2> QED BY <1>2, <2>3 DEF Reached, NoValue
<1> QED BY <1>1, <1>2

(* One statement further, it is the step of that statement, or the last one. *)
LEMMA ReachedNext ==
  ASSUME NEW c, NEW s, NEW p \in Nat, p > 0
  PROVE  Reached(c, s, p + 1) = IF s[p].step = NoValue THEN LastStep(c) ELSE s[p].step
BY DEF Reached

(* What a statement of a supported chain calls next; after an error, the   *)
(* handler having come to its end, there is only the assignment left.      *)
LEMMA AtSupported ==
  ASSUME OnErrInv, KeepsOnce, AtStmt, NEW n \in Nat, n = LastStep(chain)
  PROVE  \E r \in -1 .. n, d \in Nat :
           /\ r = Reached(chain, code, pc) /\ d = Len(Stmt.arg.nested)
           /\ For(chain, Stmt) = r + d + 1 /\ r + d <= n
           /\ \A m \in 1 .. d : Stmt.arg.nested[m] = r + m
           /\ outcome = "running" => First(chain) + Len(calls) = r + 1 + nested
           /\ outcome = "handled" => d = 0 /\ Stmt.step = NoValue
<1>1. /\ pc \in 1 .. Len(code) /\ Stmt = code[pc]
      /\ IsChain(chain) /\ CodeInv(chain, i, current, code, Phase)
  BY AtStatement DEF OnErrInv
<1>2. code \in Seq(Statement(chain)) /\ pc \in 1 .. Len(code) + 1
  BY <1>1 DEF CodeInv
<1> PICK r \in -1 .. n : r = Reached(chain, code, pc)
  BY <1>1, <1>2, ReachedIsStep
<1> PICK p : p = pc
  OBVIOUS
<1>3. /\ Len(code[p].arg.nested) \in Nat
      /\ code[p].step = NoValue \/ code[p].step \in 0 .. n
  BY <1>1, StatementTypes
<1> PICK d \in Nat : d = Len(Stmt.arg.nested)
  BY <1>1, <1>3
<1>4. Covers(Stmt.arg, r, For(chain, Stmt))
  BY <1>1 DEF KeepsOnce, OnceInv, AllOnce
<1>5. r + d + 1 = For(chain, Stmt) /\ \A m \in 1 .. d : Stmt.arg.nested[m] = r + m
  BY <1>4 DEF Covers
<1>6. For(chain, Stmt) <= n + 1
  BY <1>1, <1>3 DEF For
<1>7. ASSUME outcome = "handled"
      PROVE  d = 0 /\ Stmt.step = NoValue
  <2>1. r = n
    BY <1>7 DEF KeepsOnce, PromiseInv
  <2>2. d = 0
    BY <1>5, <1>6, <2>1
  <2>3. For(chain, Stmt) = n + 1
    BY <1>5, <2>1, <2>2
  <2> QED BY <1>1, <1>3, <2>2, <2>3 DEF For
<1>8. outcome = "running" => First(chain) + Len(calls) = r + 1 + nested
  BY DEF KeepsOnce, PromiseInv
<1>9. r + d <= n
  BY <1>5, <1>6
<1> WITNESS r \in -1 .. n, d \in Nat
<1> QED BY <1>5, <1>7, <1>8, <1>9

(* While no error was returned, the next call is that of the next step,    *)
(* with the value of the chain.                                            *)
LEMMA NestedCallIsNext ==
  ASSUME OnErrInv, KeepsOnce, AtStmt, nested < Len(Stmt.arg.nested)
  PROVE  /\ outcome = "running"
         /\ Stmt.arg.nested[nested + 1] = First(chain) + Len(calls)
         /\ First(chain) + Len(calls) \in 0 .. LastStep(chain)
         /\ ArgValue = ValueBefore(chain, First(chain) + Len(calls))
<1> PICK n \in Nat : n = LastStep(chain)
  BY ChainTypes DEF OnErrInv
<1>1. PICK r \in -1 .. n, d \in Nat :
           /\ r = Reached(chain, code, pc) /\ d = Len(Stmt.arg.nested)
           /\ For(chain, Stmt) = r + d + 1 /\ r + d <= n
           /\ \A m \in 1 .. d : Stmt.arg.nested[m] = r + m
           /\ outcome = "running" => First(chain) + Len(calls) = r + 1 + nested
           /\ outcome = "handled" => d = 0 /\ Stmt.step = NoValue
  BY AtSupported
<1>2. nested \in 0 .. d /\ outcome \in {"running", "handled"}
  BY <1>1, AtStatement
<1>3. outcome = "running"
  BY <1>1, <1>2
<1>4. nested + 1 \in 1 .. d /\ (nested + 1) - 1 = nested
  BY <1>1, <1>2
<1> PICK k : k = Stmt.arg.nested[nested + 1]
  OBVIOUS
<1>5. k = r + 1 + nested /\ k = First(chain) + Len(calls)
  <2>1. k = r + (nested + 1)
    BY <1>1, <1>4
  <2>2. r \in Int /\ nested \in Int
    BY <1>2
  <2> QED BY <1>1, <1>3, <2>1, <2>2
<1>6. PICK b : Leads(chain, Stmt.arg, b, For(chain, Stmt)) /\ ArgValue = Made(Stmt.arg, b, nested)
  BY <1>3, AtStatementRunning
<1>7. ValueBefore(chain, k) = ArgValue
  BY <1>1, <1>4, <1>6 DEF Leads
<1>8. k \in 0 .. n
  BY <1>1, <1>4, AtStatement
<1> QED BY <1>3, <1>5, <1>7, <1>8

(* In a supported chain, the call a run is about to make is the next one of the promise, with the
   argument promised. *)
LEMMA StepCallIsNext ==
  ASSUME OnErrInv, KeepsOnce, ArgReady, Stmt.step # NoValue
  PROVE  /\ outcome = "running"
         /\ Stmt.step = First(chain) + Len(calls)
         /\ Stmt.step \in 0 .. LastStep(chain) /\ CanFail(chain, Stmt.step)
         /\ ArgValue = ValueBefore(chain, Stmt.step)
<1> PICK n \in Nat : n = LastStep(chain)
  BY ChainTypes DEF OnErrInv
<1>0. AtStmt /\ nested = Len(Stmt.arg.nested)
  BY DEF ArgReady
<1>1. PICK r \in -1 .. n, d \in Nat :
           /\ r = Reached(chain, code, pc) /\ d = Len(Stmt.arg.nested)
           /\ For(chain, Stmt) = r + d + 1 /\ r + d <= n
           /\ \A m \in 1 .. d : Stmt.arg.nested[m] = r + m
           /\ outcome = "running" => First(chain) + Len(calls) = r + 1 + nested
           /\ outcome = "handled" => d = 0 /\ Stmt.step = NoValue
  BY <1>0, AtSupported
<1>2. /\ pc \in 1 .. Len(code) /\ Stmt = code[pc] /\ outcome \in {"running", "handled"}
      /\ IsChain(chain) /\ CodeInv(chain, i, current, code, Phase)
  BY <1>0, AtStatement DEF OnErrInv
<1>3. outcome = "running"
  BY <1>1, <1>2
<1>4. Stmt.step \in 0 .. n /\ CanFail(chain, Stmt.step)
  BY <1>2, StatementTypes
<1>5. For(chain, Stmt) = Stmt.step
  BY DEF For
<1>6. Stmt.step = First(chain) + Len(calls)
  <2>1. nested = d /\ First(chain) + Len(calls) = r + 1 + nested /\ Stmt.step = r + d + 1
    BY <1>0, <1>1, <1>3, <1>5
  <2> QED BY <2>1
<1>7. PICK b : Leads(chain, Stmt.arg, b, For(chain, Stmt)) /\ ArgValue = Made(Stmt.arg, b, nested)
  BY <1>0, <1>3, AtStatementRunning
<1>8. Valued(chain, Stmt.step)
  BY <1>2, <1>4, StepsAreCalls DEF CanFail, StepKinds
<1>9. ArgValue = ValueBefore(chain, Stmt.step)
  BY <1>0, <1>5, <1>7, <1>8 DEF Leads
<1> QED BY <1>3, <1>4, <1>6, <1>9

(* What a statement writes to. *)
LEMMA WritesTarget ==
  ASSUME NEW c, IsChain(c), NEW j, NEW e, NEW s, NEW o, CodeInv(c, j, e, s, o),
         NEW p \in 1 .. Len(s)
  PROVE  /\ s[p].to = Target \/ s[p].handles = Target => HasTarget(c)
         /\ s[p].step = NoValue => s[p].to = TargetOf(c) /\ LastStep(c) > 0
         /\ s[p].step # NoValue =>
              /\ s[p].to = Result(c, s[p].step)
              /\ s[p].handles = HandlerNames(c, Result(c, s[p].step))
<1> PICK n \in Nat : n = LastStep(c)
  BY ChainTypes
<1>1. s \in Seq(Statement(c)) /\ AllPlaced(c, j, s, o) /\ j \in 0 .. n + 1
  BY DEF CodeInv
<1>2. Emitted(c, s[p], j)
  BY <1>1 DEF AllPlaced, Placed
<1>3. ASSUME s[p].step = NoValue
      PROVE  s[p].to = TargetOf(c) /\ n > 0 /\ s[p].handles = Blank
  BY <1>2, <1>3 DEF Emitted, NoValue
<1>4. ASSUME s[p].step # NoValue
      PROVE  /\ s[p].step \in 0 .. n
             /\ s[p].to = Result(c, s[p].step)
             /\ s[p].handles = HandlerNames(c, Result(c, s[p].step))
  <2>1. s[p].step \in 0 .. n
    BY <1>4, StatementTypes
  <2> QED BY <1>2, <1>4, <2>1 DEF Emitted, Result
<1>5. ASSUME s[p].to = Target \/ s[p].handles = Target
      PROVE  HasTarget(c)
  <2>1. CASE s[p].step = NoValue
    BY <1>3, <1>5, <2>1 DEF TargetOf, Target, Blank
  <2>2. CASE s[p].step # NoValue
    <3>1. PICK k \in 0 .. n : k = s[p].step
      BY <1>4, <2>2
    <3>2. CASE s[p].to = Target
      <4>1. VarOf(c, k) = Target
        BY <1>4, <2>2, <3>1, <3>2 DEF Result, Target, Blank
      <4> QED BY <4>1, VarTypes
    <3>3. CASE s[p].handles = Target
      BY <1>4, <2>2, <3>3 DEF HandlerNames, Target, Blank, HasTarget
    <3> QED BY <1>5, <3>2, <3>3
  <2> QED BY <2>1, <2>2
<1> QED BY <1>3, <1>4, <1>5

(* What is not the target's is not assigned to it. *)
LEMMA NoTargetStays ==
  ASSUME OnErrInv, AtStmt, ~HasTarget(chain), store[Target] = Old, NEW x, NEW y
  PROVE  /\ [store EXCEPT ![Stmt.to] = x][Target] = Old
         /\ [store EXCEPT ![Stmt.to] = x, ![Stmt.handles] = y][Target] = Old
<1>1. /\ pc \in 1 .. Len(code) /\ Stmt = code[pc]
      /\ IsChain(chain) /\ CodeInv(chain, i, current, code, Phase)
      /\ store \in [Names(chain) -> Value(chain)]
  BY AtStatement DEF OnErrInv, RunInv, RunTypes
<1>2. Stmt.to # Target /\ Stmt.handles # Target
  BY <1>1, WritesTarget
<1>3. Target \in Names(chain)
  BY DEF Names
<1> QED BY <1>1, <1>2, <1>3

(* Making the code makes no call. *)
LEMMA LowerKeepsPromise ==
  ASSUME OnErrInv, KeepsOnce, Lower
  PROVE  PromiseInv'
<1> PICK n \in Nat : n = LastStep(chain)
  BY ChainTypes DEF OnErrInv
<1>1. /\ outcome = "lowering" /\ outcome' \in {"lowering", "running"}
      /\ chain' = chain /\ UNCHANGED running
  BY LowerSteps DEF OnErrInv, LoweredTo
<1>2. pc' = 1 /\ nested' = 0 /\ calls' = <<>> /\ store' = store
  BY <1>1 DEF OnErrInv, RunInv, running
<1>3. Reached(chain', code', pc') = First(chain) - 1
  BY <1>1, <1>2 DEF Reached
<1>4. First(chain) \in {0, 1}
  BY ChainTypes DEF OnErrInv
<1>5. First(chain') + Len(calls') = Reached(chain', code', pc') + 1 + nested'
  BY <1>1, <1>2, <1>3, <1>4
<1>6. ~Assigned'
  BY <1>2 DEF Assigned
<1> QED BY <1>1, <1>2, <1>5, <1>6 DEF KeepsOnce, PromiseInv

(* A plain call inside an argument is the next call of the promise. *)
LEMMA CallNestedKeepsPromise ==
  ASSUME OnErrInv, KeepsOnce, CallNested
  PROVE  PromiseInv'
<1> PICK n \in Nat : n = LastStep(chain)
  BY ChainTypes DEF OnErrInv
<1>1. /\ AtStmt /\ nested < Len(Stmt.arg.nested) /\ Run
      /\ chain' = chain /\ code' = code /\ pc' = pc /\ store' = store /\ outcome' = outcome
      /\ nested' = nested + 1
  BY DEF CallNested, lowering, Run
<1>2. outcome = "running"
  BY <1>1, NestedCallIsNext
<1>3. PICK r \in -1 .. n : r = Reached(chain, code, pc)
  BY <1>1, AtSupported
<1>4. First(chain) + Len(calls) = r + 1 + nested
  BY <1>2, <1>3 DEF KeepsOnce, PromiseInv
<1>5. Len(calls') = Len(calls) + 1 /\ Len(calls) \in Nat /\ nested \in Nat
  BY CallNestedKeeps, LenProperties, AppendProperties
     DEF OnErrInv, RunInv, RunTypes, CallNested, MakeCall
<1>6. First(chain) + (Len(calls) + 1) = r + 1 + (nested + 1)
  BY <1>4, <1>5, ChainTypes DEF OnErrInv
<1>7. Assigned' = Assigned
  BY <1>1 DEF Assigned
<1> QED BY <1>1, <1>2, <1>3, <1>5, <1>6, <1>7 DEF KeepsOnce, PromiseInv

(* So is a call that succeeds. *)
LEMMA CallSucceedsKeepsPromise ==
  ASSUME OnErrInv, KeepsOnce, CallSucceeds
  PROVE  PromiseInv'
<1> PICK n \in Nat : n = LastStep(chain)
  BY ChainTypes DEF OnErrInv
<1>1. /\ ArgReady /\ Stmt.step # NoValue /\ NextStmt /\ AtStmt
      /\ chain' = chain /\ code' = code /\ outcome' = outcome
      /\ store' = [store EXCEPT ![Stmt.to] = Stmt.step]
  BY DEF CallSucceeds, ArgReady, lowering
<1>2. /\ outcome = "running"
      /\ Stmt.step = First(chain) + Len(calls)
      /\ Stmt.step \in 0 .. n
  BY <1>1, StepCallIsNext
<1>3. pc \in 1 .. Len(code) /\ Stmt = code[pc] /\ pc' = pc + 1 /\ nested' = 0
  BY <1>1, AtStatement DEF NextStmt
<1>4. Reached(chain', code', pc') = Stmt.step /\ ~Assigned'
  BY <1>1, <1>3, ReachedNext DEF Assigned
<1>5. Len(calls') = Len(calls) + 1 /\ Len(calls) \in Nat
  BY LenProperties, AppendProperties
     DEF OnErrInv, RunInv, RunTypes, CallSucceeds, MakeCall
<1>6. First(chain) + (Len(calls) + 1) = Stmt.step + 1 + 0
  BY <1>2, <1>5, ChainTypes DEF OnErrInv
<1>7. ~HasTarget(chain) => store'[Target] = Old
  BY <1>1, NoTargetStays DEF KeepsOnce, PromiseInv
<1> QED BY <1>1, <1>2, <1>3, <1>4, <1>5, <1>6, <1>7 DEF PromiseInv

(* The error that is handled without leaving is that of the last step, and *)
(* the default is the target's.                                            *)
LEMMA DefaultIsLast ==
  ASSUME NEW c, IsChain(c), Supported(c), c.handler = "default", HasTarget(c),
         NEW n \in Nat, n = LastStep(c), CanFail(c, n)
  PROVE  Result(c, n) = Target /\ HandlerNames(c, Target) = Target /\ (n > 0 => c.form = "decl")
<1>1. HandlerNames(c, Target) = Target
  BY DEF HandlerNames, HasTarget
<1>2. CASE n = 0
  <2>1. Kind(c, 0) = "fallible"
    BY <1>2, ChainTypes DEF CanFail, Kind, HasTarget
  <2>2. VarOf(c, 0) = Target
    BY <1>2 DEF VarOf
  <2> QED BY <1>1, <1>2, <2>1, <2>2 DEF Result
<1>3. CASE n > 0
  <2>1. c.form = "decl" /\ Kind(c, n) = "fallible"
    BY <1>3 DEF Supported
  <2>2. n \in Steps(c) /\ c.steps[n] = "fallible"
    BY <1>3, <2>1, ChainTypes DEF Steps
  <2>3. LastErrStep(c) \in Steps(c) /\ n <= LastErrStep(c)
    BY <2>2, LastErrStepIsLast
  <2>4. LastErrStep(c) = n
    BY <2>3 DEF Steps
  <2>5. VarOf(c, n) = Target
    BY <1>3, <2>1, <2>4 DEF VarOf
  <2> QED BY <1>1, <2>1, <2>5 DEF Result
<1> QED BY <1>2, <1>3

(* A call that fails is the next one, and the last. *)
LEMMA CallFailsKeepsPromise ==
  ASSUME OnErrInv, KeepsOnce, CallFails
  PROVE  PromiseInv'
<1> PICK n \in Nat : n = LastStep(chain)
  BY ChainTypes DEF OnErrInv
<1>1. /\ ArgReady /\ Stmt.step # NoValue /\ NextStmt /\ AtStmt
      /\ chain' = chain /\ code' = code
      /\ outcome' = IF chain.handler = "leave" THEN "left" ELSE "handled"
      /\ store' = IF chain.handler = "default"
                  THEN [store EXCEPT ![Stmt.to] = Zero, ![Stmt.handles] = Default]
                  ELSE [store EXCEPT ![Stmt.to] = Zero]
  BY DEF CallFails, ArgReady, lowering
<1>2. Stmt.step \in 0 .. n /\ CanFail(chain, Stmt.step)
  BY <1>1, StepCallIsNext
<1>3. /\ pc \in 1 .. Len(code) /\ Stmt = code[pc] /\ pc' = pc + 1
      /\ IsChain(chain) /\ CodeInv(chain, i, current, code, Phase)
      /\ store \in [Names(chain) -> Value(chain)]
  BY <1>1, AtStatement DEF NextStmt, OnErrInv, RunInv, RunTypes
<1>4. Reached(chain', code', pc') = Stmt.step
  BY <1>1, <1>3, ReachedNext
<1>5. ~HasTarget(chain) => store'[Target] = Old
  BY <1>1, NoTargetStays DEF KeepsOnce, PromiseInv
<1>6. ASSUME chain.handler # "leave"
      PROVE  Stmt.step = n
  <2>1. \A k \in 0 .. n - 1 : ~CanFail(chain, k)
    BY <1>6 DEF KeepsOnce, Supported
  <2> QED BY <1>2, <2>1
<1>7. ASSUME chain.handler = "default", HasTarget(chain)
      PROVE  pc' = Len(code) + 1 /\ store'[Target] = Default
  <2>1. Stmt.step = n
    BY <1>6, <1>7
  <2>2. Result(chain, n) = Target /\ HandlerNames(chain, Target) = Target /\ (n > 0 => chain.form = "decl")
    BY <1>2, <1>3, <1>7, <2>1, DefaultIsLast DEF KeepsOnce
  <2>3. Stmt.to = Target /\ Stmt.handles = Target
    BY <1>1, <1>3, <2>1, <2>2, WritesTarget
  <2>4. store'[Target] = Default
    <3>1. Target \in Names(chain)
      BY DEF Names
    <3> QED BY <1>1, <1>3, <1>7, <2>3, <3>1
  <2>5. Len(code) \in Nat
    BY <1>3, LenProperties DEF CodeInv
  <2>6. ASSUME pc + 1 <= Len(code)
        PROVE  FALSE
    <3>1. PICK p \in 1 .. Len(code) : p = pc + 1 /\ pc \in 1 .. p - 1
      BY <1>3, <2>5, <2>6
    <3>2. CASE code[p].step # NoValue
      <4>1. code[p].step \in 0 .. n
        BY <1>3, <3>2, StatementTypes
      <4>2. code[pc].step < code[p].step
        BY <1>3, <3>1, <3>2, StepsInOrder
      <4> QED BY <1>3, <2>1, <4>1, <4>2
    <3>3. CASE code[p].step = NoValue
      <4>1. n > 0
        BY <1>3, <3>3, WritesTarget
      <4>2. code[pc].to # Target
        BY <1>3, <2>2, <3>1, <3>3, <4>1, LastIsNew DEF KeepsOnce
      <4> QED BY <1>3, <2>3, <4>2
    <3> QED BY <3>2, <3>3
  <2> QED BY <1>3, <2>4, <2>5, <2>6
<1> QED BY <1>1, <1>3, <1>4, <1>5, <1>6, <1>7 DEF PromiseInv

(* The result is assigned when every call was made. *)
LEMMA AssignResultKeepsPromise ==
  ASSUME OnErrInv, KeepsOnce, AssignResult
  PROVE  PromiseInv'
<1> PICK n \in Nat : n = LastStep(chain)
  BY ChainTypes DEF OnErrInv
<1>1. /\ ArgReady /\ Stmt.step = NoValue /\ NextStmt /\ AtStmt
      /\ chain' = chain /\ code' = code /\ outcome' = outcome /\ calls' = calls
      /\ store' = [store EXCEPT ![Stmt.to] = ArgValue]
      /\ nested = Len(Stmt.arg.nested)
  BY DEF AssignResult, ArgReady, lowering
<1>2. /\ pc \in 1 .. Len(code) /\ Stmt = code[pc] /\ pc' = pc + 1 /\ nested' = 0
      /\ outcome \in {"running", "handled"}
      /\ IsChain(chain) /\ CodeInv(chain, i, current, code, Phase)
      /\ store \in [Names(chain) -> Value(chain)]
  BY <1>1, AtStatement DEF NextStmt, OnErrInv, RunInv, RunTypes
<1>3. Reached(chain', code', pc') = n
  <2>1. pc \in Nat /\ pc > 0
    BY <1>2
  <2>2. code[pc].step = NoValue
    BY <1>1, <1>2
  <2>3. Reached(chain, code, pc + 1) = n
    BY <2>1, <2>2, ReachedNext
  <2> QED BY <1>1, <1>2, <2>3
<1>4. PICK r \in -1 .. n, d \in Nat :
           /\ d = Len(Stmt.arg.nested) /\ For(chain, Stmt) = r + d + 1
           /\ outcome = "running" => First(chain) + Len(calls) = r + 1 + nested
  BY <1>1, AtSupported
<1>5. For(chain, Stmt) = n + 1
  BY <1>1 DEF For
<1>6. outcome = "running" => First(chain) + Len(calls) = n + 1 + 0
  <2>1. nested = d /\ r + d + 1 = n + 1
    BY <1>1, <1>4, <1>5
  <2>2. outcome = "running" => First(chain) + Len(calls) = r + 1 + d
    BY <1>4, <2>1
  <2>3. r + 1 + d = n + 1 + 0
    BY <2>1
  <2> QED BY <2>2, <2>3
<1>7. ~HasTarget(chain) => store'[Target] = Old
  BY <1>1, NoTargetStays DEF KeepsOnce, PromiseInv
<1>8. ASSUME outcome = "running", HasTarget(chain)
      PROVE  store'[Target] = ValueBefore(chain, n + 1)
  <2>1. PICK b : Leads(chain, Stmt.arg, b, For(chain, Stmt)) /\ ArgValue = Made(Stmt.arg, b, nested)
    BY <1>1, <1>8, AtStatementRunning
  <2>2. n > 0 /\ Stmt.to = Target
    BY <1>1, <1>2, <1>8, WritesTarget DEF TargetOf
  <2>3. Valued(chain, n + 1)
    BY <1>2, <2>2, ChainTypes DEF Valued
  <2>4. ValueBefore(chain, n + 1) = ArgValue
    BY <1>1, <1>5, <2>1, <2>3 DEF Leads
  <2>5. Target \in Names(chain)
    BY DEF Names
  <2> QED BY <1>1, <1>2, <2>2, <2>4, <2>5
<1>9. ~(outcome = "handled" /\ chain.handler = "default" /\ HasTarget(chain))
  <2>1. pc # Len(code) + 1
    <3>1. Len(code) \in Nat
      BY <1>2, LenProperties DEF CodeInv
    <3> QED BY <1>2, <3>1
  <2> QED BY <2>1 DEF KeepsOnce, PromiseInv
<1> QED BY <1>1, <1>2, <1>3, <1>6, <1>7, <1>8, <1>9 DEF PromiseInv

(* A run that has ended makes no call. *)
LEMMA DoneKeepsPromise ==
  ASSUME OnErrInv, KeepsOnce, Done
  PROVE  PromiseInv'
<1>1. chain' = chain /\ store' = store /\ outcome' = "done"
  BY DEF Done, lowering, running
<1> QED BY <1>1 DEF KeepsOnce, PromiseInv

(* Every step keeps what supported chains add to the invariant. *)
LEMMA SupportedSteps == OnErrInv /\ SupportedInv /\ [Next]_vars => SupportedInv'
<1> SUFFICES ASSUME OnErrInv, SupportedInv, [Next]_vars PROVE SupportedInv'
  OBVIOUS
<1>0. chain' = chain
  <2>1. Lower => chain' = chain
    BY LowerSteps DEF OnErrInv, LoweredTo
  <2> QED BY <2>1, RunKeepsCode DEF Next, Finished, vars
<1>1. SUFFICES ASSUME KeepsOnce
               PROVE  OnceInv(chain, i, current, code, Phase)' /\ PromiseInv'
  BY <1>0 DEF SupportedInv, KeepsOnce
<1>2. CASE Lower
  <2>1. OnceInv(chain, i, current, code, Phase)'
    BY <1>1, <1>2, LowerKeepsCode DEF OnErrInv, KeepsOnce
  <2> QED BY <1>1, <1>2, <2>1, LowerKeepsPromise
<1>3. CASE Run
  <2>1. OnceInv(chain, i, current, code, Phase)'
    <3>1. OnceInv(chain', i', current', code', Phase')
      BY <1>1, <1>3, RunKeepsCode DEF KeepsOnce
    <3> QED BY <3>1
  <2>2. PromiseInv'
    BY <1>1, <1>3, CallNestedKeepsPromise, CallSucceedsKeepsPromise, CallFailsKeepsPromise,
       AssignResultKeepsPromise, DoneKeepsPromise DEF Run
  <2> QED BY <2>1, <2>2
<1>4. CASE UNCHANGED vars
  BY <1>1, <1>4 DEF KeepsOnce, PromiseInv, Assigned, Phase, vars, lowering, running
<1> QED BY <1>2, <1>3, <1>4 DEF Next, Finished

(* It holds at the start. *)
LEMMA SupportedStarts == Init => SupportedInv
<1> SUFFICES ASSUME Init PROVE SupportedInv
  OBVIOUS
<1>1. IsChain(chain)
  BY ProgramsAssumption DEF Init, IsChain
<1>2. Phase = "lowering" /\ current = Variable(Input) /\ i = 0 /\ code = <<>>
  BY DEF Init, Phase, Variable
<1>3. OnceInv(chain, i, current, code, Phase)
  BY <1>1, <1>2, OnceStarts
<1>4. First(chain) + Len(calls) = Reached(chain, code, pc) + 1 + nested
  BY <1>1, ChainTypes DEF Init, Reached
<1>5. store[Target] = Old
  BY DEF Init, Names, Target, Input
<1> QED BY <1>3, <1>4, <1>5 DEF Init, SupportedInv, PromiseInv, Assigned

(***************************************************************************)
(* The theorems.                                                           *)
(***************************************************************************)

(* Whatever the chain, its code means what the chain does: every statement *)
(* is given the value of the step before its own, and the values of the    *)
(* steps behind it are in their variables (lowerPipeChain, lower.go).      *)
THEOREM LoweringKeepsMeaning == Spec => []OnErrInv
BY OnErrStarts, OnErrSteps, PTL DEF Spec

(* If it is a chain that the lowering supports, its steps are also called  *)
(* one after the other, each once.                                         *)
THEOREM LoweringCallsOnce == Spec => [](OnErrInv /\ SupportedInv)
BY OnErrStarts, OnErrSteps, SupportedStarts, SupportedSteps, PTL DEF Spec

(* Every statement, expression and variable is one of the chain's.         *)
THEOREM LoweringTypes == Spec => []TypeOK
<1>1. ASSUME OnErrInv
      PROVE  TypeOK
  <2>1. nested \in 0 .. LastStep(chain) + 1
    <3>1. CASE pc \in 1 .. Len(code)
      <4>1. Len(code[pc].arg.nested) \in 0 .. LastStep(chain) + 1
        BY <1>1, <3>1, StatementTypes DEF OnErrInv
      <4> QED BY <1>1, <3>1, <4>1, ChainTypes DEF OnErrInv, RunInv, RunTypes
    <3>2. CASE pc = Len(code) + 1
      BY <1>1, <3>2, ChainTypes DEF OnErrInv, RunInv, RunTypes
    <3> QED BY <1>1, <3>1, <3>2, LenProperties DEF OnErrInv, RunInv, RunTypes, CodeInv
  <2> QED BY <1>1, <2>1 DEF TypeOK, OnErrInv, CodeInv, RunInv, RunTypes, Expr, Value, Statement
<1> QED BY <1>1, LoweringKeepsMeaning, PTL

(* As long as errors leave, a call is given the value of the step before   *)
(* it, however its argument is nested and however often it is evaluated.   *)
THEOREM ArgumentsAreRight == Spec => []ArgsAreOfTheChain
<1>1. OnErrInv => ArgsAreOfTheChain
  <2> SUFFICES ASSUME OnErrInv, chain.handler = "leave", NEW p \in DOMAIN calls
               PROVE  calls[p].arg = ValueBefore(chain, calls[p].step)
    BY DEF ArgsAreOfTheChain
  <2>1. p \in 1 .. Len(calls)
    BY LenProperties DEF OnErrInv, RunInv, RunTypes
  <2> QED BY <2>1 DEF OnErrInv, RunInv, RightArgs
<1> QED BY <1>1, LoweringKeepsMeaning, PTL

(* Calls that can fail are made in the order of the chain, and at most     *)
(* once, also where plain calls are repeated.                              *)
THEOREM ErrorsComeInOrder == Spec => []ErrorsInOrder
<1>1. OnErrInv => ErrorsInOrder
  <2> SUFFICES ASSUME OnErrInv, NEW p \in DOMAIN calls, NEW q \in DOMAIN calls, p < q,
                      CanFail(chain, calls[p].step), CanFail(chain, calls[q].step)
               PROVE  calls[p].step < calls[q].step
    BY DEF ErrorsInOrder
  <2>1. p \in 1 .. Len(calls) /\ q \in 1 .. Len(calls)
    BY LenProperties DEF OnErrInv, RunInv, RunTypes
  <2> QED BY <2>1 DEF OnErrInv, RunInv, InOrder
<1> QED BY <1>1, LoweringKeepsMeaning, PTL

(* The Go code of a supported chain is accepted: what a statement reads    *)
(* was declared, the last declaration declares something new ("the last    *)
(* value-producing step assigns directly", lower.go:247), and every        *)
(* temporary is used.                                                      *)
THEOREM LoweringIsGo == Spec => []GoAccepts
<1>1. OnErrInv /\ SupportedInv => GoAccepts
  <2> SUFFICES ASSUME OnErrInv, SupportedInv, Supported(chain), outcome # "lowering",
                      NEW p \in DOMAIN code
               PROVE  LET before == {code[q].to : q \in 1 .. p - 1}
                          after == {code[q].arg.from : q \in p + 1 .. Len(code)}
                      IN /\ code[p].arg.from \in {Input} \cup (before \ {Blank})
                         /\ code[p].step = NoValue /\ Declares(code[p]) => code[p].to \notin before
                         /\ code[p].to >= 0 => code[p].to \in after
    BY DEF GoAccepts
  <2>1. IsChain(chain) /\ CodeInv(chain, i, current, code, Phase) /\ Phase = "running"
    BY DEF OnErrInv, Phase
  <2>2. p \in 1 .. Len(code)
    BY <2>1, LenProperties DEF CodeInv
  <2>3. code[p].arg.from = Input \/ \E q \in 1 .. p - 1 : code[q].to = code[p].arg.from /\ code[q].to # Blank
    BY <2>1, <2>2, ReadsWhatWasAssigned
  <2>4. ASSUME code[p].step = NoValue, Declares(code[p]), NEW q \in 1 .. p - 1
        PROVE  code[q].to # code[p].to
    <3>1. code[p].to = TargetOf(chain)
      BY <2>1, <2>2, <2>4, WritesTarget
    <3>2. code[p].to = Target /\ chain.form = "decl"
      BY <2>4, <3>1 DEF TargetOf, Declares
    <3> QED BY <2>1, <2>2, <2>4, <3>2, LastIsNew
  <2>5. ASSUME code[p].to >= 0
        PROVE  \E q \in p + 1 .. Len(code) : code[q].arg.from = code[p].to
    <3>1. code[p].to \in Nat
      <4>1. code[p] \in Statement(chain)
        BY <2>1, <2>2, StatementTypes
      <4>2. code[p].to \in Names(chain)
        BY <4>1 DEF Statement
      <4> QED BY <2>1, <2>5, <4>2, ChainTypes DEF Names, Input, Target, Blank
    <3>2. AllUsed(current, code, "running")
      BY <2>1 DEF SupportedInv, OnceInv
    <3> QED BY <2>2, <3>1, <3>2 DEF AllUsed
  <2> QED BY <2>3, <2>4, <2>5
<1> QED BY <1>1, LoweringCallsOnce, PTL

(***************************************************************************)
(* The promise.                                                            *)
(***************************************************************************)

(* The promise speaks of the same chains. *)
LEMMA SamePromise ==
  /\ \A c : Promise!LastStep(c) = LastStep(c) /\ Promise!First(c) = First(c)
            /\ (Promise!HasTarget(c) <=> HasTarget(c))
  /\ \A c, k : Promise!ValueBefore(c, k) = ValueBefore(c, k)
               /\ (Promise!CanFail(c, k) <=> CanFail(c, k))
  /\ Promise!Old = Old /\ Promise!Default = Default
<1>1. \A c, k : Promise!Kind(c, k) = Kind(c, k)
  BY DEF Promise!Kind, Kind
<1>2. \A c, k : Promise!ValueBefore(c, k) = ValueBefore(c, k)
  BY DEF Promise!ValueBefore, ValueBefore, Promise!Kind, Kind, Promise!NoValue, NoValue
<1> QED BY <1>1, <1>2 DEF Promise!LastStep, LastStep, Promise!First, First, Promise!HasTarget, HasTarget,
           Promise!CanFail, CanFail, Promise!Old, Old, Promise!Default, Default

(* Initial states are initial states of the promise. *)
LEMMA PromiseStarts == Init => Promise!Init
BY SamePromise DEF Init, Promise!Init

(* A call is the next call of the promise. *)
LEMMA CallKeepsPromise ==
  ASSUME NEW k, k = First(chain) + Len(calls), k \in 0 .. LastStep(chain),
         outcome = "running", ArgValue = ValueBefore(chain, k), MakeCall(k), chain' = chain,
         \/ outcome' = "running"
         \/ CanFail(chain, k) /\ outcome' = IF chain.handler = "leave" THEN "left" ELSE "handled"
  PROVE  Promise!Next
<1>1. Promise!NextStep = k
  BY SamePromise DEF Promise!NextStep
<1>2. k <= Promise!LastStep(chain)
  BY SamePromise, ChainTypes DEF LastStep
<1>3. calls' = Append(calls, [step |-> k, arg |-> Promise!ValueBefore(chain, k)])
  BY SamePromise DEF MakeCall
<1>4. Promise!CanFail(chain, k) <=> CanFail(chain, k)
  BY SamePromise
<1>5. Promise!Call
  BY <1>1, <1>2, <1>3, <1>4 DEF Promise!Call, Promise!Handled
<1> QED BY <1>5 DEF Promise!Next

(* What the target holds when the statement is done. *)
LEMMA ResultIsPromised ==
  ASSUME OnErrInv, KeepsOnce, Done
  PROVE  /\ ~HasTarget(chain) => store[Target] = Old
         /\ HasTarget(chain) /\ outcome = "running" =>
              store[Target] = ValueBefore(chain, First(chain) + Len(calls))
         /\ HasTarget(chain) /\ outcome = "handled" /\ chain.handler = "default" =>
              store[Target] = Default
         /\ store[Target] \in Default .. LastStep(chain)
         /\ outcome = "running" => First(chain) + Len(calls) = LastStep(chain) + 1
         /\ outcome \in {"running", "handled"}
<1> PICK n \in Nat : n = LastStep(chain)
  BY ChainTypes DEF OnErrInv
<1>1. /\ outcome \in {"running", "handled"} /\ Phase = "running"
      /\ IsChain(chain) /\ CodeInv(chain, i, current, code, Phase)
      /\ store \in [Names(chain) -> Value(chain)]
      /\ Len(code) \in Nat /\ pc = Len(code) + 1 /\ nested = 0
  <2>1. outcome \in {"running", "handled"} /\ pc > Len(code)
    BY DEF Done, Running
  <2>2. Len(code) \in Nat
    BY LenProperties DEF OnErrInv, CodeInv
  <2> QED BY <2>1, <2>2 DEF OnErrInv, RunInv, RunTypes, Phase
<1>2. Reached(chain, code, pc) = n
  BY <1>1 DEF KeepsOnce, OnceInv
<1>3. outcome = "running" => First(chain) + Len(calls) = n + 1
  BY <1>1, <1>2 DEF KeepsOnce, PromiseInv
<1>4. ASSUME HasTarget(chain), outcome = "running", ~Assigned
      PROVE  store[Target] = ValueBefore(chain, n + 1)
  <2>1. \A p \in 1 .. Len(code) : code[p].step # NoValue
    <3> SUFFICES ASSUME NEW p \in 1 .. Len(code), code[p].step = NoValue PROVE FALSE
      OBVIOUS
    <3>1. p = Len(code)
      BY <1>1 DEF CodeInv, AllPlaced, Placed
    <3>2. pc > 1 /\ pc - 1 = p
      BY <1>1, <3>1
    <3> QED BY <1>4, <3>2 DEF Assigned
  <2>2. current = Variable(Target)
    BY <1>1, <1>4, <2>1 DEF CodeInv
  <2>3. current.from = Target /\ current.nested = <<>>
    BY <2>2 DEF Variable
  <2>4. Meaning(chain, code, current, n + 1, pc)
    BY <1>1 DEF CodeInv
  <2>5. PICK b \in {NoValue} \cup 0 .. n : Holds(chain, code, Target, b, pc) /\ Leads(chain, current, b, n + 1)
    BY <2>3, <2>4 DEF Meaning
  <2>6. PICK q \in 1 .. pc - 1 : code[q].step = b /\ Kind(chain, b) = "fallible" /\ code[q].to = Target
    BY <2>5 DEF Holds, Target, Input
  <2>7. store[Target] = b
    BY <1>4, <2>6 DEF OnErrInv, RunInv, Kept
  <2>8. Valued(chain, n + 1)
    BY <1>1, <1>4, ChainTypes DEF Valued, HasTarget
  <2>9. ValueBefore(chain, n + 1) = b
    BY <2>3, <2>5, <2>8 DEF Leads, Made
  <2> QED BY <2>7, <2>9
<1>5. Target \in Names(chain)
  BY DEF Names
<1>6. store[Target] \in Default .. n
  BY <1>1, <1>5 DEF Value
<1>7. HasTarget(chain) /\ outcome = "running" => store[Target] = ValueBefore(chain, n + 1)
  BY <1>4 DEF KeepsOnce, PromiseInv
<1> QED BY <1>1, <1>3, <1>6, <1>7 DEF KeepsOnce, PromiseInv

(* Every step of the lowering and of the code is a step of the promise, or *)
(* none.                                                                   *)
LEMMA StepsArePromised ==
  ASSUME OnErrInv, SupportedInv, Supported(chain), [Next]_vars
  PROVE  Promise!Next \/ UNCHANGED Promise!chainVars
<1>0. KeepsOnce
  BY DEF KeepsOnce, SupportedInv
<1>1. CASE Lower
  <2>1. outcome = "lowering" /\ outcome' \in {"lowering", "running"}
    BY <1>1 DEF Lower, LowerInput, LowerFallible, LowerCheck, LowerPlain, LowerEnd, Lowering
  <2>2. chain' = chain /\ calls' = calls
    BY <1>1 DEF Lower, LowerInput, LowerFallible, LowerCheck, LowerPlain, LowerEnd, Lowering, running
  <2> QED BY <2>1, <2>2 DEF Promise!chainVars
<1>2. CASE CallNested
  <2>1. AtStmt /\ nested < Len(Stmt.arg.nested) /\ MakeCall(Stmt.arg.nested[nested + 1])
        /\ chain' = chain /\ outcome' = outcome
    BY <1>2 DEF CallNested
  <2> QED BY <1>0, <2>1, NestedCallIsNext, CallKeepsPromise
<1>3. CASE CallSucceeds
  <2>1. ArgReady /\ Stmt.step # NoValue /\ MakeCall(Stmt.step) /\ chain' = chain /\ outcome' = outcome
    BY <1>3 DEF CallSucceeds
  <2> QED BY <1>0, <2>1, StepCallIsNext, CallKeepsPromise
<1>4. CASE CallFails
  <2>1. ArgReady /\ Stmt.step # NoValue /\ MakeCall(Stmt.step) /\ chain' = chain
        /\ outcome' = IF chain.handler = "leave" THEN "left" ELSE "handled"
    BY <1>4 DEF CallFails
  <2> QED BY <1>0, <2>1, StepCallIsNext, CallKeepsPromise
<1>5. CASE AssignResult
  <2>1. chain' = chain /\ calls' = calls /\ outcome' = outcome /\ outcome # "done"
    BY <1>5 DEF AssignResult, ArgReady, AtStmt, Running
  <2> QED BY <2>1 DEF Promise!chainVars
<1>6. CASE Done
  <2>1. chain' = chain /\ calls' = calls /\ store' = store /\ outcome' = "done"
    BY <1>6 DEF Done, running
  <2>2. outcome \in {"running", "handled"}
    BY <1>0, <1>6, ResultIsPromised
  <2>3. Promise!NextStep = First(chain) + Len(calls)
    BY SamePromise DEF Promise!NextStep
  <2>4. outcome = "running" => Promise!NextStep > Promise!LastStep(chain)
    BY <1>0, <1>6, <2>3, ResultIsPromised, SamePromise, ChainTypes DEF OnErrInv
  <2>5. store[Target] \in Promise!Results
    BY <1>0, <1>6, <2>2, <2>3, ResultIsPromised, SamePromise DEF Promise!Results
  <2>6. Promise!Finish
    BY <2>1, <2>2, <2>4, <2>5 DEF Promise!Finish
  <2> QED BY <2>6 DEF Promise!Next
<1>7. CASE UNCHANGED vars
  BY <1>7 DEF vars, running, Promise!chainVars
<1> QED BY <1>1, <1>2, <1>3, <1>4, <1>5, <1>6, <1>7 DEF Next, Run, Finished

(* The code of a supported chain does what the language promises of the    *)
(* chain (OnErrChain): "if any function in the pipe returns a Go error,    *)
(* the pipeline short-circuits to the onerr block"                         *)
(* (.agent/skills/kukicha/SKILL.md:114), and the target ends with the last *)
(* value, or with the default.                                             *)
THEOREM LoweringKeepsPromise == Spec => KeepsPromise
<1>1. Init => (Supported(chain) => Promise!Init)
  BY PromiseStarts
<1>2. OnErrInv /\ SupportedInv /\ [Next]_vars =>
        [Supported(chain) => Promise!Next]_(Promise!chainVars)
  BY StepsArePromised
<1> QED BY <1>1, <1>2, LoweringCallsOnce, PTL DEF Spec, KeepsPromise
=============================================================================
