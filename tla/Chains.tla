------------------------------- MODULE Chains -------------------------------
(***************************************************************************)
(* Pipe chains with an onerr clause, as the code generator meets them: a   *)
(* base, the steps its value is piped through, the statement they stand in *)
(* and the handler.                                                        *)
(*                                                                         *)
(* Steps are numbered from 1 and the base is 0.  A value is the number of  *)
(* the step that returned it.                                              *)
(***************************************************************************)
EXTENDS Integers, Sequences

(* What a step returns: a value, a value and an error, an error only. *)
StepKinds == {"plain", "fallible", "check"}

(* A base may also be a variable or a literal, which calls nothing. *)
BaseKinds == StepKinds \cup {"input"}

(* x := chain, x = chain, _ = chain, or the chain alone. *)
Forms == {"decl", "assign", "blank", "stmt"}

(* A handler leaves the statement (return, panic, continue, break), gives  *)
(* a default value, or is a call or a block that runs to its end.          *)
Handlers == {"leave", "default", "proceed"}

LastStep(c) == Len(c.steps)
Kind(c, k) == IF k = 0 THEN c.base ELSE c.steps[k]
CanFail(c, k) == Kind(c, k) \in {"fallible", "check"}

(* The first step that is a call. *)
First(c) == IF c.base = "input" THEN 1 ELSE 0

(* Values that no step returned: none, what the target held before, the    *)
(* zero value that comes with an error, and the handler's default.         *)
NoValue == -1
Old == -2
Zero == -3
Default == -4

(* The step whose value reaches step k: the last one before k that returns *)
(* a value.                                                                *)
ValueBefore(c, k) ==
  IF k = 0 THEN NoValue
  ELSE CHOOSE j \in 0 .. k - 1 :
         /\ Kind(c, j) # "check"
         /\ \A i \in j + 1 .. k - 1 : Kind(c, i) = "check"

HasTarget(c) == c.form \in {"decl", "assign"}

(* A value is piped, not an error; and there is an error to handle. *)
WellTyped(c) ==
  /\ c.base = "check" => LastStep(c) = 0 /\ c.form = "stmt"
  /\ \E k \in 0 .. LastStep(c) : CanFail(c, k)

Chain(n) ==
  {c \in [base : BaseKinds, steps : [1 .. n -> StepKinds], form : Forms, handler : Handlers] :
     WellTyped(c)}
=============================================================================
