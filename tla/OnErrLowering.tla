--------------------------- MODULE OnErrLowering ---------------------------
(***************************************************************************)
(* How internal/codegen lowers a pipe chain with an onerr clause to Go     *)
(* (lower.go, codegen_onerr.go), and what the Go statements it emits do.   *)
(* First the lowering walks the chain and emits code; then the code runs,  *)
(* each call that can fail returning an error or not.                      *)
(*                                                                         *)
(* A statement of the code is either a call whose error is checked,        *)
(*     to, err := step(arg); if err != nil { handler }                     *)
(* or the assignment that ends the chain,                                  *)
(*     to = arg                                                            *)
(* Its argument is an expression: a variable, and the plain calls that are *)
(* nested around it, since a step without error gets no variable.          *)
(***************************************************************************)
EXTENDS Chains

CONSTANT Programs

ASSUME ProgramsAssumption ==
  \A c \in Programs :
    /\ c \in [base : BaseKinds, steps : Seq(StepKinds), form : Forms, handler : Handlers]
    /\ WellTyped(c)

(* Variables of the code: the temporary of step k is k. *)
Input == -1
Target == -2
Blank == -3
Names(c) == {Input, Target, Blank} \cup 0 .. LastStep(c)

VARIABLES
  chain,
  i,          (* the step to lower next                                    *)
  current,    (* the expression for the value so far                       *)
  code,       (* the statements emitted                                    *)
  pc,         (* the statement that runs                                   *)
  nested,     (* how many of its nested calls were made                    *)
  store,      (* the values of the variables                               *)
  calls,      (* the calls made: the step, and the value it was given      *)
  outcome     (* "lowering", then "running", "handled" or "left" by the    *)
              (* handler, "done"                                           *)

lowering == <<i, current, code>>
running == <<pc, nested, store, calls>>
vars == <<chain, lowering, running, outcome>>

Init ==
  /\ chain \in Programs
  /\ i = 0
  /\ current = [from |-> Input, nested |-> <<>>]
  /\ code = <<>>
  /\ pc = 1 /\ nested = 0
  /\ store = [v \in Names(chain) |->
                IF v # Input THEN Old ELSE IF chain.base = "input" THEN 0 ELSE NoValue]
  /\ calls = <<>>
  /\ outcome = "lowering"

-----------------------------------------------------------------------------
(* The lowering.                                                           *)

Steps(c) == 1 .. LastStep(c)

(* lastErrStep, -1 if there is none. *)
LastErrStep(c) ==
  LET E == {k \in Steps(c) : c.steps[k] = "fallible"}
  IN IF E = {} THEN -1 ELSE CHOOSE k \in E : \A j \in E : j <= k

(* The variable for the value of step k.  A declaration has its target     *)
(* assigned directly by the last step that returns an error, or by the     *)
(* base if no other step has a value; a call alone assigns to what there   *)
(* is.                                                                     *)
VarOf(c, k) ==
  IF LastStep(c) = 0 THEN IF HasTarget(c) THEN Target ELSE Blank
  ELSE IF /\ c.form = "decl"
          /\ \/ k > 0 /\ k = LastErrStep(c)
             \/ k = 0 /\ \A j \in Steps(c) : c.steps[j] = "check"
  THEN Target ELSE k

(* Mutant: the target is not handed to the handler of a declaration.       *)
(* (TestOnErrPipeValueFallbackAssignsTarget)                               *)
HandlerNamesOfAssign(c, v) == IF c.form = "assign" THEN Target ELSE Blank

(* The name a default value is assigned to: the target of an assignment;   *)
(* that of a declaration only where the step writes to it.                 *)
HandlerNames(c, v) ==
  IF c.form = "assign" \/ (c.form = "decl" /\ v = Target) THEN Target ELSE Blank

Emit(stmt) == code' = Append(code, stmt)

Checked(k, v) == [step |-> k, arg |-> current, to |-> v, handles |-> HandlerNames(chain, v)]

Variable(v) == [from |-> v, nested |-> <<>>]

Lowering(k) ==
  /\ outcome = "lowering" /\ i = k
  /\ k <= LastStep(chain)
  /\ i' = i + 1
  /\ UNCHANGED <<chain, running, outcome>>

(* Mutant: the call is kept instead of the variable it was assigned to. *)
LowerFallibleKeepingCall(k) ==
  /\ Lowering(k) /\ Kind(chain, k) = "fallible"
  /\ Emit(Checked(k, VarOf(chain, k)))
  /\ current' = [current EXCEPT !.nested = Append(@, k)]

(* The value and the error are taken apart, and the error checked. *)
LowerFallible(k) ==
  /\ Lowering(k) /\ Kind(chain, k) = "fallible"
  /\ Emit(Checked(k, VarOf(chain, k)))
  /\ current' = Variable(VarOf(chain, k))

(* Mutant: the result of the check becomes the value. *)
LowerCheckAdvancing(k) ==
  /\ Lowering(k) /\ Kind(chain, k) = "check"
  /\ Emit(Checked(k, Blank))
  /\ current' = Variable(Blank)

(* An error is checked, the value stays what it was. *)
LowerCheck(k) ==
  /\ Lowering(k) /\ Kind(chain, k) = "check"
  /\ Emit(Checked(k, Blank))
  /\ UNCHANGED current

(* Mutant: the call is nested inside out, below the ones before it. *)
LowerPlainInsideOut(k) ==
  /\ Lowering(k) /\ Kind(chain, k) = "plain"
  /\ current' = [current EXCEPT !.nested = <<k>> \o @]
  /\ UNCHANGED code

(* A call that returns no error is nested into what comes after it. *)
LowerPlain(k) ==
  /\ Lowering(k) /\ Kind(chain, k) = "plain"
  /\ current' = [current EXCEPT !.nested = Append(@, k)]
  /\ UNCHANGED code

LowerInput ==
  /\ Lowering(0) /\ chain.base = "input"
  /\ UNCHANGED <<current, code>>

(* What becomes of the last value: it is assigned unless it is there       *)
(* already, and "_ = f(x)" is left out as a call made before.              *)
LowerEnd ==
  LET to == IF HasTarget(chain) THEN Target ELSE Blank
      copied == /\ LastStep(chain) # 0
                /\ chain.form = "decl" => current # Variable(Target)
                /\ chain.form = "blank" => current.nested = <<>>
  IN /\ outcome = "lowering" /\ i > LastStep(chain)
     /\ IF copied THEN Emit([step |-> NoValue, arg |-> current, to |-> to, handles |-> Blank])
        ELSE UNCHANGED code
     /\ outcome' = "running"
     /\ UNCHANGED <<chain, i, current, running>>

Lower ==
  \/ LowerInput
  \/ \E k \in 0 .. LastStep(chain) : LowerFallible(k) \/ LowerCheck(k) \/ LowerPlain(k)
  \/ LowerEnd

-----------------------------------------------------------------------------
(* The code.                                                               *)

Running == outcome \in {"running", "handled"}
AtStmt == Running /\ pc <= Len(code)
Stmt == code[pc]

(* The value of the argument, as far as its nested calls were made. *)
ArgValue == IF nested = 0 THEN store[Stmt.arg.from] ELSE Stmt.arg.nested[nested]

MakeCall(k) == calls' = Append(calls, [step |-> k, arg |-> ArgValue])

CallNested ==
  /\ AtStmt /\ nested < Len(Stmt.arg.nested)
  /\ MakeCall(Stmt.arg.nested[nested + 1])
  /\ nested' = nested + 1
  /\ UNCHANGED <<chain, lowering, pc, store, outcome>>

ArgReady == AtStmt /\ nested = Len(Stmt.arg.nested)

NextStmt == pc' = pc + 1 /\ nested' = 0

CallSucceeds ==
  /\ ArgReady /\ Stmt.step # NoValue
  /\ MakeCall(Stmt.step)
  /\ store' = [store EXCEPT ![Stmt.to] = Stmt.step]
  /\ NextStmt
  /\ UNCHANGED <<chain, lowering, outcome>>

(* if err != nil: the handler leaves, assigns the default if it has a name *)
(* to assign it to, or comes to its end; then the next statement runs.     *)
CallFails ==
  /\ ArgReady /\ Stmt.step # NoValue
  /\ MakeCall(Stmt.step)
  /\ store' = IF chain.handler = "default"
              THEN [store EXCEPT ![Stmt.to] = Zero, ![Stmt.handles] = Default]
              ELSE [store EXCEPT ![Stmt.to] = Zero]
  /\ outcome' = IF chain.handler = "leave" THEN "left" ELSE "handled"
  /\ NextStmt
  /\ UNCHANGED <<chain, lowering>>

AssignResult ==
  /\ ArgReady /\ Stmt.step = NoValue
  /\ store' = [store EXCEPT ![Stmt.to] = ArgValue]
  /\ NextStmt
  /\ UNCHANGED <<chain, lowering, calls, outcome>>

Done ==
  /\ Running /\ pc > Len(code)
  /\ outcome' = "done"
  /\ UNCHANGED <<chain, lowering, running>>

Run == CallNested \/ CallSucceeds \/ CallFails \/ AssignResult \/ Done

Finished == outcome \in {"left", "done"} /\ UNCHANGED vars

Next == Lower \/ Run \/ Finished

Spec == Init /\ [][Next]_vars /\ WF_vars(Lower \/ Run)

-----------------------------------------------------------------------------
(* Properties.                                                             *)

Promise == INSTANCE OnErrChain WITH
  outcome <- IF outcome = "lowering" THEN "running" ELSE outcome,
  target  <- IF outcome = "done" THEN store[Target] ELSE Old

EndsPlain(c) == Kind(c, LastStep(c)) = "plain"

(* The chains for which the promise is kept.  A plain call must not stand  *)
(* in front of a check, nor at the end of a chain that is assigned to "_"  *)
(* or declares the variable of a checked step; and a handler that does not *)
(* leave needs the only error to be that of the last step, which must also *)
(* be the one that writes to the target if there is a default.             *)
Supported(c) ==
  /\ \A k \in Steps(c) : Kind(c, k) = "check" => Kind(c, ValueBefore(c, k)) # "plain"
  /\ EndsPlain(c) => c.form # "blank" /\ (c.form = "decl" => LastErrStep(c) = -1)
  /\ c.handler # "leave" => \A k \in 0 .. LastStep(c) - 1 : ~CanFail(c, k)
  /\ c.handler = "default" /\ HasTarget(c) /\ LastStep(c) > 0 =>
       c.form = "decl" /\ (CanFail(c, LastStep(c)) => Kind(c, LastStep(c)) = "fallible")

(* Every statement, expression and variable is one of the chain's, and the *)
(* value of a step that can fail is kept if the chain goes on.             *)
TypeOK ==
  LET Expr == [from : Names(chain), nested : Seq(0 .. LastStep(chain))]
      Value == Default .. LastStep(chain)
  IN /\ i \in 0 .. LastStep(chain) + 1
     /\ current \in Expr
     /\ code \in Seq([step : {NoValue} \cup 0 .. LastStep(chain), arg : Expr,
                      to : Names(chain), handles : {Target, Blank}])
     /\ pc \in 1 .. Len(code) + 1
     /\ nested \in 0 .. LastStep(chain) + 1
     /\ store \in [Names(chain) -> Value]
     /\ calls \in Seq([step : 0 .. LastStep(chain), arg : Value])
     /\ outcome \in {"lowering", "running", "handled", "left", "done"}

(* The code of a supported chain keeps the promise of the language: it is  *)
(* a behaviour of OnErrChain.                                              *)
KeepsPromise ==
  /\ Supported(chain) => Promise!Init
  /\ [][Supported(chain) => Promise!Next]_(Promise!chainVars)

(* A statement declares what it assigns to, but for that of an assignment. *)
Declares(stmt) == stmt.to # Blank /\ (chain.form = "decl" \/ stmt.to # Target)

(* Go accepts the code: what a statement reads was declared before it, a   *)
(* declaration declares something new (a checked call its error), and      *)
(* every temporary is used.  In particular "the last value-producing step  *)
(* assigns directly" to the target (lower.go:247), or nothing before the   *)
(* final declaration of the target did.  For supported chains: a           *)
(* declaration whose chain ends in a plain call behind a checked step      *)
(* declares its variable twice.                                            *)
GoAccepts ==
  Supported(chain) /\ outcome # "lowering" =>
    \A p \in DOMAIN code :
      LET before == {code[q].to : q \in 1 .. p - 1}
          after == {code[q].arg.from : q \in p + 1 .. Len(code)}
      IN /\ code[p].arg.from \in {Input} \cup (before \ {Blank})
         /\ code[p].step = NoValue /\ Declares(code[p]) => code[p].to \notin before
         /\ code[p].to >= 0 => code[p].to \in after

(* Whatever is nested, and however often it is evaluated, a call is given  *)
(* the value of the step before it in the chain, as long as errors leave.  *)
ArgsAreOfTheChain ==
  chain.handler = "leave" =>
    \A p \in DOMAIN calls : calls[p].arg = ValueBefore(chain, calls[p].step)

(* Errors are seen in the order of the chain and each call that can fail   *)
(* is made at most once, also where plain calls are repeated.              *)
ErrorsInOrder ==
  \A p, q \in DOMAIN calls :
    p < q /\ CanFail(chain, calls[p].step) /\ CanFail(chain, calls[q].step) =>
      calls[p].step < calls[q].step

(* "If any function in the pipe returns a Go error, the pipeline           *)
(* short-circuits to the onerr block" (.agent/skills/kukicha/SKILL.md:114) *)
ShortCircuits == [][outcome = "handled" => calls' = calls]_vars
=============================================================================
