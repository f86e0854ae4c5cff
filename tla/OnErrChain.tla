----------------------------- MODULE OnErrChain -----------------------------
(***************************************************************************)
(* What a pipe chain with an onerr clause promises: its steps are called   *)
(* one after the other, each once and with the value of the one before,    *)
(* and at the first error the rest is left out and the handler runs ("the  *)
(* pipeline short-circuits to the onerr block",                            *)
(* .agent/skills/kukicha/SKILL.md:114; "catches errors from any step",     *)
(* docs/SKILL.md:200).                                                     *)
(***************************************************************************)
EXTENDS Chains

CONSTANT Programs    (* the chains to look at *)

VARIABLES
  chain,
  calls,      (* the calls made: the step, and the value it was given      *)
  outcome,    (* "running", "handled" or "left" by the handler, or "done"  *)
  target      (* what the target holds when the statement is done          *)

chainVars == <<chain, calls, outcome, target>>

Init ==
  /\ chain \in Programs
  /\ calls = <<>>
  /\ outcome = "running"
  /\ target = Old

NextStep == First(chain) + Len(calls)

Handled == IF chain.handler = "leave" THEN "left" ELSE "handled"

(* The next step is called; if it returns an error, the handler runs. *)
Call ==
  LET k == NextStep
  IN /\ outcome = "running" /\ k <= LastStep(chain)
     /\ calls' = Append(calls, [step |-> k, arg |-> ValueBefore(chain, k)])
     /\ outcome' \in {"running"} \cup (IF CanFail(chain, k) THEN {Handled} ELSE {})
     /\ UNCHANGED <<chain, target>>

(* What the target may hold when the statement is done: the last value; or *)
(* after an error the default, if the handler gives one (docs/SKILL.md:172), *)
(* and otherwise anything.                                                 *)
Results ==
  IF ~HasTarget(chain) THEN {Old}
  ELSE IF outcome = "running" THEN {ValueBefore(chain, NextStep)}
  ELSE IF chain.handler = "default" THEN {Default}
  ELSE Default .. LastStep(chain)

Finish ==
  /\ outcome = "handled" \/ (outcome = "running" /\ NextStep > LastStep(chain))
  /\ target' \in Results
  /\ outcome' = "done"
  /\ UNCHANGED <<chain, calls>>

Next == Call \/ Finish

Spec == Init /\ [][Next]_chainVars
=============================================================================
