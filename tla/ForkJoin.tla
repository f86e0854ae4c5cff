------------------------------ MODULE ForkJoin ------------------------------
(***************************************************************************)
(* What stdlib/concurrent promises of a call: the functions run, at most   *)
(* `limit` of them at a time, and the call returns when all have finished, *)
(* with the results in the order of the items                              *)
(* (stdlib/concurrent/concurrent.kuki:7, 22, 38).                          *)
(***************************************************************************)
EXTENDS Integers, FiniteSets

CONSTANTS N, Limits

Unlimited == -1    (* the limit of Parallel, Map and Go *)
None == 0          (* no result; the result of task i is i *)

VARIABLES
  limit,
  active,     (* the tasks that run                  *)
  ended,      (* the tasks that have finished        *)
  results,
  returned    (* the call has returned to its caller *)

forkJoinVars == <<limit, active, ended, results, returned>>

Init ==
  /\ limit \in Limits
  /\ active = {} /\ ended = {}
  /\ results = [i \in 1 .. N |-> None]
  /\ returned = FALSE

Start(i) ==
  /\ i \in (1 .. N) \ (active \cup ended)
  /\ limit # Unlimited => Cardinality(active) < limit
  /\ active' = active \cup {i}
  /\ UNCHANGED <<limit, ended, results, returned>>

(* A task ends with its result, or without one if it ends its goroutine. *)
End(i) ==
  /\ i \in active
  /\ active' = active \ {i} /\ ended' = ended \cup {i}
  /\ results' \in {results, [results EXCEPT ![i] = i]}
  /\ UNCHANGED <<limit, returned>>

Return ==
  /\ ended = 1 .. N
  /\ returned' = TRUE
  /\ UNCHANGED <<limit, active, ended, results>>

Next == (\E i \in 1 .. N : Start(i) \/ End(i)) \/ Return

Spec == Init /\ [][Next]_forkJoinVars
=============================================================================
