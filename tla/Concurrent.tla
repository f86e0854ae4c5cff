----------------------------- MODULE Concurrent -----------------------------
(***************************************************************************)
(* stdlib/concurrent: one call of Parallel, ParallelWithLimit, Map or      *)
(* MapWithLimit on N tasks.  The caller starts a goroutine for each task,  *)
(* taking a slot of a buffered channel first if there is a limit, and      *)
(* waits for the wait group; a goroutine runs its task, gives the slot     *)
(* back, and counts down the wait group in a deferred call.                *)
(*                                                                         *)
(* Parallel and Map are the calls without a limit; Go is Parallel of one   *)
(* task whose Wait is left to the caller; the results of Parallel go       *)
(* nowhere.  A task may end its goroutine (runtime.Goexit, which is how    *)
(* t.FailNow and t.SkipNow stop a test): only deferred calls still run.    *)
(* A panic ends the program and is not modelled.                           *)
(***************************************************************************)
EXTENDS Integers, FiniteSets

CONSTANTS
  N,          (* the number of tasks                              *)
  Limits      (* the limits of the calls to look at, or Unlimited *)

Unlimited == -1
None == 0

ASSUME ConcurrentAssumption ==
  /\ N \in Nat
  /\ Limits \subseteq Nat \cup {Unlimited}

VARIABLES
  limit,
  caller,       (* "loop", "spawn" (it holds a slot), "wait", "returned"   *)
  next,         (* the task of this iteration                              *)
  semaphore,    (* the number of values in the channel                     *)
  wg,           (* the counter of the wait group                           *)
  worker,       (* where the goroutine of each task is                     *)
  results

vars == <<limit, caller, next, semaphore, wg, worker, results>>

Tasks == 1 .. N

(* "ready" is a goroutine that has not run yet; from "running" it goes to  *)
(* "finished", "freed" and "done", or to "exited" and "gone".              *)
WorkerState == {"none", "ready", "running", "finished", "freed", "done", "exited", "gone"}

Limited == limit # Unlimited

Init ==
  /\ limit \in Limits
  /\ caller = "loop" /\ next = 1
  /\ semaphore = 0
  /\ wg = N
  /\ worker = [i \in Tasks |-> "none"]
  /\ results = [i \in Tasks |-> None]

-----------------------------------------------------------------------------
(* The caller.                                                             *)

(* Mutant: the channel has room for one more. *)
AcquireOneMore ==
  /\ caller = "loop" /\ next <= N
  /\ Limited /\ semaphore <= limit
  /\ semaphore' = semaphore + 1
  /\ caller' = "spawn"
  /\ UNCHANGED <<limit, next, wg, worker, results>>

(* send 1 to semaphore: blocks while the channel is full, and forever if   *)
(* it has no room and nobody receives.                                     *)
Acquire ==
  /\ caller = "loop" /\ next <= N
  /\ Limited /\ semaphore < limit
  /\ semaphore' = semaphore + 1
  /\ caller' = "spawn"
  /\ UNCHANGED <<limit, next, wg, worker, results>>

Spawn ==
  /\ next <= N
  /\ caller = IF Limited THEN "spawn" ELSE "loop"
  /\ worker' = [worker EXCEPT ![next] = "ready"]
  /\ next' = next + 1
  /\ caller' = "loop"
  /\ UNCHANGED <<limit, semaphore, wg, results>>

AllSpawned ==
  /\ caller = "loop" /\ next > N
  /\ caller' = "wait"
  /\ UNCHANGED <<limit, next, semaphore, wg, worker, results>>

(* Mutant: the call does not wait. *)
ReturnAtOnce ==
  /\ caller = "wait"
  /\ caller' = "returned"
  /\ UNCHANGED <<limit, next, semaphore, wg, worker, results>>

Return ==
  /\ caller = "wait" /\ wg = 0
  /\ caller' = "returned"
  /\ UNCHANGED <<limit, next, semaphore, wg, worker, results>>

-----------------------------------------------------------------------------
(* The goroutine of task i.                                                *)

Begin(i) ==
  /\ worker[i] = "ready"
  /\ worker' = [worker EXCEPT ![i] = "running"]
  /\ UNCHANGED <<limit, caller, next, semaphore, wg, results>>

(* Mutant: the goroutine uses the loop's own variable, not its copy. *)
FinishAtLoopVariable(i) ==
  /\ worker[i] = "running"
  /\ worker' = [worker EXCEPT ![i] = "finished"]
  /\ results' = [results EXCEPT ![IF next > N THEN N ELSE next] = i]
  /\ UNCHANGED <<limit, caller, next, semaphore, wg>>

Finish(i) ==
  /\ worker[i] = "running"
  /\ worker' = [worker EXCEPT ![i] = "finished"]
  /\ results' = [results EXCEPT ![i] = i]
  /\ UNCHANGED <<limit, caller, next, semaphore, wg>>

(* The task ends the goroutine: the slot is not given back. *)
Exit(i) ==
  /\ worker[i] = "running"
  /\ worker' = [worker EXCEPT ![i] = "exited"]
  /\ UNCHANGED <<limit, caller, next, semaphore, wg, results>>

(* receive from semaphore *)
Release(i) ==
  /\ worker[i] = "finished"
  /\ Limited /\ semaphore > 0
  /\ semaphore' = semaphore - 1
  /\ worker' = [worker EXCEPT ![i] = "freed"]
  /\ UNCHANGED <<limit, caller, next, wg, results>>

(* Mutant: wg.Done is called at the end instead of deferred. *)
DoneUndeferred(i) ==
  /\ worker[i] = IF Limited THEN "freed" ELSE "finished"
  /\ worker' = [worker EXCEPT ![i] = "done"]
  /\ wg' = wg - 1
  /\ UNCHANGED <<limit, caller, next, semaphore, results>>

(* The deferred wg.Done. *)
Done(i) ==
  /\ worker[i] \in {"exited", IF Limited THEN "freed" ELSE "finished"}
  /\ worker' = [worker EXCEPT ![i] = IF worker[i] = "exited" THEN "gone" ELSE "done"]
  /\ wg' = wg - 1
  /\ UNCHANGED <<limit, caller, next, semaphore, results>>

Caller == Acquire \/ Spawn \/ AllSpawned \/ Return
Worker(i) == Begin(i) \/ Finish(i) \/ Exit(i) \/ Release(i) \/ Done(i)

Next == Caller \/ \E i \in Tasks : Worker(i)

(* The scheduler runs every goroutine that can run, and a task ends. *)
Fairness == WF_vars(Caller) /\ \A i \in Tasks : WF_vars(Worker(i))

Spec == Init /\ [][Next]_vars
FairSpec == Spec /\ Fairness

-----------------------------------------------------------------------------
(* Properties.                                                             *)

In(S) == {i \in Tasks : worker[i] \in S}

TypeOK ==
  /\ limit \in Limits
  /\ caller \in {"loop", "spawn", "wait", "returned"}
  /\ next \in 1 .. N + 1
  /\ semaphore \in Nat /\ wg \in Nat
  /\ worker \in [Tasks -> WorkerState]
  /\ results \in [Tasks -> {None} \cup Tasks]

(* The values in the channel are the slots of the goroutines that have not *)
(* given theirs back, of those that never will, and the one the caller     *)
(* took for the next: a receive finds a value, and the slots of tasks that *)
(* ended their goroutine are lost (`receive` is not deferred).             *)
Holding == {"ready", "running", "finished", "exited", "gone"}
SlotsAreHeld ==
  Limited =>
    /\ semaphore = Cardinality(In(Holding)) + (IF caller = "spawn" THEN 1 ELSE 0)
    /\ semaphore <= limit

(* "At most 'limit' functions run simultaneously", "Returns when all       *)
(* functions have finished", "Results are returned in the same order"      *)
(* (concurrent.kuki:22, 8, 39): a call implements ForkJoin.                *)
Promise == INSTANCE ForkJoin WITH
  active   <- In({"running"}),
  ended    <- In({"finished", "freed", "done", "exited", "gone"}),
  returned <- (caller = "returned")
KeepsPromise == Promise!Spec

(* A call whose goroutines all end returns, as long as not every slot is   *)
(* lost to tasks that ended their goroutine; without a limit always.       *)
LostSlots == Cardinality(In({"exited", "gone"}))
Returns ==
  <>(caller = "returned" \/ (Limited /\ LostSlots >= limit /\ N > 0))

(* When the call has returned nothing is left running: every goroutine has *)
(* made its last step and the results are final.                           *)
QuietAfterReturn ==
  caller = "returned" =>
    \A i \in Tasks : \/ worker[i] = "done" /\ results[i] = i
                     \/ worker[i] = "gone" /\ results[i] = None
=============================================================================
