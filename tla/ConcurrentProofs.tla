-------------------------- MODULE ConcurrentProofs --------------------------
(***************************************************************************)
(* Proofs about Concurrent, for every number of tasks and every limit: the *)
(* slots and the wait group are accounted for, nothing is left running     *)
(* when a call has returned, and a call implements ForkJoin.               *)
(*                                                                         *)
(* The argument counts.  The goroutines that hold a slot are as many as    *)
(* the values in the channel, so one that is about to run finds fewer than *)
(* `limit` running; those that have not counted down are as many as wg     *)
(* says, so when wg is zero there are none.                                *)
(***************************************************************************)
EXTENDS Concurrent, FiniteSetTheorems, TLAPS

Where(w, S) == {i \in Tasks : w[i] \in S}
Weight(s, S) == IF s \in S THEN 1 ELSE 0

(* One task that moves from one place to another changes a count by one    *)
(* where it leaves and where it comes.                                     *)
LEMMA Moving ==
  ASSUME NEW w \in [Tasks -> WorkerState], NEW i \in Tasks, NEW s \in WorkerState, NEW S
  PROVE  /\ Cardinality(Where(w, S)) \in Nat
         /\ Cardinality(Where([w EXCEPT ![i] = s], S)) =
              Cardinality(Where(w, S)) + Weight(s, S)
                                       - Weight(w[i], S)
<1> DEFINE v == [w EXCEPT ![i] = s]
           A == Where(w, S)
           B == Where(v, S)
<1>1. N \in Nat /\ IsFiniteSet(Tasks)
  BY ConcurrentAssumption, FS_Interval DEF ConcurrentAssumption, Tasks
<1>2. A \subseteq Tasks /\ B \subseteq Tasks
  BY DEF Where
<1>3. /\ IsFiniteSet(A) /\ IsFiniteSet(B)
      /\ Cardinality(A) \in Nat /\ Cardinality(B) \in Nat
  BY <1>1, <1>2, FS_Subset, FS_CardinalityType
<1>4. CASE s \in S /\ w[i] \notin S
  <2>1. B = A \cup {i} /\ i \notin A
    BY <1>4 DEF Where
  <2>2. Cardinality(B) = Cardinality(A) + 1
    <3> HIDE DEF A, B
    <3> QED
      BY <1>3, <2>1, FS_AddElement
  <2> QED
    BY <1>3, <1>4, <2>2 DEF Weight
<1>5. CASE s \notin S /\ w[i] \in S
  <2>1. B = A \ {i} /\ i \in A
    BY <1>5 DEF Where
  <2>2. Cardinality(B) = Cardinality(A) - 1
    <3> HIDE DEF A, B
    <3> QED
      BY <1>3, <2>1, FS_RemoveElement
  <2> QED
    BY <1>3, <1>5, <2>2 DEF Weight
<1>6. CASE (s \in S) <=> (w[i] \in S)
  <2>1. A = B
    BY <1>6 DEF Where
  <2> QED
    BY <1>3, <1>6, <2>1 DEF Weight
<1> QED
  BY <1>4, <1>5, <1>6

(* Nobody, or everybody, is in a place. *)
LEMMA Counting ==
  ASSUME NEW w \in [Tasks -> WorkerState], NEW S
  PROVE  /\ Cardinality(Where(w, S)) \in Nat
         /\ (\A i \in Tasks : w[i] \notin S) <=> Cardinality(Where(w, S)) = 0
         /\ (\A i \in Tasks : w[i] \in S) => Cardinality(Where(w, S)) = N
<1>1. N \in Nat /\ IsFiniteSet(Tasks) /\ Cardinality(Tasks) = N
  BY ConcurrentAssumption, FS_Interval DEF ConcurrentAssumption, Tasks
<1>2. Where(w, S) \subseteq Tasks
  BY DEF Where
<1>3. IsFiniteSet(Where(w, S)) /\ Cardinality(Where(w, S)) \in Nat
  BY <1>1, <1>2, FS_Subset, FS_CardinalityType
<1>4. (\A i \in Tasks : w[i] \notin S) <=> Where(w, S) = {}
  BY DEF Where
<1>5. (\A i \in Tasks : w[i] \in S) => Where(w, S) = Tasks
  BY DEF Where
<1> QED
  BY <1>1, <1>3, <1>4, <1>5, FS_EmptySet

-----------------------------------------------------------------------------
(* The inductive invariant.                                                *)

(* The goroutines that have not counted down. *)
Open == {"none", "ready", "running", "finished", "freed", "exited"}

Counted == wg = Cardinality(In(Open))

(* Goroutines are started in the order of the tasks. *)
StartedInOrder == \A i \in Tasks : worker[i] = "none" <=> i >= next

(* A task that has finished has its result, and only it. *)
ResultsOfFinished ==
  \A i \in Tasks :
    results[i] = IF worker[i] \in {"finished", "freed", "done"} THEN i ELSE None

Stages ==
  /\ caller = "spawn" => Limited /\ next <= N
  /\ caller \in {"wait", "returned"} => next = N + 1
  /\ caller = "returned" => wg = 0
  /\ \A i \in Tasks : worker[i] = "freed" => Limited

Types ==
  /\ limit \in Limits
  /\ caller \in {"loop", "spawn", "wait", "returned"}
  /\ next \in 1 .. N + 1
  /\ semaphore \in Nat
  /\ worker \in [Tasks -> WorkerState]
  /\ results \in [Tasks -> {None} \cup Tasks]

IInv ==
  /\ Types /\ SlotsAreHeld /\ Counted
  /\ StartedInOrder /\ ResultsOfFinished /\ Stages

(* A call starts with the counter at N and the channel empty. *)
LEMMA InitIInv == Init => IInv
<1> SUFFICES ASSUME Init PROVE IInv
  OBVIOUS
<1> USE ConcurrentAssumption DEF ConcurrentAssumption
<1>1. Types
  BY DEF Init, Types, Tasks, WorkerState
<1>2. Cardinality(In(Open)) = N
  <2>1. \A i \in Tasks : worker[i] \in Open
    BY DEF Init, Open
  <2> QED
    BY <1>1, <2>1, Counting DEF Types, In, Where
<1>3. Cardinality(In(Holding)) = 0
  <2>1. \A i \in Tasks : worker[i] \notin Holding
    BY DEF Init, Holding
  <2> QED
    BY <1>1, <2>1, Counting DEF Types, In, Where
<1>4. SlotsAreHeld
  BY <1>1, <1>3 DEF Init, SlotsAreHeld, Limited, Unlimited, Types
<1> QED
  BY <1>1, <1>2, <1>4
     DEF Init, IInv, Counted, StartedInOrder, ResultsOfFinished, Stages, Open, Tasks, Types

(* A worker that moves: what the move does to the two counts. *)
LEMMA WorkerMoves ==
  ASSUME Types, NEW i \in Tasks, NEW s \in WorkerState, worker' = [worker EXCEPT ![i] = s]
  PROVE  /\ worker' \in [Tasks -> WorkerState]
         /\ worker'[i] = s
         /\ \A j \in Tasks : j # i => worker'[j] = worker[j]
         /\ Cardinality(In(Holding)) \in Nat /\ Cardinality(In(Open)) \in Nat
         /\ Cardinality(In(Holding))' = Cardinality(In(Holding))
              + Weight(s, Holding) - Weight(worker[i], Holding)
         /\ Cardinality(In(Open))' = Cardinality(In(Open))
              + Weight(s, Open) - Weight(worker[i], Open)
<1>1. worker \in [Tasks -> WorkerState]
  BY DEF Types
<1>2. /\ Cardinality(Where(worker, Holding)) \in Nat
      /\ Cardinality(Where([worker EXCEPT ![i] = s], Holding)) = Cardinality(Where(worker, Holding))
           + Weight(s, Holding) - Weight(worker[i], Holding)
  BY <1>1, Moving
<1>3. /\ Cardinality(Where(worker, Open)) \in Nat
      /\ Cardinality(Where([worker EXCEPT ![i] = s], Open)) = Cardinality(Where(worker, Open))
           + Weight(s, Open) - Weight(worker[i], Open)
  BY <1>1, Moving
<1>4. /\ In(Holding) = Where(worker, Holding) /\ In(Open) = Where(worker, Open)
      /\ In(Holding)' = Where([worker EXCEPT ![i] = s], Holding)
      /\ In(Open)' = Where([worker EXCEPT ![i] = s], Open)
  BY DEF In, Where, Holding, Open
<1> QED
  BY <1>1, <1>2, <1>3, <1>4

-----------------------------------------------------------------------------
(* The steps of the caller.                                                *)

(* The loop that starts the goroutines, and the return, keep the invariant. *)
LEMMA CallerKeeps ==
  ASSUME IInv, Caller
  PROVE  IInv'
<1> USE ConcurrentAssumption DEF ConcurrentAssumption
<1>1. Types /\ SlotsAreHeld /\ Counted /\ StartedInOrder /\ ResultsOfFinished /\ Stages
  BY DEF IInv
<1>2. limit \in Nat \cup {-1}
  BY <1>1 DEF Types, Unlimited
<1>3. CASE Acquire
  <2>1. worker' = worker /\ results' = results /\ wg' = wg /\ limit' = limit /\ next' = next
    BY <1>3 DEF Acquire
  <2>2. In(Holding)' = In(Holding) /\ In(Open)' = In(Open)
    BY <2>1 DEF In, Holding, Open
  <2>3. Cardinality(In(Holding)) \in Nat
    BY <1>1, Counting DEF Types, In, Where
  <2>4. Types'
    BY <1>1, <1>3 DEF Types, Acquire
  <2>5. SlotsAreHeld'
    BY <1>1, <1>2, <1>3, <2>1, <2>2, <2>3 DEF SlotsAreHeld, Acquire, Limited, Types, Unlimited
  <2>6. Stages'
    BY <1>1, <1>3, <2>1 DEF Stages, Acquire, Limited
  <2> QED
    BY <1>1, <2>1, <2>2, <2>4, <2>5, <2>6 DEF IInv, Counted, StartedInOrder, ResultsOfFinished
<1>4. CASE Spawn
  <2>1. next \in Tasks /\ worker[next] = "none"
    BY <1>1, <1>4 DEF Spawn, Types, StartedInOrder, Tasks
  <2>2. /\ worker' = [worker EXCEPT ![next] = "ready"] /\ next' = next + 1
        /\ results' = results /\ wg' = wg /\ limit' = limit /\ semaphore' = semaphore
        /\ caller' = "loop" /\ caller = IF Limited THEN "spawn" ELSE "loop"
    BY <1>4 DEF Spawn
  <2>3. /\ worker' \in [Tasks -> WorkerState]
        /\ worker'[next] = "ready"
        /\ \A j \in Tasks : j # next => worker'[j] = worker[j]
        /\ Cardinality(In(Holding)) \in Nat
        /\ Cardinality(In(Open)) \in Nat
        /\ Cardinality(In(Holding))' = Cardinality(In(Holding)) + 1
        /\ Cardinality(In(Open))' = Cardinality(In(Open))
    <3> HIDE DEF Holding, Open
    <3>1. /\ "ready" \in WorkerState
          /\ Weight("ready", Holding) = 1 /\ Weight("none", Holding) = 0
          /\ Weight("ready", Open) = 1 /\ Weight("none", Open) = 1
      BY DEF WorkerState, Holding, Open, Weight
    <3>2. /\ worker' \in [Tasks -> WorkerState]
          /\ worker'[next] = "ready"
          /\ \A j \in Tasks : j # next => worker'[j] = worker[j]
          /\ Cardinality(In(Holding)) \in Nat /\ Cardinality(In(Open)) \in Nat
          /\ Cardinality(In(Holding))' = Cardinality(In(Holding))
               + Weight("ready", Holding) - Weight(worker[next], Holding)
          /\ Cardinality(In(Open))' = Cardinality(In(Open))
               + Weight("ready", Open) - Weight(worker[next], Open)
      BY <1>1, <2>1, <2>2, <3>1, WorkerMoves, Zenon
    <3> QED
      BY <2>1, <3>1, <3>2
  <2>4. Types'
    BY <1>1, <2>1, <2>2, <2>3 DEF Types, Tasks
  <2>5. SlotsAreHeld'
    BY <1>1, <2>2, <2>3 DEF SlotsAreHeld, Limited, Types
  <2>6. Counted'
    BY <1>1, <2>2, <2>3 DEF Counted
  <2>7. StartedInOrder'
    BY <1>1, <2>1, <2>2, <2>3 DEF StartedInOrder, Tasks, Types
  <2>8. ResultsOfFinished'
    BY <1>1, <2>1, <2>2, <2>3 DEF ResultsOfFinished
  <2>9. Stages'
    BY <1>1, <2>1, <2>2, <2>3 DEF Stages, Limited
  <2> QED
    BY <2>4, <2>5, <2>6, <2>7, <2>8, <2>9 DEF IInv
<1>5. CASE AllSpawned \/ Return
  <2>1. /\ worker' = worker /\ results' = results /\ wg' = wg /\ limit' = limit
        /\ next' = next /\ semaphore' = semaphore
    BY <1>5 DEF AllSpawned, Return
  <2>2. In(Holding)' = In(Holding) /\ In(Open)' = In(Open)
    BY <2>1 DEF In, Holding, Open
  <2>3. Types'
    BY <1>1, <1>5, <2>1 DEF Types, AllSpawned, Return
  <2>4. caller # "spawn" /\ caller' # "spawn"
    BY <1>5 DEF AllSpawned, Return
  <2>5. SlotsAreHeld'
    BY <1>1, <2>1, <2>2, <2>4 DEF SlotsAreHeld, Limited
  <2>6. Stages'
    BY <1>1, <1>5, <2>1 DEF Stages, Limited, AllSpawned, Return, Types
  <2> QED
    BY <1>1, <2>1, <2>2, <2>3, <2>5, <2>6 DEF IInv, Counted, StartedInOrder, ResultsOfFinished
<1> QED
  BY <1>3, <1>4, <1>5 DEF Caller

-----------------------------------------------------------------------------
(* The steps of the goroutines.                                            *)

(* So does every step of a goroutine: the deferred Done too, on each of  *)
(* the three ways to it.                                                 *)
LEMMA WorkerKeeps ==
  ASSUME IInv, NEW i \in Tasks, Worker(i)
  PROVE  IInv'
<1> USE ConcurrentAssumption DEF ConcurrentAssumption
<1>1. Types /\ SlotsAreHeld /\ Counted /\ StartedInOrder /\ ResultsOfFinished /\ Stages
  BY DEF IInv
<1>2. CASE Begin(i)
  <2>1. /\ worker[i] = "ready" /\ worker' = [worker EXCEPT ![i] = "running"]
        /\ limit' = limit /\ caller' = caller /\ next' = next
        /\ semaphore' = semaphore
        /\ wg' = wg
        /\ results' = results
    BY <1>2 DEF Begin
  <2>2. /\ worker' \in [Tasks -> WorkerState]
        /\ worker'[i] = "running"
        /\ \A j \in Tasks : j # i => worker'[j] = worker[j]
        /\ Cardinality(In(Holding)) \in Nat /\ Cardinality(In(Open)) \in Nat
        /\ Cardinality(In(Holding))' = Cardinality(In(Holding))
        /\ Cardinality(In(Open))' = Cardinality(In(Open))
    <3>1. /\ "running" \in WorkerState
          /\ Weight("running", Holding) = 1 /\ Weight("ready", Holding) = 1
          /\ Weight("running", Open) = 1 /\ Weight("ready", Open) = 1
      BY DEF WorkerState, Holding, Open, Weight
    <3>2. /\ worker' \in [Tasks -> WorkerState]
          /\ worker'[i] = "running"
          /\ \A j \in Tasks : j # i => worker'[j] = worker[j]
          /\ Cardinality(In(Holding)) \in Nat /\ Cardinality(In(Open)) \in Nat
          /\ Cardinality(In(Holding))' = Cardinality(In(Holding))
               + Weight("running", Holding) - Weight(worker[i], Holding)
          /\ Cardinality(In(Open))' = Cardinality(In(Open))
               + Weight("running", Open) - Weight(worker[i], Open)
      BY <1>1, <2>1, <3>1, WorkerMoves, Zenon
    <3> QED
      BY <2>1, <3>1, <3>2
  <2>3. worker[i] # "none" /\ i < next
    BY <1>1, <2>1 DEF StartedInOrder, Types, Tasks
  <2>4. Types'
    BY <1>1, <2>1, <2>2 DEF Types
  <2>5. SlotsAreHeld'
    BY <1>1, <2>1, <2>2 DEF SlotsAreHeld, Limited, Types
  <2>6. Counted'
    BY <1>1, <2>1, <2>2 DEF Counted
  <2>7. StartedInOrder'
    BY <1>1, <2>1, <2>2, <2>3 DEF StartedInOrder, Tasks, Types
  <2>8. ResultsOfFinished'
    BY <1>1, <2>1, <2>2 DEF ResultsOfFinished, Types
  <2>9. Stages'
    BY <1>1, <2>1, <2>2 DEF Stages, Limited
  <2> QED
    BY <2>4, <2>5, <2>6, <2>7, <2>8, <2>9 DEF IInv
<1>3. CASE Finish(i)
  <2>1. /\ worker[i] = "running" /\ worker' = [worker EXCEPT ![i] = "finished"]
        /\ limit' = limit /\ caller' = caller /\ next' = next
        /\ semaphore' = semaphore /\ wg' = wg
        /\ results' = [results EXCEPT ![i] = i]
    BY <1>3 DEF Finish
  <2>2. /\ worker' \in [Tasks -> WorkerState]
        /\ worker'[i] = "finished"
        /\ \A j \in Tasks : j # i => worker'[j] = worker[j]
        /\ Cardinality(In(Holding)) \in Nat /\ Cardinality(In(Open)) \in Nat
        /\ Cardinality(In(Holding))' = Cardinality(In(Holding))
        /\ Cardinality(In(Open))' = Cardinality(In(Open))
    <3>1. /\ "finished" \in WorkerState
          /\ Weight("finished", Holding) = 1 /\ Weight("running", Holding) = 1
          /\ Weight("finished", Open) = 1 /\ Weight("running", Open) = 1
      BY DEF WorkerState, Holding, Open, Weight
    <3>2. /\ worker' \in [Tasks -> WorkerState]
          /\ worker'[i] = "finished"
          /\ \A j \in Tasks : j # i => worker'[j] = worker[j]
          /\ Cardinality(In(Holding)) \in Nat /\ Cardinality(In(Open)) \in Nat
          /\ Cardinality(In(Holding))' = Cardinality(In(Holding))
               + Weight("finished", Holding) - Weight(worker[i], Holding)
          /\ Cardinality(In(Open))' = Cardinality(In(Open))
               + Weight("finished", Open) - Weight(worker[i], Open)
      BY <1>1, <2>1, <3>1, WorkerMoves, Zenon
    <3> QED
      BY <2>1, <3>1, <3>2
  <2>3. worker[i] # "none" /\ i < next
    BY <1>1, <2>1 DEF StartedInOrder, Types, Tasks
  <2>4. Types'
    BY <1>1, <2>1, <2>2 DEF Types
  <2>5. SlotsAreHeld'
    BY <1>1, <2>1, <2>2 DEF SlotsAreHeld, Limited, Types
  <2>6. Counted'
    BY <1>1, <2>1, <2>2 DEF Counted
  <2>7. StartedInOrder'
    BY <1>1, <2>1, <2>2, <2>3 DEF StartedInOrder, Tasks, Types
  <2>8. ResultsOfFinished'
    BY <1>1, <2>1, <2>2 DEF ResultsOfFinished, Types
  <2>9. Stages'
    BY <1>1, <2>1, <2>2 DEF Stages, Limited
  <2> QED
    BY <2>4, <2>5, <2>6, <2>7, <2>8, <2>9 DEF IInv
<1>4. CASE Exit(i)
  <2>1. /\ worker[i] = "running" /\ worker' = [worker EXCEPT ![i] = "exited"]
        /\ limit' = limit /\ caller' = caller /\ next' = next
        /\ semaphore' = semaphore
        /\ wg' = wg
        /\ results' = results
    BY <1>4 DEF Exit
  <2>2. /\ worker' \in [Tasks -> WorkerState]
        /\ worker'[i] = "exited"
        /\ \A j \in Tasks : j # i => worker'[j] = worker[j]
        /\ Cardinality(In(Holding)) \in Nat /\ Cardinality(In(Open)) \in Nat
        /\ Cardinality(In(Holding))' = Cardinality(In(Holding))
        /\ Cardinality(In(Open))' = Cardinality(In(Open))
    <3>1. /\ "exited" \in WorkerState
          /\ Weight("exited", Holding) = 1 /\ Weight("running", Holding) = 1
          /\ Weight("exited", Open) = 1 /\ Weight("running", Open) = 1
      BY DEF WorkerState, Holding, Open, Weight
    <3>2. /\ worker' \in [Tasks -> WorkerState]
          /\ worker'[i] = "exited"
          /\ \A j \in Tasks : j # i => worker'[j] = worker[j]
          /\ Cardinality(In(Holding)) \in Nat /\ Cardinality(In(Open)) \in Nat
          /\ Cardinality(In(Holding))' = Cardinality(In(Holding))
               + Weight("exited", Holding) - Weight(worker[i], Holding)
          /\ Cardinality(In(Open))' = Cardinality(In(Open))
               + Weight("exited", Open) - Weight(worker[i], Open)
      BY <1>1, <2>1, <3>1, WorkerMoves, Zenon
    <3> QED
      BY <2>1, <3>1, <3>2
  <2>3. worker[i] # "none" /\ i < next
    BY <1>1, <2>1 DEF StartedInOrder, Types, Tasks
  <2>4. Types'
    BY <1>1, <2>1, <2>2 DEF Types
  <2>5. SlotsAreHeld'
    BY <1>1, <2>1, <2>2 DEF SlotsAreHeld, Limited, Types
  <2>6. Counted'
    BY <1>1, <2>1, <2>2 DEF Counted
  <2>7. StartedInOrder'
    BY <1>1, <2>1, <2>2, <2>3 DEF StartedInOrder, Tasks, Types
  <2>8. ResultsOfFinished'
    BY <1>1, <2>1, <2>2 DEF ResultsOfFinished, Types
  <2>9. Stages'
    BY <1>1, <2>1, <2>2 DEF Stages, Limited
  <2> QED
    BY <2>4, <2>5, <2>6, <2>7, <2>8, <2>9 DEF IInv
<1>5. CASE Release(i)
  <2>1. /\ worker[i] = "finished" /\ worker' = [worker EXCEPT ![i] = "freed"]
        /\ limit' = limit /\ caller' = caller /\ next' = next
        /\ wg' = wg
        /\ results' = results
        /\ Limited /\ semaphore > 0 /\ semaphore' = semaphore - 1
    BY <1>5 DEF Release
  <2>2. /\ worker' \in [Tasks -> WorkerState]
        /\ worker'[i] = "freed"
        /\ \A j \in Tasks : j # i => worker'[j] = worker[j]
        /\ Cardinality(In(Holding)) \in Nat /\ Cardinality(In(Open)) \in Nat
        /\ Cardinality(In(Holding))' = Cardinality(In(Holding)) - 1
        /\ Cardinality(In(Open))' = Cardinality(In(Open))
    <3>1. /\ "freed" \in WorkerState
          /\ Weight("freed", Holding) = 0 /\ Weight("finished", Holding) = 1
          /\ Weight("freed", Open) = 1 /\ Weight("finished", Open) = 1
      BY DEF WorkerState, Holding, Open, Weight
    <3>2. /\ worker' \in [Tasks -> WorkerState]
          /\ worker'[i] = "freed"
          /\ \A j \in Tasks : j # i => worker'[j] = worker[j]
          /\ Cardinality(In(Holding)) \in Nat /\ Cardinality(In(Open)) \in Nat
          /\ Cardinality(In(Holding))' = Cardinality(In(Holding))
               + Weight("freed", Holding) - Weight(worker[i], Holding)
          /\ Cardinality(In(Open))' = Cardinality(In(Open))
               + Weight("freed", Open) - Weight(worker[i], Open)
      BY <1>1, <2>1, <3>1, WorkerMoves, Zenon
    <3> QED
      BY <2>1, <3>1, <3>2
  <2>3. worker[i] # "none" /\ i < next
    BY <1>1, <2>1 DEF StartedInOrder, Types, Tasks
  <2>4. Types'
    BY <1>1, <2>1, <2>2 DEF Types
  <2>5. SlotsAreHeld'
    BY <1>1, <2>1, <2>2 DEF SlotsAreHeld, Limited, Types
  <2>6. Counted'
    BY <1>1, <2>1, <2>2 DEF Counted
  <2>7. StartedInOrder'
    BY <1>1, <2>1, <2>2, <2>3 DEF StartedInOrder, Tasks, Types
  <2>8. ResultsOfFinished'
    BY <1>1, <2>1, <2>2 DEF ResultsOfFinished, Types
  <2>9. Stages'
    BY <1>1, <2>1, <2>2 DEF Stages, Limited
  <2> QED
    BY <2>4, <2>5, <2>6, <2>7, <2>8, <2>9 DEF IInv
<1>6. CASE Done(i) /\ worker[i] = "exited"
  <2>1. /\ worker[i] = "exited" /\ worker' = [worker EXCEPT ![i] = "gone"]
        /\ limit' = limit /\ caller' = caller /\ next' = next
        /\ semaphore' = semaphore
        /\ results' = results
        /\ wg' = wg - 1
    BY <1>6 DEF Done
  <2>2. /\ worker' \in [Tasks -> WorkerState]
        /\ worker'[i] = "gone"
        /\ \A j \in Tasks : j # i => worker'[j] = worker[j]
        /\ Cardinality(In(Holding)) \in Nat /\ Cardinality(In(Open)) \in Nat
        /\ Cardinality(In(Holding))' = Cardinality(In(Holding))
        /\ Cardinality(In(Open))' = Cardinality(In(Open)) - 1
    <3>1. /\ "gone" \in WorkerState
          /\ Weight("gone", Holding) = 1 /\ Weight("exited", Holding) = 1
          /\ Weight("gone", Open) = 0 /\ Weight("exited", Open) = 1
      BY DEF WorkerState, Holding, Open, Weight
    <3>2. /\ worker' \in [Tasks -> WorkerState]
          /\ worker'[i] = "gone"
          /\ \A j \in Tasks : j # i => worker'[j] = worker[j]
          /\ Cardinality(In(Holding)) \in Nat /\ Cardinality(In(Open)) \in Nat
          /\ Cardinality(In(Holding))' = Cardinality(In(Holding))
               + Weight("gone", Holding) - Weight(worker[i], Holding)
          /\ Cardinality(In(Open))' = Cardinality(In(Open))
               + Weight("gone", Open) - Weight(worker[i], Open)
      BY <1>1, <2>1, <3>1, WorkerMoves, Zenon
    <3> QED
      BY <2>1, <3>1, <3>2
  <2>3. worker[i] # "none" /\ i < next
    BY <1>1, <2>1 DEF StartedInOrder, Types, Tasks
  <2>4. Types'
    BY <1>1, <2>1, <2>2 DEF Types
  <2>5. SlotsAreHeld'
    BY <1>1, <2>1, <2>2 DEF SlotsAreHeld, Limited, Types
  <2>6. Counted'
    BY <1>1, <2>1, <2>2 DEF Counted
  <2>7. StartedInOrder'
    BY <1>1, <2>1, <2>2, <2>3 DEF StartedInOrder, Tasks, Types
  <2>8. ResultsOfFinished'
    BY <1>1, <2>1, <2>2 DEF ResultsOfFinished, Types
  <2>9. wg # 0
    <3>1. worker[i] \in Open
      BY <2>1 DEF Open
    <3> QED
      BY <1>1, <3>1, Counting DEF Counted, In, Where, Types
  <2>10. Stages'
    BY <1>1, <2>1, <2>2, <2>9 DEF Stages, Limited
  <2> QED
    BY <2>4, <2>5, <2>6, <2>7, <2>8, <2>10 DEF IInv
<1>7. CASE Done(i) /\ worker[i] = "freed"
  <2>1. /\ worker[i] = "freed" /\ worker' = [worker EXCEPT ![i] = "done"]
        /\ limit' = limit /\ caller' = caller /\ next' = next
        /\ semaphore' = semaphore
        /\ results' = results
        /\ wg' = wg - 1
    BY <1>7 DEF Done
  <2>2. /\ worker' \in [Tasks -> WorkerState]
        /\ worker'[i] = "done"
        /\ \A j \in Tasks : j # i => worker'[j] = worker[j]
        /\ Cardinality(In(Holding)) \in Nat /\ Cardinality(In(Open)) \in Nat
        /\ Cardinality(In(Holding))' = Cardinality(In(Holding))
        /\ Cardinality(In(Open))' = Cardinality(In(Open)) - 1
    <3>1. /\ "done" \in WorkerState
          /\ Weight("done", Holding) = 0 /\ Weight("freed", Holding) = 0
          /\ Weight("done", Open) = 0 /\ Weight("freed", Open) = 1
      BY DEF WorkerState, Holding, Open, Weight
    <3>2. /\ worker' \in [Tasks -> WorkerState]
          /\ worker'[i] = "done"
          /\ \A j \in Tasks : j # i => worker'[j] = worker[j]
          /\ Cardinality(In(Holding)) \in Nat /\ Cardinality(In(Open)) \in Nat
          /\ Cardinality(In(Holding))' = Cardinality(In(Holding))
               + Weight("done", Holding) - Weight(worker[i], Holding)
          /\ Cardinality(In(Open))' = Cardinality(In(Open))
               + Weight("done", Open) - Weight(worker[i], Open)
      BY <1>1, <2>1, <3>1, WorkerMoves, Zenon
    <3> QED
      BY <2>1, <3>1, <3>2
  <2>3. worker[i] # "none" /\ i < next
    BY <1>1, <2>1 DEF StartedInOrder, Types, Tasks
  <2>4. Types'
    BY <1>1, <2>1, <2>2 DEF Types
  <2>5. SlotsAreHeld'
    BY <1>1, <2>1, <2>2 DEF SlotsAreHeld, Limited, Types
  <2>6. Counted'
    BY <1>1, <2>1, <2>2 DEF Counted
  <2>7. StartedInOrder'
    BY <1>1, <2>1, <2>2, <2>3 DEF StartedInOrder, Tasks, Types
  <2>8. ResultsOfFinished'
    BY <1>1, <2>1, <2>2 DEF ResultsOfFinished, Types
  <2>9. wg # 0
    <3>1. worker[i] \in Open
      BY <2>1 DEF Open
    <3> QED
      BY <1>1, <3>1, Counting DEF Counted, In, Where, Types
  <2>10. Stages'
    BY <1>1, <2>1, <2>2, <2>9 DEF Stages, Limited
  <2> QED
    BY <2>4, <2>5, <2>6, <2>7, <2>8, <2>10 DEF IInv
<1>8. CASE Done(i) /\ worker[i] = "finished"
  <2>1. /\ worker[i] = "finished" /\ worker' = [worker EXCEPT ![i] = "done"]
        /\ limit' = limit /\ caller' = caller /\ next' = next
        /\ semaphore' = semaphore
        /\ results' = results
        /\ wg' = wg - 1 /\ ~Limited
    BY <1>8 DEF Done
  <2>2. /\ worker' \in [Tasks -> WorkerState]
        /\ worker'[i] = "done"
        /\ \A j \in Tasks : j # i => worker'[j] = worker[j]
        /\ Cardinality(In(Holding)) \in Nat /\ Cardinality(In(Open)) \in Nat
        /\ Cardinality(In(Holding))' = Cardinality(In(Holding)) - 1
        /\ Cardinality(In(Open))' = Cardinality(In(Open)) - 1
    <3>1. /\ "done" \in WorkerState
          /\ Weight("done", Holding) = 0 /\ Weight("finished", Holding) = 1
          /\ Weight("done", Open) = 0 /\ Weight("finished", Open) = 1
      BY DEF WorkerState, Holding, Open, Weight
    <3>2. /\ worker' \in [Tasks -> WorkerState]
          /\ worker'[i] = "done"
          /\ \A j \in Tasks : j # i => worker'[j] = worker[j]
          /\ Cardinality(In(Holding)) \in Nat /\ Cardinality(In(Open)) \in Nat
          /\ Cardinality(In(Holding))' = Cardinality(In(Holding))
               + Weight("done", Holding) - Weight(worker[i], Holding)
          /\ Cardinality(In(Open))' = Cardinality(In(Open))
               + Weight("done", Open) - Weight(worker[i], Open)
      BY <1>1, <2>1, <3>1, WorkerMoves, Zenon
    <3> QED
      BY <2>1, <3>1, <3>2
  <2>3. worker[i] # "none" /\ i < next
    BY <1>1, <2>1 DEF StartedInOrder, Types, Tasks
  <2>4. Types'
    BY <1>1, <2>1, <2>2 DEF Types
  <2>5. SlotsAreHeld'
    BY <1>1, <2>1, <2>2 DEF SlotsAreHeld, Limited, Types
  <2>6. Counted'
    BY <1>1, <2>1, <2>2 DEF Counted
  <2>7. StartedInOrder'
    BY <1>1, <2>1, <2>2, <2>3 DEF StartedInOrder, Tasks, Types
  <2>8. ResultsOfFinished'
    BY <1>1, <2>1, <2>2 DEF ResultsOfFinished, Types
  <2>9. wg # 0
    <3>1. worker[i] \in Open
      BY <2>1 DEF Open
    <3> QED
      BY <1>1, <3>1, Counting DEF Counted, In, Where, Types
  <2>10. Stages'
    BY <1>1, <2>1, <2>2, <2>9 DEF Stages, Limited
  <2> QED
    BY <2>4, <2>5, <2>6, <2>7, <2>8, <2>10 DEF IInv
<1> QED
  BY <1>2, <1>3, <1>4, <1>5, <1>6, <1>7, <1>8 DEF Worker, Done

-----------------------------------------------------------------------------
(* The invariant, and what it says.                                        *)

(* Every step of a call keeps the invariant. *)
LEMMA StepKeeps == IInv /\ [Next]_vars => IInv'
<1> SUFFICES ASSUME IInv, [Next]_vars PROVE IInv'
  OBVIOUS
<1>1. CASE Next
  BY <1>1, CallerKeeps, WorkerKeeps DEF Next
<1>2. CASE UNCHANGED vars
  BY <1>2 DEF vars, IInv, Types, SlotsAreHeld, Limited, Counted, StartedInOrder,
     ResultsOfFinished, Stages, In, Holding, Open
<1> QED
  BY <1>1, <1>2

(* The invariant holds throughout a call. *)
LEMMA Invariance == Spec => []IInv
  BY InitIInv, StepKeeps, PTL DEF Spec

(* The wait group is a natural number: Done never makes it negative.       *)
LEMMA CounterIsNatural == IInv => wg \in Nat
  BY Counting DEF IInv, Types, Counted, In, Where

(* Every variable keeps its type, for any number of tasks: wg.Done never   *)
(* panics with a negative counter, and no receive takes a value that is    *)
(* not there.                                                              *)
THEOREM TypesHold == Spec => []TypeOK
<1>1. IInv => TypeOK
  BY CounterIsNatural DEF IInv, Types, TypeOK
<1> QED
  BY <1>1, Invariance, PTL

(* ParallelWithLimit and MapWithLimit: the channel holds a value for each  *)
(* goroutine that has not given its slot back, and at most `limit`.        *)
THEOREM SlotsAccountedFor == Spec => []SlotsAreHeld
<1>1. IInv => SlotsAreHeld
  BY DEF IInv
<1> QED
  BY <1>1, Invariance, PTL

(* When wg is zero, every goroutine has counted down. *)
LEMMA ZeroMeansEnded ==
  ASSUME IInv, wg = 0
  PROVE  \A i \in Tasks : worker[i] \in {"done", "gone"}
<1>1. \A i \in Tasks : worker[i] \notin Open
  BY Counting DEF IInv, Types, Counted, In, Where
<1> QED
  BY <1>1 DEF IInv, Types, Open, WorkerState

(* After the return of a call nothing of it runs and its results are       *)
(* final.                                                                  *)
THEOREM ReturnsQuiet == Spec => []QuietAfterReturn
<1>1. IInv => QuietAfterReturn
  <2> SUFFICES ASSUME IInv, caller = "returned", NEW i \in Tasks
               PROVE  \/ worker[i] = "done" /\ results[i] = i
                      \/ worker[i] = "gone" /\ results[i] = None
    BY DEF QuietAfterReturn
  <2>1. worker[i] \in {"done", "gone"}
    BY ZeroMeansEnded DEF IInv, Stages
  <2> QED
    BY <2>1 DEF IInv, ResultsOfFinished
<1> QED
  BY <1>1, Invariance, PTL

-----------------------------------------------------------------------------
(* Refinement.                                                             *)

Ended == {"finished", "freed", "done", "exited", "gone"}

(* A call starts as ForkJoin does. *)
LEMMA InitRefines == Init => Promise!Init
<1> SUFFICES ASSUME Init PROVE Promise!Init
  OBVIOUS
<1>1. In({"running"}) = {} /\ In(Ended) = {}
  BY DEF Init, In, Ended
<1> QED
  BY <1>1 DEF Init, Promise!Init, Ended, None, Promise!None, Tasks

(* A goroutine that is about to run holds a slot, so fewer than `limit`    *)
(* are running.                                                            *)
LEMMA RoomToRun ==
  ASSUME IInv, NEW i \in Tasks, worker[i] = "ready", limit # Unlimited
  PROVE  Cardinality(In({"running"})) < limit
<1> DEFINE R == In({"running"})
           H == In(Holding)
<1>1. IsFiniteSet(Tasks)
  BY ConcurrentAssumption, FS_Interval DEF ConcurrentAssumption, Tasks
<1>2. R \subseteq H \ {i} /\ i \in H /\ H \subseteq Tasks
  BY DEF In, Holding
<1>3. IsFiniteSet(H) /\ Cardinality(H) \in Nat
  BY <1>1, <1>2, FS_Subset, FS_CardinalityType
<1>4. IsFiniteSet(H \ {i}) /\ Cardinality(H \ {i}) = Cardinality(H) - 1
  <2> HIDE DEF R, H
  <2> QED
    BY <1>2, <1>3, FS_RemoveElement
<1>5. IsFiniteSet(R) /\ Cardinality(R) <= Cardinality(H \ {i})
  <2> HIDE DEF R, H
  <2> QED
    BY <1>2, <1>4, FS_Subset
<1>6. Cardinality(R) \in Nat
  BY <1>5, FS_CardinalityType
<1>7. Cardinality(H) <= limit /\ limit \in Int
  BY <1>3, ConcurrentAssumption
     DEF IInv, Types, SlotsAreHeld, Limited, ConcurrentAssumption, Unlimited
<1> HIDE DEF R, H
<1>8. Cardinality(R) < limit
  BY <1>3, <1>4, <1>5, <1>6, <1>7
<1> QED
  BY <1>8 DEF R

(* ForkJoin counts as Concurrent does. *)
LEMMA SameCardinality == \A S : Promise!Cardinality(S) = Cardinality(S)
  BY DEF Promise!Cardinality, Cardinality, Promise!IsFiniteSet, IsFiniteSet

(* Begin is Start, Finish and Exit are End, Return is Return; every other *)
(* step of a call is none of ForkJoin.                                    *)
LEMMA StepRefines == IInv /\ [Next]_vars => [Promise!Next]_(Promise!forkJoinVars)
<1> SUFFICES ASSUME IInv, [Next]_vars
             PROVE  [Promise!Next]_(Promise!forkJoinVars)
  OBVIOUS
<1> USE DEF In, Ended, Promise!forkJoinVars
<1>1. CASE Acquire \/ AllSpawned \/ UNCHANGED vars
  BY <1>1 DEF Acquire, AllSpawned, vars
<1>2. CASE Spawn
  <2>1. next \in Tasks /\ worker[next] = "none"
    BY <1>2, ConcurrentAssumption
       DEF IInv, Types, StartedInOrder, Spawn, Tasks, ConcurrentAssumption
  <2>2. worker' = [worker EXCEPT ![next] = "ready"] /\ caller # "returned"
    BY <1>2 DEF Spawn
  <2>3. In({"running"})' = In({"running"}) /\ In(Ended)' = In(Ended)
    BY <2>1, <2>2 DEF IInv, Types
  <2> QED
    BY <1>2, <2>2, <2>3 DEF Spawn
<1>3. CASE Return
  <2>1. \A i \in Tasks : worker[i] \in {"done", "gone"}
    BY <1>3, ZeroMeansEnded DEF Return
  <2>2. In(Ended) = 1 .. N
    BY <2>1 DEF Tasks
  <2> QED
    BY <1>3, <2>2 DEF Return, Promise!Next, Promise!Return
<1>4. ASSUME NEW i \in Tasks, Worker(i)
      PROVE  [Promise!Next]_(Promise!forkJoinVars)
  <2>1. worker \in [Tasks -> WorkerState] /\ i \in 1 .. N
    BY DEF IInv, Types, Tasks
  <2>2. CASE Begin(i)
    <3>1. limit # Unlimited => Cardinality(In({"running"})) < limit
      BY <2>2, RoomToRun DEF Begin
    <3>2. i \in (1 .. N) \ (In({"running"}) \cup In(Ended))
      BY <2>1, <2>2 DEF Begin
    <3>3. In({"running"})' = In({"running"}) \cup {i} /\ In(Ended)' = In(Ended)
      BY <2>1, <2>2 DEF Begin
    <3>4. Promise!Start(i)
      BY <2>2, <3>1, <3>2, <3>3, SameCardinality
         DEF Begin, Promise!Start, Promise!Unlimited, Unlimited
    <3> QED
      BY <2>1, <3>4 DEF Promise!Next
  <2>3. CASE Finish(i) \/ Exit(i)
    <3>1. i \in In({"running"})
      BY <2>3 DEF Finish, Exit
    <3>2. In({"running"})' = In({"running"}) \ {i} /\ In(Ended)' = In(Ended) \cup {i}
      BY <2>1, <2>3 DEF Finish, Exit
    <3>3. results' \in {results, [results EXCEPT ![i] = i]}
      BY <2>3 DEF Finish, Exit
    <3>4. Promise!End(i)
      BY <2>3, <3>1, <3>2, <3>3 DEF Finish, Exit, Promise!End
    <3> QED
      BY <2>1, <3>4 DEF Promise!Next
  <2>4. CASE Release(i) \/ Done(i)
    <3>1. In({"running"})' = In({"running"}) /\ In(Ended)' = In(Ended)
      BY <2>1, <2>4 DEF Release, Done
    <3> QED
      BY <2>4, <3>1 DEF Release, Done
  <2> QED
    BY <1>4, <2>2, <2>3, <2>4 DEF Worker
<1> QED
  BY <1>1, <1>2, <1>3, <1>4 DEF Next, Caller

(* A call of stdlib/concurrent is a fork-join: at most `limit` tasks at a  *)
(* time, a return only after all of them, each result at its own index.    *)
THEOREM ImplementsForkJoin == Spec => KeepsPromise
<1>1. Spec => Promise!Spec
  BY InitRefines, StepRefines, Invariance, PTL DEF Spec, Promise!Spec
<1> QED
  BY <1>1 DEF KeepsPromise
=============================================================================
