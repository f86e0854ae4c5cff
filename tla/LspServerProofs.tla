-------------------------- MODULE LspServerProofs --------------------------
(***************************************************************************)
(* Proofs about LspServer, for every set of documents and of timers and    *)
(* however many texts come.  ArmedIsInMap and HandlerIsCurrent are         *)
(* inductive given the types; that only overtaken timers mislead is then a *)
(* fact about single steps.                                                *)
(***************************************************************************)
EXTENDS LspServer, TLAPS


(* The server starts with no document, no timer and nothing published. *)
LEMMA InitTypeOK == Init => TypeOK
BY ServerAssumption DEF Init, TypeOK, Idle, Spent, Text

(* The values timers takes. *)
TimerValue ==
  {Spent} \cup [state : {"armed", "fired"}, uri : URI, doc : {0}]
          \cup [state : {"read"}, uri : URI, doc : Text]

(* Stopping the timer of a document spends that timer if it is armed, and touches no other. *)
LEMMA StoppedType ==
  ASSUME TypeOK, NEW u \in URI
  PROVE  /\ Stopped(u) \in [Timer -> TimerValue]
         /\ \A t \in Timer : \/ Stopped(u)[t] = timers[t]
                             \/ /\ Stopped(u)[t] = Spent
                                /\ timers[t].state = "armed"
                                /\ t = debounceTimers[u]
BY DEF TypeOK, Stopped, TimerValue

(* Every handler, timer and notification keeps the types. *)
LEMMA TypesPreserved == TypeOK /\ [Next]_vars => TypeOK'
<1> SUFFICES ASSUME TypeOK, [Next]_vars PROVE TypeOK'
  OBVIOUS
<1> USE DEF TypeOK, Idle, HandlerAt
<1>1. ASSUME NEW u \in URI, Store(u),
             handler' \in [at : {"get", "debounce"}, uri : {u}, doc : {0}]
      PROVE  TypeOK'
  BY <1>1, ServerAssumption DEF Store, Text
<1>2. ASSUME NEW u \in URI, DidOpen(u) PROVE TypeOK'
  BY <1>1, <1>2 DEF DidOpen
<1>3. ASSUME NEW u \in URI, DidChange(u) PROVE TypeOK'
  BY <1>1, <1>3 DEF DidChange
<1>4. ASSUME NEW u \in URI, DidChangeEmpty(u) PROVE TypeOK'
  BY <1>4, ServerAssumption DEF DidChangeEmpty
<1>5. ASSUME NEW u \in URI, DidSave(u) PROVE TypeOK'
  BY <1>5 DEF DidSave
<1>6. ASSUME NEW u \in URI, DidClose(u) PROVE TypeOK'
  BY <1>6, StoppedType DEF DidClose, TimerValue
<1>7. CASE Debounce
  <2>1. handler.uri \in URI
    BY <1>7 DEF Debounce
  <2>2. PICK t \in Timer :
          /\ timers' = [Stopped(handler.uri) EXCEPT
                          ![t] = [state |-> "armed", uri |-> handler.uri, doc |-> 0]]
          /\ debounceTimers' = [debounceTimers EXCEPT ![handler.uri] = t]
    BY <1>7 DEF Debounce
  <2>3. timers' \in [Timer -> TimerValue]
    BY <2>1, <2>2, StoppedType DEF TimerValue
  <2> QED
    BY <1>7, <2>1, <2>2, <2>3 DEF Debounce, TimerValue
<1>8. CASE Delete
  BY <1>8, ServerAssumption DEF Delete
<1>9. CASE Clear
  BY <1>9, ServerAssumption DEF Clear
<1>10. CASE HandlerGet
  <2>1. handler.uri \in URI /\ documents[handler.uri] \in 0 .. MaxTexts
    BY <1>10, ServerAssumption DEF HandlerGet
  <2>2. CASE documents[handler.uri] = 0
    BY <1>10, <2>2 DEF HandlerGet
  <2>3. CASE documents[handler.uri] # 0
    <3>1. handler' = [at |-> "notify", uri |-> handler.uri, doc |-> documents[handler.uri]]
      BY <1>10, <2>1, <2>3 DEF HandlerGet
    <3> QED
      BY <1>10, <2>1, <2>3, <3>1 DEF HandlerGet, Text
  <2> QED
    BY <2>2, <2>3
<1>11. CASE HandlerNotify
  BY <1>11, ServerAssumption DEF HandlerNotify, Text
<1>12. ASSUME NEW t \in Timer, Fire(t) PROVE TypeOK'
  BY <1>12 DEF Fire, Spent
<1>13. ASSUME NEW t \in Timer, TimerGet(t) PROVE TypeOK'
  BY <1>13, ServerAssumption DEF TimerGet, Spent, Text
<1>14. ASSUME NEW t \in Timer, TimerNotify(t) PROVE TypeOK'
  BY <1>14, ServerAssumption DEF TimerNotify, Spent, Text
<1>15. CASE UNCHANGED vars
  BY <1>15 DEF vars
<1> QED
  BY <1>2, <1>3, <1>4, <1>5, <1>6, <1>7, <1>8, <1>9, <1>10, <1>11, <1>12, <1>13, <1>14, <1>15
     DEF Next, Receive, HandlerStep, TimerStep

(* The types of LspServer.TypeOK hold always; with them, no goroutine ever *)
(* publishes a nil document.                                               *)
THEOREM Types == Spec => []TypeOK
<1>1. Init => TypeOK
  BY InitTypeOK
<1>2. TypeOK /\ [Next]_vars => TypeOK'
  BY TypesPreserved
<1> QED
  BY <1>1, <1>2, PTL DEF Spec

-----------------------------------------------------------------------------
(* What the actions do to the timers, whoever takes them.                  *)

(* A step arms a timer, lets one fire, read or end, or stops the one that  *)
(* the map has for the document the handler is about to debounce or close. *)
LEMMA ArmedPreserved == TypeOK /\ ArmedIsInMap /\ [Next]_vars => ArmedIsInMap'
<1> SUFFICES ASSUME TypeOK, ArmedIsInMap, [Next]_vars,
                    NEW s \in Timer, NEW w \in URI, timers'[s].state = "armed"
             PROVE  debounceTimers'[w] = s <=> timers'[s].uri = w
  BY DEF ArmedIsInMap
<1> DEFINE Kept == debounceTimers'[w] = s <=> timers'[s].uri = w
<1> USE DEF TypeOK, ArmedIsInMap, Spent
<1>1. ASSUME UNCHANGED <<timers, debounceTimers>> PROVE Kept
  BY <1>1
<1>2. ASSUME NEW u \in URI, DidClose(u) PROVE Kept
  <2>1. timers'[s] = timers[s] /\ timers[s].state = "armed"
    BY <1>2, StoppedType DEF DidClose
  <2>2. debounceTimers[u] # s
    BY <1>2, <2>1, ServerAssumption DEF DidClose, Stopped
  <2> QED
    BY <1>2, <2>1, <2>2, ServerAssumption DEF DidClose
<1>3. CASE Debounce
  <2>1. handler.uri \in URI
    BY <1>3 DEF Debounce, HandlerAt, Idle
  <2>2. PICK t \in Timer :
          /\ Free(t)
          /\ timers' = [Stopped(handler.uri) EXCEPT
                          ![t] = [state |-> "armed", uri |-> handler.uri, doc |-> 0]]
          /\ debounceTimers' = [debounceTimers EXCEPT ![handler.uri] = t]
    BY <1>3 DEF Debounce
  <2>3. CASE s = t
    BY <2>1, <2>2, <2>3, StoppedType DEF Free
  <2>4. CASE s # t
    <3>1. Stopped(handler.uri)[s].state = "armed"
      BY <2>1, <2>2, <2>4, StoppedType
    <3>2. timers'[s] = timers[s] /\ timers[s].state = "armed"
      BY <2>1, <2>2, <2>4, <3>1, StoppedType
    <3>3. debounceTimers[handler.uri] # s
      BY <2>1, <3>1, <3>2, ServerAssumption DEF Stopped
    <3> QED
      BY <2>1, <2>2, <2>4, <3>2, <3>3
  <2> QED
    BY <2>3, <2>4
<1>4. ASSUME NEW t \in Timer, TimerStep(t) PROVE Kept
  BY <1>4 DEF TimerStep, Fire, TimerGet, TimerNotify
<1>5. CASE \E u \in URI : DidOpen(u) \/ DidChange(u) \/ DidChangeEmpty(u) \/ DidSave(u)
  BY <1>1, <1>5 DEF DidOpen, DidChange, DidChangeEmpty, DidSave, Store
<1>6. CASE Delete \/ Clear \/ HandlerGet \/ HandlerNotify
  BY <1>1, <1>6 DEF Delete, Clear, HandlerGet, HandlerNotify
<1> QED
  BY <1>1, <1>2, <1>3, <1>4, <1>5, <1>6 DEF Next, Receive, HandlerStep, vars

(* There is never an armed timer that the map has lost: a change or a      *)
(* close always reaches the timer that would publish.                      *)
THEOREM TimersAreReachable == Spec => []ArmedIsInMap
<1>1. Init => ArmedIsInMap
  BY DEF Init, ArmedIsInMap, Spent
<1>2. TypeOK /\ ArmedIsInMap /\ [Next]_vars => ArmedIsInMap'
  BY ArmedPreserved
<1> QED
  BY <1>1, <1>2, Types, PTL DEF Spec

(* Between the store and the publication of a handler no other notification is handled. *)
LEMMA CurrentPreserved == TypeOK /\ HandlerIsCurrent /\ [Next]_vars => HandlerIsCurrent'
<1> SUFFICES ASSUME TypeOK, HandlerIsCurrent, [Next]_vars,
                    handler'.at \in {"notify", "clear"}
             PROVE  handler'.doc = documents'[handler'.uri]
  BY DEF HandlerIsCurrent, HandlerAt
<1>1. CASE HandlerGet
  BY <1>1 DEF HandlerGet, TypeOK, HandlerAt, Idle
<1>2. CASE Delete
  <2>1. handler.uri \in URI /\ handler.doc = 0
    BY <1>2 DEF Delete, TypeOK, HandlerAt, Idle
  <2>2. handler'.uri = handler.uri /\ handler'.doc = 0
    BY <1>2, <2>1 DEF Delete, TypeOK
  <2> QED
    BY <1>2, <2>1, <2>2 DEF Delete, TypeOK
<1>3. CASE UNCHANGED <<handler, documents>>
  BY <1>3 DEF HandlerIsCurrent, HandlerAt
<1>4. CASE Receive \/ Debounce \/ Clear \/ HandlerNotify
  BY <1>4 DEF Receive, DidOpen, DidChange, DidChangeEmpty, DidSave, DidClose,
              Debounce, Clear, HandlerNotify, Idle, TypeOK
<1>5. ASSUME NEW t \in Timer, TimerStep(t) PROVE UNCHANGED <<handler, documents>>
  BY <1>5 DEF TimerStep, Fire, TimerGet, TimerNotify
<1> QED
  BY <1>1, <1>2, <1>3, <1>4, <1>5 DEF Next, HandlerStep, vars

(* What the read loop publishes is never stale.                            *)
THEOREM HandlerPublishesCurrent == Spec => []HandlerIsCurrent
<1>1. Init => HandlerIsCurrent
  BY DEF Init, HandlerIsCurrent, HandlerAt, Idle
<1>2. TypeOK /\ HandlerIsCurrent /\ [Next]_vars => HandlerIsCurrent'
  BY CurrentPreserved
<1> QED
  BY <1>1, <1>2, Types, PTL DEF Spec

-----------------------------------------------------------------------------
(* Who misleads the client.                                                *)

(* The timers of u are out of the reach of a handler that is at another    *)
(* document.                                                               *)
LEMMA OthersKeepTheirTimers ==
  ASSUME TypeOK, ArmedIsInMap, NEW u \in URI, NEW v \in URI, u # v,
         NEW t \in Timer, timers[t].uri = u
  PROVE  Stopped(v)[t] = timers[t]
BY ServerAssumption DEF TypeOK, ArmedIsInMap, Stopped, Spent

(* Every step but that of an overtaken timer keeps the client informed or  *)
(* about to be.                                                            *)
LEMMA StepMisleadsOnlyIfOvertaken ==
  ASSUME TypeOK, ArmedIsInMap, HandlerIsCurrent, [Next]_vars,
         NEW u \in URI, Abandoned(u)', ~Abandoned(u)
  PROVE  \E t \in Timer :
           /\ timers[t].state = "read" /\ timers'[t] = Spent
           /\ timers[t].uri = u /\ timers[t].doc # documents[u]
<1> USE DEF TypeOK, HandlerAt, Idle
<1>1. ASSUME NEW v \in URI, DidOpen(v) \/ DidChange(v) PROVE FALSE
  <2>1. v # u => FALSE
    BY <1>1, ServerAssumption DEF DidOpen, DidChange, Store, Abandoned, Pending
  <2>2. v = u => FALSE
    BY <1>1, ServerAssumption DEF DidOpen, DidChange, Store, Abandoned, Pending
  <2> QED
    BY <2>1, <2>2
<1>2. ASSUME NEW v \in URI, DidChangeEmpty(v) \/ DidSave(v) PROVE FALSE
  BY <1>2, ServerAssumption DEF DidChangeEmpty, DidSave, Abandoned, Pending
<1>3. ASSUME NEW v \in URI, DidClose(v) PROVE FALSE
  <2>1. CASE v = u
    BY <1>3, <2>1 DEF DidClose, Abandoned, Pending
  <2>2. CASE v # u
    <3>1. \A t \in Timer : timers[t].uri = u => timers'[t] = timers[t]
      BY <1>3, <2>2, OthersKeepTheirTimers DEF DidClose
    <3> QED
      BY <1>3, <2>2, <3>1, ServerAssumption DEF DidClose, Abandoned, Pending
  <2> QED
    BY <2>1, <2>2
<1>4. ASSUME Debounce PROVE FALSE
  <2>1. handler.uri \in URI
    BY <1>4 DEF Debounce
  <2>2. PICK t \in Timer :
          /\ Free(t)
          /\ timers' = [Stopped(handler.uri) EXCEPT
                          ![t] = [state |-> "armed", uri |-> handler.uri, doc |-> 0]]
    BY <1>4 DEF Debounce
  <2>3. CASE handler.uri = u
    <3>1. timers'[t].uri = u /\ timers'[t].state = "armed"
      BY <2>1, <2>2, <2>3, StoppedType
    <3> QED
      BY <1>4, <2>3, <3>1 DEF Debounce, Abandoned, Pending
  <2>4. CASE handler.uri # u
    <3>1. timers[t].uri # u
      BY <2>2, ServerAssumption DEF Free, Spent
    <3>2. \A s \in Timer : timers[s].uri = u => timers'[s] = timers[s]
      BY <2>1, <2>2, <2>4, <3>1, OthersKeepTheirTimers, StoppedType
    <3> QED
      BY <1>4, <2>4, <3>2 DEF Debounce, Abandoned, Pending
  <2> QED
    BY <2>3, <2>4
<1>5. ASSUME Delete PROVE FALSE
  BY <1>5 DEF Delete, Abandoned, Pending
<1>6. ASSUME Clear PROVE FALSE
  BY <1>6 DEF Clear, HandlerIsCurrent, Abandoned, Pending
<1>7. ASSUME HandlerGet PROVE FALSE
  BY <1>7 DEF HandlerGet, Abandoned, Pending
<1>8. ASSUME HandlerNotify PROVE FALSE
  BY <1>8 DEF HandlerNotify, HandlerIsCurrent, Abandoned, Pending
<1>9. ASSUME NEW t \in Timer, Fire(t) PROVE FALSE
  BY <1>9, ServerAssumption DEF Fire, Abandoned, Pending, Spent
<1>10. ASSUME NEW t \in Timer, TimerGet(t) PROVE FALSE
  BY <1>10, ServerAssumption DEF TimerGet, Abandoned, Pending, Spent
<1>11. ASSUME NEW t \in Timer, TimerNotify(t)
       PROVE  timers[t].uri = u /\ timers[t].doc # documents[u]
  BY <1>11, ServerAssumption DEF TimerNotify, Abandoned, Pending, Spent
<1>12. CASE UNCHANGED vars
  BY <1>12 DEF vars, Abandoned, Pending
<1> QED
  BY <1>1, <1>2, <1>3, <1>4, <1>5, <1>6, <1>7, <1>8, <1>9, <1>10, <1>11, <1>12
     DEF Next, Receive, HandlerStep, TimerStep, TimerNotify

(* Debouncing loses no change: only a timer that read the document before  *)
(* it was replaced or closed can leave the client with diagnostics that    *)
(* are not the document's.                                                 *)
THEOREM DebouncingLosesNothing == Spec => OnlyOvertakenTimersMislead
<1>1. TypeOK /\ ArmedIsInMap /\ HandlerIsCurrent /\ [Next]_vars =>
        [\A u \in URI : Abandoned(u)' /\ ~Abandoned(u) =>
           \E t \in Timer :
             /\ timers[t].state = "read" /\ timers'[t] = Spent
             /\ timers[t].uri = u /\ timers[t].doc # documents[u]]_vars
  BY StepMisleadsOnlyIfOvertaken
<1> QED
  BY <1>1, Types, TimersAreReachable, HandlerPublishesCurrent, PTL
     DEF Spec, OnlyOvertakenTimersMislead
=============================================================================
