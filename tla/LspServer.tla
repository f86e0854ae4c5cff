----------------------------- MODULE LspServer -----------------------------
(***************************************************************************)
(* The language server (internal/lsp): the read loop, which handles one    *)
(* notification at a time, the store of open documents, and the debounce   *)
(* timers, each of which publishes from a goroutine of its own once it has *)
(* fired.                                                                  *)
(*                                                                         *)
(* A text stands for itself and for the diagnostics its analysis yields:   *)
(* texts are numbered in the order they arrive, and 0 is no document, or   *)
(* an empty list of diagnostics.  Reading a document (Get) and publishing  *)
(* its errors (Notify) are two steps, and other goroutines run in between. *)
(***************************************************************************)
EXTENDS Naturals, FiniteSets, Functions

CONSTANTS
  URI,
  Timer,        (* the time.Timer values in use; one is reused when spent  *)
  MaxTexts,     (* bound: texts that didOpen and didChange bring           *)
  MaxEmpty,     (* bound: didChange notifications without content changes  *)
  None

ASSUME ServerAssumption ==
  /\ MaxTexts \in Nat /\ MaxEmpty \in Nat
  /\ None \notin URI /\ None \notin Timer

VARIABLES
  documents,        (* DocumentStore.documents                             *)
  debounceTimers,   (* Server.debounceTimers                               *)
  timers,           (* every timer: armed, fired, read (it holds a document *)
                    (* to publish) or spent (stopped or done)              *)
  handler,          (* the step of the handler that runs                   *)
  shown,            (* the diagnostics the client was last sent            *)
  texts, empties    (* how many texts, and empty changes, have come        *)

vars == <<documents, debounceTimers, timers, handler, shown, texts, empties>>

Text == 1 .. MaxTexts
Idle == [at |-> "idle", uri |-> None, doc |-> 0]
Spent == [state |-> "spent", uri |-> None, doc |-> 0]

(* NewServer.  The connection of Run is there before the first document. *)
Init ==
  /\ documents = [u \in URI |-> 0]
  /\ debounceTimers = [u \in URI |-> None]
  /\ timers = [t \in Timer |-> Spent]
  /\ handler = Idle
  /\ shown = [u \in URI |-> 0]
  /\ texts = 0 /\ empties = 0

HandlerAt(step) == handler.at = step

(* A new text, analysed before the store is locked, replaces the document. *)
Store(u) ==
  /\ texts < MaxTexts
  /\ texts' = texts + 1
  /\ documents' = [documents EXCEPT ![u] = texts + 1]
  /\ UNCHANGED <<debounceTimers, timers, shown, empties>>

(* handleDidOpen: store, then publish. *)
DidOpen(u) ==
  /\ HandlerAt("idle")
  /\ Store(u)
  /\ handler' = [at |-> "get", uri |-> u, doc |-> 0]

(* Mutant: the document is only stored. *)
DidChangeUnreported(u) ==
  /\ HandlerAt("idle")
  /\ Store(u)
  /\ UNCHANGED handler

(* handleDidChange: store, then debounce.  A document that is not open is  *)
(* created.                                                                *)
DidChange(u) ==
  /\ HandlerAt("idle")
  /\ Store(u)
  /\ handler' = [at |-> "debounce", uri |-> u, doc |-> 0]

(* Without content changes the debouncing starts again all the same. *)
DidChangeEmpty(u) ==
  /\ HandlerAt("idle")
  /\ empties < MaxEmpty
  /\ empties' = empties + 1
  /\ handler' = [at |-> "debounce", uri |-> u, doc |-> 0]
  /\ UNCHANGED <<documents, debounceTimers, timers, shown, texts>>

(* A timer that was armed and did not fire never will.  The result of Stop *)
(* is not looked at: a timer that has fired goes on.                       *)
Stopped(u) ==
  LET t == debounceTimers[u]
  IN IF t # None /\ timers[t].state = "armed" THEN [timers EXCEPT ![t] = Spent] ELSE timers

(* A timer that nothing refers to any more. *)
Free(t) == timers[t].state = "spent" /\ \A u \in URI : debounceTimers[u] # t

(* Mutant: the timer in the map is replaced but not stopped. *)
DebounceWithoutStop ==
  /\ HandlerAt("debounce")
  /\ \E t \in Timer :
       /\ Free(t)
       /\ timers' = [timers EXCEPT ![t] = [state |-> "armed", uri |-> handler.uri, doc |-> 0]]
       /\ debounceTimers' = [debounceTimers EXCEPT ![handler.uri] = t]
  /\ handler' = Idle
  /\ UNCHANGED <<documents, shown, texts, empties>>

(* Mutant: a document that has a timer is not given a new one. *)
DebounceFirstOnly ==
  /\ HandlerAt("debounce")
  /\ IF debounceTimers[handler.uri] # None
     THEN timers' = Stopped(handler.uri) /\ UNCHANGED debounceTimers
     ELSE \E t \in Timer :
            /\ Free(t)
            /\ timers' = [timers EXCEPT ![t] = [state |-> "armed", uri |-> handler.uri, doc |-> 0]]
            /\ debounceTimers' = [debounceTimers EXCEPT ![handler.uri] = t]
  /\ handler' = Idle
  /\ UNCHANGED <<documents, shown, texts, empties>>

(* debounceDiagnostics, under debounceMu: the old timer is stopped and a   *)
(* new one takes its place.                                                *)
Debounce ==
  /\ HandlerAt("debounce")
  /\ \E t \in Timer :
       /\ Free(t)
       /\ timers' = [Stopped(handler.uri) EXCEPT
                       ![t] = [state |-> "armed", uri |-> handler.uri, doc |-> 0]]
       /\ debounceTimers' = [debounceTimers EXCEPT ![handler.uri] = t]
  /\ handler' = Idle
  /\ UNCHANGED <<documents, shown, texts, empties>>

(* handleDidSave publishes what is stored, and leaves the timer running. *)
DidSave(u) ==
  /\ HandlerAt("idle")
  /\ handler' = [at |-> "get", uri |-> u, doc |-> 0]
  /\ UNCHANGED <<documents, debounceTimers, timers, shown, texts, empties>>

(* Mutant: the document stays in the store. *)
DidCloseKeepingDocument(u) ==
  /\ HandlerAt("idle")
  /\ timers' = Stopped(u)
  /\ debounceTimers' = [debounceTimers EXCEPT ![u] = None]
  /\ handler' = [at |-> "clear", uri |-> u, doc |-> 0]
  /\ UNCHANGED <<documents, shown, texts, empties>>

(* handleDidClose: the timer is stopped and forgotten, then the document,  *)
(* then the client is told that nothing is left to show.                   *)
DidClose(u) ==
  /\ HandlerAt("idle")
  /\ timers' = Stopped(u)
  /\ debounceTimers' = [debounceTimers EXCEPT ![u] = None]
  /\ handler' = [at |-> "delete", uri |-> u, doc |-> 0]
  /\ UNCHANGED <<documents, shown, texts, empties>>

Delete ==
  /\ HandlerAt("delete")
  /\ documents' = [documents EXCEPT ![handler.uri] = 0]
  /\ handler' = [handler EXCEPT !.at = "clear"]
  /\ UNCHANGED <<debounceTimers, timers, shown, texts, empties>>

Clear ==
  /\ HandlerAt("clear")
  /\ shown' = [shown EXCEPT ![handler.uri] = 0]
  /\ handler' = Idle
  /\ UNCHANGED <<documents, debounceTimers, timers, texts, empties>>

(* publishDiagnostics, called by the handler: a document that is not there *)
(* is not published.                                                       *)
HandlerGet ==
  LET doc == documents[handler.uri]
  IN /\ HandlerAt("get")
     /\ handler' = IF doc = 0 THEN Idle ELSE [handler EXCEPT !.at = "notify", !.doc = doc]
     /\ UNCHANGED <<documents, debounceTimers, timers, shown, texts, empties>>

HandlerNotify ==
  /\ HandlerAt("notify")
  /\ shown' = [shown EXCEPT ![handler.uri] = handler.doc]
  /\ handler' = Idle
  /\ UNCHANGED <<documents, debounceTimers, timers, texts, empties>>

(* The debounce delay is over; the timer stays in the map. *)
Fire(t) ==
  /\ timers[t].state = "armed"
  /\ timers' = [timers EXCEPT ![t].state = "fired"]
  /\ UNCHANGED <<documents, debounceTimers, handler, shown, texts, empties>>

(* publishDiagnostics, called by the timer's goroutine. *)
TimerGet(t) ==
  LET doc == documents[timers[t].uri]
  IN /\ timers[t].state = "fired"
     /\ timers' = IF doc = 0 THEN [timers EXCEPT ![t] = Spent]
                  ELSE [timers EXCEPT ![t].state = "read", ![t].doc = doc]
     /\ UNCHANGED <<documents, debounceTimers, handler, shown, texts, empties>>

TimerNotify(t) ==
  /\ timers[t].state = "read"
  /\ shown' = [shown EXCEPT ![timers[t].uri] = timers[t].doc]
  /\ timers' = [timers EXCEPT ![t] = Spent]
  /\ UNCHANGED <<documents, debounceTimers, handler, texts, empties>>

(* The next notification of the client.  Requests only read documents. *)
Receive == \E u \in URI :
  DidOpen(u) \/ DidChange(u) \/ DidChangeEmpty(u) \/ DidSave(u) \/ DidClose(u)

HandlerStep == Debounce \/ Delete \/ Clear \/ HandlerGet \/ HandlerNotify

TimerStep(t) == Fire(t) \/ TimerGet(t) \/ TimerNotify(t)

Next == Receive \/ HandlerStep \/ \E t \in Timer : TimerStep(t)

Spec == Init /\ [][Next]_vars

(* A handler that runs goes on, timers fire, and their goroutines run.     *)
(* Nothing makes the client send anything.                                 *)
FairSpec == Spec /\ WF_vars(HandlerStep) /\ \A t \in Timer : WF_vars(TimerStep(t))

-----------------------------------------------------------------------------
(* Properties.                                                             *)

(* A goroutine that is about to publish holds a document, never the nil of *)
(* Get (diagnostics.go:18).                                                *)
TypeOK ==
  /\ documents \in [URI -> 0 .. texts]
  /\ debounceTimers \in [URI -> Timer \cup {None}]
  /\ timers \in [Timer ->
       {Spent} \cup [state : {"armed", "fired"}, uri : URI, doc : {0}]
               \cup [state : {"read"}, uri : URI, doc : Text]]
  /\ handler \in
       {Idle} \cup [at : {"debounce", "get", "delete", "clear"}, uri : URI, doc : {0}]
              \cup [at : {"notify"}, uri : URI, doc : Text]
  /\ shown \in [URI -> 0 .. MaxTexts]
  /\ texts \in 0 .. MaxTexts /\ empties \in 0 .. MaxEmpty

(* A timer that will still fire is the one the map has for its document,   *)
(* and for no other: there is one of them at most, and the next change or  *)
(* the close of that document stops it (server.go:206, 245).               *)
ArmedIsInMap ==
  \A t \in Timer, u \in URI :
    timers[t].state = "armed" => (debounceTimers[u] = t <=> timers[t].uri = u)

(* What a handler publishes is the document as it is then, and what it     *)
(* clears is gone: from its Get, or Close, to its Notify nobody else       *)
(* changes the store.                                                      *)
HandlerIsCurrent ==
  HandlerAt("notify") \/ HandlerAt("clear") => handler.doc = documents[handler.uri]

(* The client will hear of u again without sending anything: the handler   *)
(* is at it, or a timer is that will publish the document as it is now.    *)
Pending(u) ==
  \/ handler.uri = u /\ (documents[u] # 0 \/ handler.at \in {"delete", "clear"})
  \/ \E t \in Timer :
       /\ timers[t].uri = u
       /\ documents[u] # 0
       /\ timers[t].state \in {"armed", "fired"} \/ timers[t].doc = documents[u]

(* The client sees diagnostics that are not those of the document, and     *)
(* nothing will correct it.                                                *)
Abandoned(u) == shown[u] # documents[u] /\ ~Pending(u)

(* Debouncing loses no change: the only step that leaves a document with   *)
(* the wrong diagnostics is that of a timer that read the document before  *)
(* it was replaced or closed, and published after the handler did.         *)
OnlyOvertakenTimersMislead ==
  [][\A u \in URI : Abandoned(u)' /\ ~Abandoned(u) =>
       \E t \in Timer :
         /\ timers[t].state = "read" /\ timers'[t] = Spent
         /\ timers[t].uri = u /\ timers[t].doc # documents[u]]_vars

(* What is pending comes: the text of a document is reported unless it is  *)
(* replaced or closed first, once the client stops typing ("Diagnostics    *)
(* are published after diagnosticDebounce of inactivity", server.go:201).  *)
EveryTextIsReported ==
  \A u \in URI, v \in Text :
    documents[u] = v /\ Pending(u) ~> documents[u] # v \/ shown[u] = v

(* Nothing is shown for a closed document once all is quiet: its pending   *)
(* diagnostics are cancelled, and those it had are cleared                 *)
(* (server.go:243, 253).                                                   *)
ClosedShowsNothing ==
  \A u \in URI : documents[u] = 0 /\ ~Pending(u) => shown[u] = 0
=============================================================================
