---------------------------- MODULE ProxyProofs ----------------------------
(***************************************************************************)
(* Proofs about Proxy, for every set of versions, of requests and of       *)
(* inodes, every cooldown and all the scenarios there are.  What is        *)
(* inductive: where each request stands (Steps), how the records, the file *)
(* and the times given are ordered (Clocks, SeenAfterClock) and when they  *)
(* are equal (RecordsAreTheClock), that only what may be served has passed *)
(* (OnlyRipePass), and who writes a temporary file (TmpIsOwn, OneWriter).  *)
(***************************************************************************)
EXTENDS Proxy, TLAPS

-----------------------------------------------------------------------------
(* The parts of the inductive invariant.                                   *)

(* A request has the time of its version and has not passed yet. *)
Judged == {"judge", "vuln", "query", "store"}

(* Where a request stands. *)
Stands(r) ==
  LET q == requests[r]
  IN /\ q.at # "idle" => q.version # None /\ status # "down"
     /\ q.at \in Judged => q.seen # None
     /\ q.version \notin q.todo
     /\ q.asOf <= now
     /\ q.at = "persist" <=> mu = r
     /\ q.at = "persist" => /\ scenario.mode = "local"
                            /\ q.seen # None /\ records[q.version] = q.seen
     /\ q.at \in {"fetch", "cache", "write", "writing", "rename", "reply"} =>
          q.kind \in {"info", "file"}
     /\ q.at \in {"writing", "rename"} <=> fd[r] # None
     /\ fd[r] # None => fd[r].path = q.version

Steps == \A r \in Request : Stands(r)

(* Once v is given a time, no record of it is older, and a record that no  *)
(* request was given yet is being written.                                 *)
Clocked(v) ==
  /\ clock[v] # None => clock[v] <= now
  /\ records[v] # None => records[v] <= now
  /\ saved[v] # None => clock[v] # None /\ clock[v] <= saved[v] /\ saved[v] <= now
  /\ status # "down" /\ records[v] # None =>
       \/ clock[v] # None /\ clock[v] <= records[v]
       \/ clock[v] = None /\ mu # None /\ requests[mu].version = v

Clocks == (\A v \in Version : Clocked(v)) /\ (status = "down" => ~unsaved)

(* The time of a request is no earlier than the clock of its version. *)
SeenAfterClock ==
  \A r \in Request : requests[r].at \in Judged =>
    /\ clock[requests[r].version] # None
    /\ clock[requests[r].version] <= requests[r].seen

(* What can be served. *)
Ripe(v) ==
  \/ scenario.trusted
  \/ v \in advisories
  \/ clock[v] # None /\ now - clock[v] >= Cooldown

(* A request that has passed, but for handleList. *)
Passed == {"fetch", "cache", "write", "writing", "rename", "reply"}

PassesRipe(r) ==
  LET q == requests[r]
  IN /\ \A v \in q.passed \cup q.reply.served : Ripe(v)
     /\ q.reply.served # {} => q.reply.code = "ok"
     /\ q.at \in Passed => Ripe(q.version)
     /\ q.fixed \subseteq advisories

OnlyRipePass ==
  /\ \A r \in Request : PassesRipe(r)
  /\ vulnCache # None => vulnCache.fixed \subseteq advisories

(* Unless a record was lost, every record is the clock. *)
RecordsAreTheClock ==
  ~lost /\ status # "down" =>
    \A v \in Version : clock[v] # None => records[v] = clock[v]

(* The temporary names have inodes of their own. *)
TmpIsOwn ==
  \A v, w \in Version :
    /\ tmp[v] # None => tmp[v] # final[w]
    /\ tmp[v] # None /\ tmp[v] = tmp[w] => v = w

(* A temporary file that is not shared has one writer, and is whole when   *)
(* that is about to rename it.                                             *)
OneWriter ==
  \A v \in Version : tmp[v] # None /\ ~content[tmp[v]].shared =>
    \A r \in Request : fd[r] # None /\ fd[r].path = v =>
      /\ fd[r].inode = tmp[v] /\ content[tmp[v]].writer = r
      /\ requests[r].at = "rename" => content[tmp[v]].whole

-----------------------------------------------------------------------------

(* A handler that does nothing is a handler. *)
LEMMA IdleType == Idle \in Handler
BY DEF Idle, NoReply, Handler, Places, Kinds

(* The proxy starts with empty stores and no request. *)
LEMMA InitTypeOK == Init => TypeOK
<1> SUFFICES ASSUME Init PROVE TypeOK
  OBVIOUS
<1>1. SeenTypeOK
  BY DEF Init, SeenInit, SeenTypeOK
<1>2. FilesTypeOK
  BY DEF Init, FilesInit, FilesTypeOK, Empty
<1>3. requests \in [Request -> Handler]
  BY IdleType DEF Init
<1> QED
  BY <1>1, <1>2, <1>3 DEF Init, TypeOK

(* A request that goes on is still a request. *)
LEMMA BecomesType ==
  ASSUME TypeOK, NEW r \in Request, NEW q \in Handler, Becomes(r, q)
  PROVE  requests' \in [Request -> Handler]
BY DEF TypeOK, Becomes

(* A request that goes on to another place of its handler keeps the types. *)
LEMMA GoesType ==
  ASSUME TypeOK, NEW r \in Request, NEW place \in Places, Goes(r, place)
  PROVE  requests' \in [Request -> Handler]
<1>1. requests[r] \in Handler
  BY DEF TypeOK
<1>2. [requests[r] EXCEPT !.at = place] \in Handler
  BY <1>1 DEF Handler
<1> QED
  BY <1>2, BecomesType DEF Goes

(* So does a request that is answered. *)
LEMMA RepliesType ==
  ASSUME TypeOK, NEW r \in Request, NEW code \in {"ok", "error", "refused"},
         NEW served \in SUBSET Version, Replies(r, code, served)
  PROVE  requests' \in [Request -> Handler]
<1>1. [Idle EXCEPT !.reply = [code |-> code, served |-> served]] \in Handler
  BY IdleType DEF Handler
<1> QED
  BY <1>1, BecomesType DEF Replies

(* The steps on the store of first sightings keep its types. *)
LEMMA SeenTypes ==
  ASSUME SeenTypeOK, NEW r \in Request, NEW v \in Version, NEW t \in Nat,
         \/ FindRecord(v, records[v]) \/ MakeRecord(r, v, t) \/ Persist(r, v)
         \/ InsertRow(v, t) \/ FailRow(v, t)
  PROVE  SeenTypeOK'
<1> USE DEF SeenTypeOK
<1>1. ASSUME NEW time \in Nat \cup {None}, Given(v, time)
      PROVE  clock' \in [Version -> Nat \cup {None}]
  BY <1>1 DEF Given
<1>2. CASE FindRecord(v, records[v])
  BY <1>1, <1>2 DEF FindRecord
<1>3. CASE MakeRecord(r, v, t)
  BY <1>3 DEF MakeRecord
<1>4. CASE Persist(r, v)
  BY <1>1, <1>4 DEF Persist
<1>5. CASE InsertRow(v, t)
  BY <1>1, <1>5 DEF InsertRow
<1>6. CASE FailRow(v, t)
  BY <1>1, <1>6 DEF FailRow
<1> QED
  BY <1>2, <1>3, <1>4, <1>5, <1>6

(* So do the end of the process and the loading of the store. *)
LEMMA RestartSeenTypes ==
  ASSUME SeenTypeOK, LoadSeen \/ OpenSeen \/ SeenClosed
  PROVE  SeenTypeOK'
BY DEF SeenTypeOK, LoadSeen, OpenSeen, SeenClosed

(* The steps on the cached files keep their types. *)
LEMMA FilesTypes ==
  ASSUME FilesTypeOK, NEW r \in Request, NEW v \in Version,
         \/ StartWrite(r, v) \/ FilesClosed
         \/ fd[r] # None /\ (EndWrite(r) \/ FailWrite(r) \/ Rename(r))
  PROVE  FilesTypeOK'
<1> USE DEF FilesTypeOK
<1>1. CASE StartWrite(r, v)
  <2>1. PICK i \in Inode :
          /\ tmp' = [tmp EXCEPT ![v] = i]
          /\ content' = [content EXCEPT ![i] =
               [whole |-> FALSE, writer |-> r, shared |-> Contended(r, v)]]
          /\ fd' = [fd EXCEPT ![r] = [path |-> v, inode |-> i]]
          /\ UNCHANGED final
    BY <1>1 DEF StartWrite
  <2>2. Contended(r, v) \in BOOLEAN
    BY DEF Contended
  <2>3. content' \in [Inode -> [whole : BOOLEAN, writer : Request \cup {None}, shared : BOOLEAN]]
    BY <2>1, <2>2
  <2>4. fd' \in [Request -> Opening \cup {None}]
    BY <2>1 DEF Opening
  <2> QED
    BY <2>1, <2>3, <2>4
<1>2. CASE fd[r] # None /\ EndWrite(r)
  BY <1>2 DEF EndWrite, Opening
<1>3. CASE fd[r] # None /\ FailWrite(r)
  BY <1>3 DEF FailWrite
<1>4. CASE fd[r] # None /\ Rename(r)
  BY <1>4 DEF Rename, Opening
<1>5. CASE FilesClosed
  BY <1>5 DEF FilesClosed
<1> QED
  BY <1>1, <1>2, <1>3, <1>4, <1>5

(* Every step of the proxy keeps the types. *)
LEMMA TypesPreserved == TypeOK /\ Steps /\ [Next]_vars => TypeOK'
<1> SUFFICES ASSUME TypeOK, Steps, [Next]_vars PROVE TypeOK'
  OBVIOUS
<1> USE DEF Sync, Quiet, FilesOnly, env, proxyVars, seenVars, fileVars
<1>1. ASSUME UNCHANGED seenVars PROVE SeenTypeOK'
  BY <1>1 DEF TypeOK, SeenTypeOK
<1>2. ASSUME UNCHANGED fileVars PROVE FilesTypeOK'
  BY <1>2 DEF TypeOK, FilesTypeOK
<1>3. ASSUME NEW r \in Request, Quiet, requests' \in [Request -> Handler] PROVE TypeOK'
  BY <1>1, <1>2, <1>3 DEF TypeOK
<1>4. ASSUME NEW r \in Request, requests[r].at # "idle"
      PROVE  /\ requests[r] \in Handler /\ requests[r].version \in Version
             /\ requests[r].todo \subseteq Version
  BY <1>4 DEF TypeOK, Steps, Stands, Handler
<1>5. ASSUME NEW r \in Request, requests[r].at # "idle", Pass(r) \/ Refuse(r)
      PROVE  requests' \in [Request -> Handler]
  <2>1. requests[r] \in Handler /\ requests[r].version \in Version
    BY <1>4, <1>5
  <2>2. CASE Refuse(r)
    BY <2>2, GoesType, RepliesType DEF Refuse, Places
  <2>3. CASE Pass(r)
    <3>1. [requests[r] EXCEPT !.at = "next", !.passed = @ \cup {requests[r].version}] \in Handler
      BY <2>1 DEF Handler, Places
    <3> QED
      BY <2>1, <2>3, <3>1, BecomesType, GoesType, RepliesType DEF Pass, Places, Handler, Kinds
  <2> QED
    BY <1>5, <2>2, <2>3
<1>6. CASE Tick
  BY <1>1, <1>2, <1>6 DEF TypeOK, Tick
<1>7. CASE Publish
  BY <1>1, <1>2, <1>7, ProxyAssumption DEF TypeOK, Publish
<1>8. CASE Signal \/ StopListening
  BY <1>1, <1>2, <1>8 DEF TypeOK, Signal, StopListening
<1>9. CASE End
  <2>1. requests' \in [Request -> Handler]
    BY <1>9, IdleType DEF End
  <2>2. SeenTypeOK'
    BY <1>9, RestartSeenTypes DEF End, TypeOK
  <2>3. FilesTypeOK'
    BY <1>9 DEF End, TypeOK, FilesTypeOK, FilesClosed
  <2> QED
    BY <1>9, <2>1, <2>2, <2>3 DEF End, TypeOK
<1>10. CASE Start
  BY <1>2, <1>10, RestartSeenTypes DEF Start, TypeOK
<1>11. ASSUME NEW r \in Request, Arrive(r) PROVE TypeOK'
  <2>1. PICK kind \in scenario.kinds, v \in scenario.versions :
          Becomes(r, [Idle EXCEPT !.kind = kind, !.version = v,
                        !.at = IF kind \in {"list", "latest"} THEN "ask" ELSE "seen"])
    BY <1>11 DEF Arrive
  <2>2. kind \in Kinds /\ v \in Version
    BY ProxyAssumption DEF TypeOK
  <2>3. requests' \in [Request -> Handler]
    BY <2>1, <2>2, IdleType, BecomesType DEF Handler, Places
  <2> QED
    BY <1>1, <1>2, <1>11, <2>3 DEF TypeOK, Arrive
<1>12. ASSUME NEW r \in Request, UpstreamFails(r) PROVE TypeOK'
  BY <1>3, <1>12, RepliesType DEF UpstreamFails
<1>13. ASSUME NEW r \in Request, HasList(r) PROVE TypeOK'
  <2>1. PICK versions \in SUBSET scenario.versions :
          \/ Replies(r, "ok", versions)
          \/ \E v \in versions :
               Becomes(r, [requests[r] EXCEPT !.at = "seen", !.version = v,
                                              !.todo = versions \ {v}, !.asOf = now])
    BY <1>13 DEF HasList
  <2>2. versions \in SUBSET Version
    BY ProxyAssumption DEF TypeOK
  <2>3. CASE Replies(r, "ok", versions)
    BY <1>3, <1>13, <2>2, <2>3, RepliesType DEF HasList
  <2>4. ASSUME NEW v \in versions,
               Becomes(r, [requests[r] EXCEPT !.at = "seen", !.version = v,
                                              !.todo = versions \ {v}, !.asOf = now])
        PROVE  TypeOK'
    <3>1. requests[r] \in Handler /\ now \in Nat
      BY DEF TypeOK
    <3>2. [requests[r] EXCEPT !.at = "seen", !.version = v,
                              !.todo = versions \ {v}, !.asOf = now] \in Handler
      BY <2>2, <3>1 DEF Handler, Places
    <3> QED
      BY <1>3, <1>13, <2>4, <3>2, BecomesType DEF HasList
  <2> QED
    BY <2>1, <2>3, <2>4
<1>14. ASSUME NEW r \in Request, HasLatest(r) PROVE TypeOK'
  BY <1>3, <1>4, <1>14, RepliesType, GoesType DEF HasLatest, At, Places
<1>15. ASSUME NEW r \in Request, FirstSeen(r) PROVE TypeOK'
  <2> DEFINE v == requests[r].version
  <2>1. requests[r] \in Handler /\ v \in Version /\ now \in Nat /\ records[v] \in Nat \cup {None}
    BY <1>4, <1>15 DEF FirstSeen, At, TypeOK, SeenTypeOK
  <2>2. ASSUME NEW time \in Nat \cup {None}, NEW place \in {"judge", "persist"},
               Becomes(r, [requests[r] EXCEPT !.at = place, !.seen = time])
        PROVE  requests' \in [Request -> Handler]
    BY <2>1, <2>2, BecomesType DEF Handler, Places
  <2>3. requests' \in [Request -> Handler]
    BY <1>15, <2>1, <2>2 DEF FirstSeen
  <2>4. SeenTypeOK'
    <3>1. \/ FindRecord(v, records[v]) \/ MakeRecord(r, v, now)
          \/ FailRow(v, now) \/ InsertRow(v, now)
      BY <1>15 DEF FirstSeen
    <3> QED
      BY <2>1, <3>1, SeenTypes DEF TypeOK
  <2> QED
    BY <1>2, <1>15, <2>3, <2>4 DEF FirstSeen, TypeOK
<1>16. ASSUME NEW r \in Request, PersistSeen(r) PROVE TypeOK'
  <2>1. SeenTypeOK'
    BY <1>4, <1>16, SeenTypes DEF PersistSeen, At, TypeOK
  <2> QED
    BY <1>2, <1>16, <2>1, GoesType DEF PersistSeen, TypeOK, Places
<1>17. ASSUME NEW r \in Request, Judge(r) PROVE TypeOK'
  BY <1>3, <1>5, <1>17, GoesType DEF Judge, At, Places
<1>18. ASSUME NEW r \in Request, NextVersion(r) PROVE TypeOK'
  <2>1. CASE requests[r].todo = {}
    BY <1>3, <1>18, <2>1, RepliesType DEF NextVersion, TypeOK, Handler
  <2>2. CASE requests[r].todo # {}
    <3>1. PICK v \in requests[r].todo :
            Becomes(r, [requests[r] EXCEPT !.at = "seen", !.version = v, !.todo = @ \ {v}])
      BY <1>18, <2>2 DEF NextVersion
    <3>2. requests[r] \in Handler /\ requests[r].todo \in SUBSET Version
      BY <1>4, <1>18 DEF NextVersion, At
    <3>3. [requests[r] EXCEPT !.at = "seen", !.version = v, !.todo = @ \ {v}] \in Handler
      BY <3>1, <3>2 DEF Handler, Places
    <3> QED
      BY <1>3, <1>18, <3>1, <3>3, BecomesType DEF NextVersion
  <2> QED
    BY <2>1, <2>2
<1>19. ASSUME NEW r \in Request, AskCache(r) PROVE TypeOK'
  BY <1>3, <1>5, <1>19, GoesType DEF AskCache, At, Places
<1>20. ASSUME NEW r \in Request, Query(r) PROVE TypeOK'
  <2>1. PICK fixed \in {advisories, {}} :
          Becomes(r, [requests[r] EXCEPT !.at = "store", !.fixed = fixed])
    BY <1>20 DEF Query
  <2>2. requests[r] \in Handler /\ fixed \in SUBSET Version
    BY DEF TypeOK
  <2>3. [requests[r] EXCEPT !.at = "store", !.fixed = fixed] \in Handler
    BY <2>2 DEF Handler, Places
  <2> QED
    BY <1>3, <1>20, <2>1, <2>3, BecomesType DEF Query
<1>21. ASSUME NEW r \in Request, StoreAnswer(r) PROVE TypeOK'
  <2>1. requests' \in [Request -> Handler]
    BY <1>5, <1>21 DEF StoreAnswer, At
  <2>2. vulnCache' \in [fixed : SUBSET Version, fetchedAt : Nat]
    BY <1>21 DEF StoreAnswer, TypeOK, Handler
  <2> QED
    BY <1>1, <1>2, <1>21, <2>1, <2>2 DEF StoreAnswer, TypeOK
<1>22. ASSUME NEW r \in Request, ReadCache(r) PROVE TypeOK'
  BY <1>3, <1>4, <1>22, RepliesType, GoesType DEF ReadCache, At, Places
<1>23. ASSUME NEW r \in Request, Fetched(r) PROVE TypeOK'
  BY <1>3, <1>4, <1>23, RepliesType, GoesType DEF Fetched, At, Places
<1>24. ASSUME NEW r \in Request, OpenTmp(r) \/ WriteTmp(r) \/ RenameTmp(r) PROVE TypeOK'
  <2>1. requests' \in [Request -> Handler]
    BY <1>24, GoesType DEF OpenTmp, WriteTmp, RenameTmp, Places
  <2>2. FilesTypeOK'
    <3>1. requests[r].version \in Version /\ (fd[r] # None \/ OpenTmp(r))
      BY <1>4, <1>24 DEF OpenTmp, WriteTmp, RenameTmp, At, Steps, Stands
    <3> QED
      BY <1>24, <3>1, FilesTypes DEF OpenTmp, WriteTmp, RenameTmp, TypeOK
  <2>3. SeenTypeOK'
    BY <1>1, <1>24 DEF OpenTmp, WriteTmp, RenameTmp
  <2> QED
    BY <1>24, <2>1, <2>2, <2>3 DEF OpenTmp, WriteTmp, RenameTmp, TypeOK
<1>25. ASSUME NEW r \in Request, Reply(r) PROVE TypeOK'
  BY <1>3, <1>4, <1>25, RepliesType DEF Reply, At
<1>26. CASE UNCHANGED vars
  BY <1>1, <1>2, <1>26 DEF vars, TypeOK
<1> QED
  BY <1>6, <1>7, <1>8, <1>9, <1>10, <1>11, <1>12, <1>13, <1>14, <1>15, <1>16, <1>17, <1>18,
     <1>19, <1>20, <1>21, <1>22, <1>23, <1>24, <1>25, <1>26
     DEF Next, Process, Handle

-----------------------------------------------------------------------------
(* Where the requests stand.                                               *)

(* At the start nobody is anywhere in a handler. *)
LEMMA InitSteps == Init => Steps
BY NoneAssumption DEF Init, Steps, Stands, Judged, SeenInit, FilesInit, Idle

(* A request that a step leaves alone stands where it stood. *)
LEMMA OthersStand ==
  ASSUME TypeOK, NEW s \in Request, Stands(s),
         requests'[s] = requests[s], UNCHANGED scenario,
         status # "down" => status' # "down",
         now' \in Nat, now <= now',
         mu' = s <=> mu = s,
         mu = s => UNCHANGED records,
         fd'[s] = fd[s]
  PROVE  Stands(s)'
BY DEF Stands, Judged, TypeOK, Handler

(* The kinds are those that Pass tells apart. *)
LEMMA HandlerKind ==
  ASSUME TypeOK, NEW r \in Request
  PROVE  requests[r].kind \in {"list", "latest", "info", "file"}
BY DEF TypeOK, Handler, Kinds

(* A request is where its handler lets it be, with what it has read on the way. *)
LEMMA StepsPreserved == TypeOK /\ Steps /\ [Next]_vars => Steps'
<1> SUFFICES ASSUME TypeOK, Steps, [Next]_vars, NEW s \in Request PROVE Stands(s)'
  BY DEF Steps
<1> USE DEF Judged, Sync, Quiet, FilesOnly, env, proxyVars, seenVars, fileVars
<1>1. Stands(s) /\ now \in Nat /\ requests[s] \in Handler
  BY DEF Steps, TypeOK
<1>2. ASSUME NEW r \in Request, Sync, NEW q, Becomes(r, q), UNCHANGED <<seenVars, fileVars>>, r # s
      PROVE  Stands(s)'
  BY <1>1, <1>2, OthersStand DEF Becomes, TypeOK
<1>3. ASSUME NEW code \in {"ok", "error", "refused"}, NEW served, At(s, requests[s].at),
             Replies(s, code, served),
             requests[s].at # "persist", Sync, UNCHANGED <<seenVars, fileVars>>, fd[s] = None
      PROVE  Stands(s)'
  BY <1>1, <1>3, NoneAssumption DEF Replies, Becomes, Stands, TypeOK, Handler, Idle, At
<1>4. ASSUME NEW place \in {"judge", "seen", "vuln", "query", "store", "next", "fetch", "cache", "write"},
             NEW at \in Places \ {"idle", "persist", "writing", "rename"}, At(s, at),
             Goes(s, place), Sync, UNCHANGED <<seenVars, fileVars>>,
             place \in {"judge", "vuln", "query", "store"} =>
               at \in {"judge", "vuln", "query", "store"},
             place \in {"fetch", "cache", "write"} => requests[s].kind \in {"info", "file"}
      PROVE  Stands(s)'
  BY <1>1, <1>4, NoneAssumption DEF Goes, Becomes, Stands, TypeOK, Handler, At
<1>5. ASSUME NEW at \in {"judge", "vuln", "query", "store"}, At(s, at), Pass(s) \/ Refuse(s),
             Sync, UNCHANGED <<seenVars, fileVars>>
      PROVE  Stands(s)'
  <2>1. at # "idle" /\ requests[s].at = at
    BY <1>5 DEF At
  <2>2. CASE Refuse(s)
    BY <1>1, <1>3, <1>4, <1>5, <2>1, <2>2 DEF Refuse, Stands, Places
  <2>3. CASE Pass(s)
    <3>1. ASSUME requests[s].kind = "list",
                 Becomes(s, [requests[s] EXCEPT !.at = "next", !.passed = @ \cup {requests[s].version}])
          PROVE  Stands(s)'
      BY <1>1, <1>5, <2>1, <3>1, NoneAssumption DEF Becomes, Stands, TypeOK, Handler, At
    <3> QED
      BY <1>1, <1>3, <1>4, <1>5, <2>1, <2>3, <3>1 DEF Pass, Stands, Places, Handler, Kinds
  <2> QED
    BY <1>5, <2>2, <2>3
<1>6. CASE Tick
  BY <1>1, <1>6, OthersStand DEF Tick, TypeOK
<1>7. CASE Publish
  BY <1>1, <1>7, OthersStand DEF Publish, TypeOK
<1>8. CASE Signal \/ StopListening
  BY <1>1, <1>8, OthersStand DEF Signal, StopListening, TypeOK
<1>9. CASE End
  BY <1>1, <1>9, NoneAssumption DEF End, Idle, Stands, FilesClosed, SeenClosed, TypeOK
<1>10. CASE Start
  <2>1. mu = None
    BY <1>10, NoneAssumption DEF Start, Steps, Stands, TypeOK, SeenTypeOK
  <2>2. requests[s].at = "idle"
    BY <1>1, <1>10 DEF Start, Stands
  <2> QED
    BY <1>1, <1>10, <2>1, <2>2, NoneAssumption DEF Start, LoadSeen, OpenSeen, Stands, TypeOK
<1>11. ASSUME NEW r \in Request, Arrive(r) PROVE Stands(s)'
  <2>1. PICK kind \in scenario.kinds, v \in scenario.versions :
          Becomes(r, [Idle EXCEPT !.kind = kind, !.version = v,
                        !.at = IF kind \in {"list", "latest"} THEN "ask" ELSE "seen"])
    BY <1>11 DEF Arrive
  <2>2. v \in Version
    BY ProxyAssumption DEF TypeOK
  <2>3. CASE r # s
    BY <1>1, <1>11, <2>1, <2>3, OthersStand DEF Becomes, Arrive, TypeOK
  <2>4. CASE r = s
    <3>1. /\ requests'[s].at \in {"ask", "seen"} /\ requests'[s].version = v
          /\ requests'[s].todo = {} /\ requests'[s].asOf = 0
      BY <2>1, <2>4 DEF Becomes, TypeOK, Idle
    <3>2. fd[s] = None /\ mu # s /\ requests[s].at = "idle"
      BY <1>1, <1>11, <2>4 DEF Arrive, Stands
    <3> QED
      BY <1>1, <1>11, <2>2, <2>4, <3>1, <3>2, NoneAssumption DEF Arrive, Stands
  <2> QED
    BY <2>3, <2>4
<1>12. ASSUME NEW r \in Request, UpstreamFails(r) PROVE Stands(s)'
  BY <1>1, <1>2, <1>3, <1>12 DEF UpstreamFails, Replies, At, Stands
<1>13. ASSUME NEW r \in Request, HasList(r) PROVE Stands(s)'
  <2>1. PICK versions \in SUBSET scenario.versions :
          \/ Replies(r, "ok", versions)
          \/ \E v \in versions :
               Becomes(r, [requests[r] EXCEPT !.at = "seen", !.version = v,
                                              !.todo = versions \ {v}, !.asOf = now])
    BY <1>13 DEF HasList
  <2>2. CASE Replies(r, "ok", versions)
    BY <1>1, <1>2, <1>3, <1>13, <2>2 DEF HasList, Replies, At, Stands
  <2>3. ASSUME NEW v \in versions,
               Becomes(r, [requests[r] EXCEPT !.at = "seen", !.version = v,
                                              !.todo = versions \ {v}, !.asOf = now])
        PROVE  Stands(s)'
    <3>1. v \in Version
      BY ProxyAssumption DEF TypeOK
    <3>2. CASE r = s
      <4>1. /\ requests'[s].at = "seen" /\ requests'[s].version = v
            /\ requests'[s].todo = versions \ {v} /\ requests'[s].asOf = now
        BY <1>1, <2>3, <3>2 DEF Becomes, TypeOK, Handler
      <4>2. fd[s] = None /\ mu # s /\ status # "down" /\ Quiet
        BY <1>1, <1>13, <3>2 DEF HasList, At, Stands
      <4> QED
        BY <1>1, <3>1, <4>1, <4>2, NoneAssumption DEF Stands
    <3> QED
      BY <1>2, <1>13, <2>3, <3>2 DEF HasList
  <2> QED
    BY <2>1, <2>2, <2>3
<1>14. ASSUME NEW r \in Request, HasLatest(r) PROVE Stands(s)'
  <2>1. CASE r = s
    BY <1>1, <1>3, <1>4, <1>14, <2>1 DEF HasLatest, At, Stands, Places
  <2> QED
    BY <1>2, <1>14, <2>1 DEF HasLatest, Replies, Goes
<1>15. ASSUME NEW r \in Request, FirstSeen(r) PROVE Stands(s)'
  <2> DEFINE v == requests[r].version
  <2>1. v \in Version /\ records[v] \in Nat \cup {None} /\ Stands(r)
    BY <1>15, NoneAssumption DEF FirstSeen, At, TypeOK, SeenTypeOK, Handler, Steps, Stands
  <2>2. ASSUME NEW time \in Nat, Becomes(r, [requests[r] EXCEPT !.at = "judge", !.seen = time]),
               FindRecord(v, records[v])
                 \/ (scenario.mode = "hosted" /\ (FailRow(v, now) \/ InsertRow(v, now)))
        PROVE  Stands(s)'
    <3>1. mu' = mu
      BY <2>2 DEF FindRecord, FailRow, InsertRow
    <3>2. mu = s => UNCHANGED records
      BY <1>1, <2>2 DEF FindRecord, FailRow, InsertRow, Stands
    <3>3. CASE r # s
      BY <1>1, <1>15, <2>2, <3>1, <3>2, <3>3, OthersStand DEF FirstSeen, Becomes, TypeOK
    <3>4. CASE r = s
      BY <1>1, <1>15, <2>2, <3>1, <3>4, NoneAssumption
         DEF FirstSeen, Becomes, Stands, TypeOK, Handler, At
    <3> QED
      BY <3>3, <3>4
  <2>3. ASSUME scenario.mode = "local", MakeRecord(r, v, now),
               Becomes(r, [requests[r] EXCEPT !.at = "persist", !.seen = now])
        PROVE  Stands(s)'
    <3>1. CASE r # s
      BY <1>1, <1>15, <2>3, <3>1, OthersStand, NoneAssumption
         DEF FirstSeen, Becomes, TypeOK, MakeRecord
    <3>2. CASE r = s
      <4>1. records'[v] = now
        BY <2>1, <2>3 DEF MakeRecord, TypeOK, SeenTypeOK
      <4> QED
        BY <1>1, <1>15, <2>3, <3>2, <4>1, NoneAssumption
           DEF FirstSeen, Becomes, Stands, TypeOK, Handler, At, MakeRecord
    <3> QED
      BY <3>1, <3>2
  <2> QED
    BY <1>1, <1>15, <2>1, <2>2, <2>3 DEF FirstSeen, FindRecord
<1>16. ASSUME NEW r \in Request, PersistSeen(r) PROVE Stands(s)'
  <2>1. CASE r # s
    BY <1>1, <1>16, <2>1, OthersStand, NoneAssumption
       DEF PersistSeen, Persist, Goes, Becomes, TypeOK
  <2>2. CASE r = s
    BY <1>1, <1>16, <2>2, NoneAssumption
       DEF PersistSeen, Persist, Goes, Becomes, Stands, TypeOK, Handler, At
  <2> QED
    BY <2>1, <2>2
<1>17. ASSUME NEW r \in Request, Judge(r) \/ AskCache(r) \/ StoreAnswer(r) PROVE Stands(s)'
  <2>1. CASE r = s
    BY <1>4, <1>5, <1>17, <2>1 DEF Judge, AskCache, StoreAnswer, Places, At
  <2>2. \E q : Becomes(r, q)
    BY <1>17, <1>1, HandlerKind DEF Judge, AskCache, StoreAnswer, Goes, Pass, Refuse, Replies
  <2> QED
    BY <1>2, <1>17, <2>1, <2>2 DEF Judge, AskCache, StoreAnswer
<1>18. ASSUME NEW r \in Request, NextVersion(r) PROVE Stands(s)'
  <2>1. CASE requests[r].todo = {}
    BY <1>1, <1>2, <1>3, <1>18, <2>1 DEF NextVersion, Replies, At, Stands
  <2>2. CASE requests[r].todo # {}
    <3>1. PICK v \in requests[r].todo :
            Becomes(r, [requests[r] EXCEPT !.at = "seen", !.version = v, !.todo = @ \ {v}])
      BY <1>18, <2>2 DEF NextVersion
    <3>2. v \in Version
      BY DEF TypeOK, Handler
    <3>3. CASE r = s
      BY <1>1, <1>18, <3>1, <3>2, <3>3, NoneAssumption
         DEF NextVersion, Becomes, Stands, TypeOK, Handler, At
    <3> QED
      BY <1>2, <1>18, <3>1, <3>3 DEF NextVersion
  <2> QED
    BY <2>1, <2>2
<1>19. ASSUME NEW r \in Request, Query(r) PROVE Stands(s)'
  <2>1. PICK fixed \in {advisories, {}} :
          Becomes(r, [requests[r] EXCEPT !.at = "store", !.fixed = fixed])
    BY <1>19 DEF Query
  <2>2. CASE r = s
    BY <1>1, <1>19, <2>1, <2>2, NoneAssumption
       DEF Query, Becomes, Stands, TypeOK, Handler, At
  <2> QED
    BY <1>2, <1>19, <2>1, <2>2 DEF Query
<1>20. ASSUME NEW r \in Request, ReadCache(r) \/ Fetched(r) \/ Reply(r) PROVE Stands(s)'
  <2>1. CASE r = s
    BY <1>1, <1>3, <1>4, <1>20, <2>1 DEF ReadCache, Fetched, Reply, At, Stands, Places
  <2> QED
    BY <1>2, <1>20, <2>1 DEF ReadCache, Fetched, Reply, Replies, Goes
<1>21. ASSUME NEW r \in Request, OpenTmp(r) \/ WriteTmp(r) \/ RenameTmp(r) PROVE Stands(s)'
  <2>1. r # s => fd'[s] = fd[s]
    BY <1>21 DEF OpenTmp, WriteTmp, RenameTmp, StartWrite, EndWrite, FailWrite, Rename,
                 TypeOK, FilesTypeOK
  <2>2. CASE r # s
    BY <1>1, <1>21, <2>1, <2>2, OthersStand
       DEF OpenTmp, WriteTmp, RenameTmp, Goes, Becomes, TypeOK
  <2>3. ASSUME r = s, NEW place \in {"writing", "rename", "reply"}, Goes(r, place),
               place \in {"writing", "rename"} <=> fd'[r] # None,
               fd'[r] # None => fd'[r].path = requests[r].version
        PROVE  Stands(s)'
    BY <1>1, <1>21, <2>3, NoneAssumption
       DEF OpenTmp, WriteTmp, RenameTmp, Goes, Becomes, Stands, TypeOK, Handler, At
  <2>4. CASE r = s /\ OpenTmp(r)
    <3>1. PICK i \in Inode : fd' = [fd EXCEPT ![r] = [path |-> requests[r].version, inode |-> i]]
      BY <2>4 DEF OpenTmp, StartWrite
    <3>2. requests[r].version \in Version
      BY <1>1, <2>4 DEF OpenTmp, At, Stands, Handler
    <3>3. fd'[r] = [path |-> requests[r].version, inode |-> i] /\ fd'[r] \in Opening
      BY <3>1, <3>2 DEF TypeOK, FilesTypeOK, Opening
    <3> QED
      BY <2>3, <2>4, <3>3, FileAssumption DEF OpenTmp
  <2>5. CASE r = s /\ WriteTmp(r)
    BY <1>1, <2>3, <2>5 DEF WriteTmp, EndWrite, FailWrite, Stands, At, TypeOK, FilesTypeOK
  <2>6. CASE r = s /\ RenameTmp(r)
    BY <1>1, <2>3, <2>6 DEF RenameTmp, Rename, Stands, At, TypeOK, FilesTypeOK
  <2> QED
    BY <1>21, <2>2, <2>4, <2>5, <2>6
<1>22. CASE UNCHANGED vars
  BY <1>1, <1>22, OthersStand DEF vars, TypeOK
<1> QED
  BY <1>6, <1>7, <1>8, <1>9, <1>10, <1>11, <1>12, <1>13, <1>14, <1>15, <1>16, <1>17, <1>18,
     <1>19, <1>20, <1>21, <1>22
     DEF Next, Process, Handle

-----------------------------------------------------------------------------
(* The clocks.                                                             *)

(* The steps of the handlers that leave the store alone. *)
Elsewhere(r) ==
  \/ Arrive(r) \/ UpstreamFails(r) \/ HasList(r) \/ HasLatest(r) \/ Judge(r) \/ NextVersion(r)
  \/ AskCache(r) \/ Query(r) \/ StoreAnswer(r)
  \/ ReadCache(r) \/ Fetched(r) \/ OpenTmp(r) \/ WriteTmp(r) \/ RenameTmp(r) \/ Reply(r)

(* A request outside the store leaves the store, the other requests and the time alone. *)
LEMMA ElsewhereFrame ==
  ASSUME TypeOK, NEW r \in Request, Elsewhere(r)
  PROVE  /\ UNCHANGED <<scenario, now, advisories, status, seenVars>>
         /\ requests[r].at # "persist"
         /\ \A s \in Request \ {r} : requests'[s] = requests[s]
<1>1. UNCHANGED <<scenario, now, advisories, status, seenVars>>
  BY DEF Elsewhere, Arrive, UpstreamFails, HasList, HasLatest, Judge, NextVersion, AskCache,
         Query, StoreAnswer, ReadCache, Fetched, OpenTmp, WriteTmp, RenameTmp, Reply,
         Sync, Quiet, FilesOnly, env
<1>2. requests[r].at # "persist"
  BY DEF Elsewhere, Arrive, UpstreamFails, HasList, HasLatest, Judge, NextVersion, AskCache,
         Query, StoreAnswer, ReadCache, Fetched, OpenTmp, WriteTmp, RenameTmp, Reply, At
<1>3. \E q : Becomes(r, q)
  <2>1. Pass(r) => \E q : Becomes(r, q)
    BY HandlerKind DEF Pass, Goes, Replies
  <2>2. Refuse(r) => \E q : Becomes(r, q)
    BY DEF Refuse, Goes, Replies
  <2> QED
    BY <2>1, <2>2
       DEF Elsewhere, Arrive, UpstreamFails, HasList, HasLatest, Judge, NextVersion, AskCache,
           Query, StoreAnswer, ReadCache, Fetched, OpenTmp, WriteTmp, RenameTmp, Reply,
           Goes, Replies
<1> QED
  BY <1>1, <1>2, <1>3 DEF Becomes, TypeOK

(* No clock runs before the first request. *)
LEMMA InitClocks == Init => Clocks
BY DEF Init, Clocks, Clocked, SeenInit

(* A step that leaves the store alone keeps the bounds on the clock of a version. *)
LEMMA ClocksKept ==
  ASSUME TypeOK, NEW v \in Version, Clocked(v), UNCHANGED <<records, saved, clock, mu>>,
         now' \in Nat, now <= now', status = "down" => status' = "down",
         mu # None => requests'[mu].version = requests[mu].version
  PROVE  Clocked(v)'
BY NoneAssumption DEF Clocked, TypeOK, SeenTypeOK

(* Every step keeps the clocks between the first sighting and now. *)
LEMMA ClocksPreserved == TypeOK /\ Steps /\ Clocks /\ [Next]_vars => Clocks'
<1> SUFFICES ASSUME TypeOK, Steps, Clocks, [Next]_vars PROVE Clocks'
  OBVIOUS
<1> USE DEF Sync, env, seenVars
<1>1. /\ now \in Nat /\ \A v \in Version : Clocked(v)
      /\ \A v \in Version : /\ records[v] \in Nat \cup {None}
                            /\ saved[v] \in Nat \cup {None} /\ clock[v] \in Nat \cup {None}
  BY DEF Clocks, TypeOK, SeenTypeOK
<1>2. ASSUME NEW r \in Request, Elsewhere(r) PROVE Clocks'
  <2>1. mu # None => requests'[mu] = requests[mu]
    BY <1>2, ElsewhereFrame DEF Steps, Stands, TypeOK, SeenTypeOK
  <2> QED
    BY <1>1, <1>2, <2>1, ElsewhereFrame, ClocksKept DEF Clocks
<1>3. CASE Tick \/ Publish \/ Signal \/ StopListening \/ UNCHANGED vars
  BY <1>1, <1>3, ClocksKept
     DEF Clocks, Tick, Publish, Signal, StopListening, vars, proxyVars
<1>4. CASE End
  BY <1>1, <1>4 DEF End, SeenClosed, Clocks, Clocked
<1>5. CASE Start
  <2>1. /\ UNCHANGED <<saved, clock, unsaved, now>> /\ status = "down" /\ status' = "up"
        /\ \A v \in Version : records'[v] \in {saved[v], None}
    BY <1>5 DEF Start, LoadSeen, OpenSeen, TypeOK, SeenTypeOK
  <2> QED
    BY <1>1, <2>1 DEF Clocks, Clocked
<1>6. ASSUME NEW r \in Request, FirstSeen(r) PROVE Clocks'
  <2> DEFINE w == requests[r].version
  <2>1. w \in Version /\ status # "down" /\ UNCHANGED <<now, status>>
    BY <1>6 DEF FirstSeen, At, Steps, Stands, TypeOK, Handler
  <2>2. CASE FindRecord(w, records[w])
    BY <1>1, <2>1, <2>2 DEF FindRecord, Given, Clocks, Clocked, TypeOK, SeenTypeOK
  <2>3. CASE MakeRecord(r, w, now) /\ requests'[r].version = w
    BY <1>1, <2>1, <2>3, NoneAssumption DEF MakeRecord, Clocks, Clocked, TypeOK, SeenTypeOK
  <2>4. CASE scenario.mode = "hosted" /\ (InsertRow(w, now) \/ FailRow(w, now))
    <3>1. mu = None
      BY <2>4 DEF Steps, Stands, TypeOK, SeenTypeOK
    <3>2. CASE InsertRow(w, now)
      BY <1>1, <2>1, <3>1, <3>2, NoneAssumption
         DEF InsertRow, Given, Clocks, Clocked, TypeOK, SeenTypeOK
    <3>3. CASE FailRow(w, now)
      BY <1>1, <2>1, <3>1, <3>3, NoneAssumption
         DEF FailRow, Given, Clocks, Clocked, TypeOK, SeenTypeOK
    <3> QED
      BY <2>4, <3>2, <3>3
  <2> QED
    BY <1>6, <2>2, <2>3, <2>4 DEF FirstSeen, Becomes, TypeOK, Handler
<1>7. ASSUME NEW r \in Request, PersistSeen(r) PROVE Clocks'
  <2> DEFINE w == requests[r].version
  <2>1. /\ w \in Version /\ status # "down" /\ UNCHANGED <<now, status>>
        /\ mu = r /\ r # None /\ records[w] # None /\ Persist(r, w)
    BY <1>7, NoneAssumption DEF PersistSeen, At, Steps, Stands, TypeOK, Handler, Persist
  <2> QED
    BY <1>1, <2>1, NoneAssumption DEF Persist, Given, Clocks, Clocked, TypeOK, SeenTypeOK
<1> QED
  BY <1>2, <1>3, <1>4, <1>5, <1>6, <1>7 DEF Next, Process, Handle, Elsewhere

(* A clock that has started never changes, whatever the process does. *)
LEMMA ClockIsKept ==
  ASSUME TypeOK, Steps, [Next]_vars, NEW v \in Version, clock[v] # None
  PROVE  clock'[v] = clock[v]
<1> USE DEF seenVars
<1>1. ASSUME NEW r \in Request, Elsewhere(r) PROVE clock'[v] = clock[v]
  BY <1>1, ElsewhereFrame
<1>2. ASSUME NEW w, NEW t, Given(w, t) PROVE clock'[v] = clock[v]
  BY <1>2 DEF Given, TypeOK, SeenTypeOK
<1>3. ASSUME NEW r \in Request, FirstSeen(r) PROVE clock'[v] = clock[v]
  BY <1>2, <1>3 DEF FirstSeen, FindRecord, MakeRecord, FailRow, InsertRow
<1>4. ASSUME NEW r \in Request, PersistSeen(r) PROVE clock'[v] = clock[v]
  BY <1>2, <1>4 DEF PersistSeen, Persist
<1>5. CASE Tick \/ Publish \/ Process \/ UNCHANGED vars
  BY <1>5 DEF Tick, Publish, Process, Signal, StopListening, End, SeenClosed, Start, LoadSeen,
              OpenSeen, vars
<1> QED
  BY <1>1, <1>3, <1>4, <1>5 DEF Next, Handle, Elsewhere

(* A request is judged by the time that it was given. *)
LEMMA ElsewhereJudged ==
  ASSUME TypeOK, Steps, NEW r \in Request, Elsewhere(r), requests'[r].at \in Judged
  PROVE  /\ requests[r].at \in Judged
         /\ requests'[r].version = requests[r].version /\ requests'[r].seen = requests[r].seen
<1> USE DEF Judged
<1>1. requests[r] \in Handler
  BY DEF TypeOK
<1>2. ASSUME NEW code, NEW served, Replies(r, code, served) PROVE FALSE
  BY <1>2 DEF Replies, Becomes, Idle, TypeOK
<1>3. ASSUME NEW place, Goes(r, place) 
      PROVE  /\ place \in Judged /\ requests'[r].version = requests[r].version
             /\ requests'[r].seen = requests[r].seen
  BY <1>1, <1>3 DEF Goes, Becomes, TypeOK, Handler
<1>4. ~Refuse(r)
  BY <1>2, <1>3 DEF Refuse
<1>5. ~Pass(r)
  <2>1. ASSUME NEW passed, Becomes(r, [requests[r] EXCEPT !.at = "next", !.passed = passed])
        PROVE  FALSE
    <3>1. requests'[r].at = "next"
      BY <1>1, <2>1 DEF Becomes, TypeOK, Handler
    <3> QED
      BY <3>1
  <2>2. ~Goes(r, "fetch") /\ ~Goes(r, "cache")
    BY <1>3
  <2> QED
    BY <1>2, <2>1, <2>2, HandlerKind DEF Pass
<1>6. CASE Arrive(r)
  <2>1. PICK kind \in scenario.kinds, v \in scenario.versions :
          Becomes(r, [Idle EXCEPT !.kind = kind, !.version = v,
                        !.at = IF kind \in {"list", "latest"} THEN "ask" ELSE "seen"])
    BY <1>6 DEF Arrive
  <2>2. requests'[r].at \in {"ask", "seen"}
    BY <2>1 DEF Becomes, Idle, TypeOK
  <2> QED
    BY <2>2
<1>7. CASE HasList(r)
  <2>1. PICK v, todo :
          Becomes(r, [requests[r] EXCEPT !.at = "seen", !.version = v, !.todo = todo, !.asOf = now])
    BY <1>2, <1>7 DEF HasList
  <2> QED
    BY <1>1, <2>1 DEF Becomes, TypeOK, Handler
<1>8. CASE NextVersion(r)
  <2>1. PICK v, todo : Becomes(r, [requests[r] EXCEPT !.at = "seen", !.version = v, !.todo = todo])
    BY <1>2, <1>8 DEF NextVersion
  <2> QED
    BY <1>1, <2>1 DEF Becomes, TypeOK, Handler
<1>9. CASE Query(r)
  <2>1. PICK fixed : Becomes(r, [requests[r] EXCEPT !.at = "store", !.fixed = fixed])
    BY <1>9 DEF Query
  <2> QED
    BY <1>1, <1>9, <2>1 DEF Query, At, Becomes, TypeOK, Handler
<1>10. CASE Judge(r) \/ AskCache(r) \/ StoreAnswer(r)
  BY <1>3, <1>4, <1>5, <1>10 DEF Judge, AskCache, StoreAnswer, At
<1>11. CASE HasLatest(r) \/ ReadCache(r) \/ Fetched(r) \/ UpstreamFails(r) \/ Reply(r)
  BY <1>2, <1>3, <1>11 DEF HasLatest, ReadCache, Fetched, UpstreamFails, Reply
<1>12. CASE OpenTmp(r) \/ WriteTmp(r) \/ RenameTmp(r)
  BY <1>3, <1>12 DEF OpenTmp, WriteTmp, RenameTmp
<1> QED
  BY <1>6, <1>7, <1>8, <1>9, <1>10, <1>11, <1>12 DEF Elsewhere

(* What FirstSeen and persist give a request. *)
LEMMA FirstSeenGives ==
  ASSUME TypeOK, Steps, Clocks, NEW r \in Request, FirstSeen(r), requests'[r].at \in Judged
  PROVE  LET v == requests[r].version
             time == requests'[r].seen
         IN /\ v \in Version /\ requests'[r].version = v
            /\ \/ FindRecord(v, time) /\ time = records[v] /\ clock[v] # None /\ clock[v] <= time
               \/ InsertRow(v, now) /\ time = now
               \/ FailRow(v, now) /\ time = now
<1> DEFINE v == requests[r].version
<1>1. requests[r] \in Handler /\ v \in Version /\ status # "down"
  BY DEF FirstSeen, At, Steps, Stands, TypeOK, Handler
<1>2. ASSUME FindRecord(v, records[v]),
             Becomes(r, [requests[r] EXCEPT !.at = "judge", !.seen = records[v]])
      PROVE  /\ requests'[r].version = v /\ requests'[r].seen = records[v]
             /\ clock[v] # None /\ clock[v] <= records[v]
  BY <1>1, <1>2 DEF Becomes, Handler, TypeOK, FindRecord, Clocks, Clocked
<1>3. ASSUME Becomes(r, [requests[r] EXCEPT !.at = "judge", !.seen = now])
      PROVE  requests'[r].version = v /\ requests'[r].seen = now
  BY <1>1, <1>3 DEF Becomes, Handler, TypeOK
<1>4. ASSUME Becomes(r, [requests[r] EXCEPT !.at = "persist", !.seen = now])
      PROVE  FALSE
  <2>1. requests'[r].at = "persist"
    BY <1>1, <1>4 DEF Becomes, Handler, TypeOK
  <2> QED
    BY <2>1 DEF Judged
<1> QED
  BY <1>1, <1>2, <1>3, <1>4 DEF FirstSeen

(* The step that saves a first sighting hands the request what the store holds, and starts the
   clock at no later time. *)
LEMMA PersistGives ==
  ASSUME TypeOK, Steps, Clocks, NEW r \in Request, PersistSeen(r)
  PROVE  LET v == requests[r].version
         IN /\ v \in Version /\ requests'[r].version = v
            /\ requests'[r].seen = records[v] /\ records[v] \in Nat
            /\ clock'[v] \in Nat /\ clock'[v] <= records[v]
            /\ clock[v] = None => clock'[v] = records[v]
<1> DEFINE v == requests[r].version
<1>1. /\ requests[r] \in Handler /\ v \in Version /\ status # "down"
      /\ records[v] \in Nat /\ records[v] = requests[r].seen /\ clock[v] \in Nat \cup {None}
  BY DEF PersistSeen, At, Steps, Stands, TypeOK, Handler, SeenTypeOK
<1>2. requests'[r].version = v /\ requests'[r].seen = requests[r].seen
  BY <1>1 DEF PersistSeen, Goes, Becomes, TypeOK, Handler
<1>3. clock'[v] = IF clock[v] = None THEN records[v] ELSE clock[v]
  BY <1>1 DEF PersistSeen, Persist, Given, TypeOK, SeenTypeOK
<1>4. clock[v] # None => clock[v] <= records[v]
  BY <1>1, NoneAssumption DEF Clocks, Clocked
<1> QED
  BY <1>1, <1>2, <1>3, <1>4

(* A request moves by its own steps alone, unless the process ends. *)
LEMMA OnlyOwnStepsMove ==
  ASSUME TypeOK, [Next]_vars, NEW s \in Request
  PROVE  \/ requests'[s] = requests[s]
         \/ requests'[s] = Idle
         \/ Elsewhere(s) \/ FirstSeen(s) \/ PersistSeen(s)
<1>1. ASSUME NEW r \in Request, Elsewhere(r), r # s PROVE requests'[s] = requests[s]
  BY <1>1, ElsewhereFrame
<1>2. ASSUME NEW r \in Request, FirstSeen(r) \/ PersistSeen(r), r # s
      PROVE  requests'[s] = requests[s]
  BY <1>2 DEF FirstSeen, PersistSeen, Goes, Becomes, TypeOK
<1>3. CASE Tick \/ Publish \/ Signal \/ StopListening \/ Start \/ UNCHANGED vars
  BY <1>3 DEF Tick, Publish, Signal, StopListening, Start, vars, proxyVars
<1>4. CASE End
  BY <1>4 DEF End
<1> QED
  BY <1>1, <1>2, <1>3, <1>4 DEF Next, Process, Handle, Elsewhere

(* What a request took for the first sighting is never before the clock. *)
LEMMA SeenAfterClockPreserved ==
  TypeOK /\ Steps /\ Clocks /\ SeenAfterClock /\ [Next]_vars => SeenAfterClock'
<1> SUFFICES ASSUME TypeOK, Steps, Clocks, SeenAfterClock, [Next]_vars,
                    NEW s \in Request, requests'[s].at \in Judged
             PROVE  /\ clock'[requests'[s].version] # None
                    /\ clock'[requests'[s].version] <= requests'[s].seen
  BY DEF SeenAfterClock
<1>1. ASSUME requests[s].at \in Judged,
             requests'[s].version = requests[s].version, requests'[s].seen = requests[s].seen
      PROVE  /\ clock'[requests'[s].version] # None
             /\ clock'[requests'[s].version] <= requests'[s].seen
  <2>1. requests[s].version \in Version
    BY <1>1 DEF Steps, Stands, Judged, TypeOK, Handler
  <2> QED
    BY <1>1, <2>1, ClockIsKept DEF SeenAfterClock
<1>2. CASE FirstSeen(s)
  <2> DEFINE v == requests[s].version
  <2>1. now \in Nat /\ \A w \in Version : clock[w] \in Nat \cup {None}
    BY DEF TypeOK, SeenTypeOK
  <2>2. ASSUME NEW time \in Nat, Given(v, time), v \in Version,
               clock[v] # None => clock[v] <= time
        PROVE  clock'[v] # None /\ clock'[v] <= time
    BY <2>1, <2>2, NoneAssumption DEF Given, TypeOK, SeenTypeOK
  <2>3. v \in Version => (clock[v] # None => clock[v] <= now)
    BY DEF Clocks, Clocked
  <2>4. FirstSeen(s) => \A t : FindRecord(v, t) /\ t = records[v] /\ v \in Version => t \in Nat
    BY DEF FindRecord, TypeOK, SeenTypeOK
  <2> QED
    BY <1>2, <2>1, <2>2, <2>3, <2>4, FirstSeenGives DEF FindRecord, InsertRow, FailRow
<1>3. CASE PersistSeen(s)
  BY <1>3, PersistGives, NoneAssumption
<1> QED
  BY <1>1, <1>2, <1>3, OnlyOwnStepsMove, ElsewhereJudged DEF Judged, Idle

(* What a request is given is never earlier than what the first was given. *)
LEMMA RecordsPreserved ==
  TypeOK /\ Steps /\ Clocks /\ RecordsAreTheClock /\ SavedIsTheClock /\ [Next]_vars
    => RecordsAreTheClock' /\ SavedIsTheClock'
<1> SUFFICES ASSUME TypeOK, Steps, Clocks, RecordsAreTheClock, SavedIsTheClock, [Next]_vars
             PROVE  RecordsAreTheClock' /\ SavedIsTheClock'
  OBVIOUS
<1> USE DEF RecordsAreTheClock, SavedIsTheClock
<1>1. \A v \in Version : /\ records[v] \in Nat \cup {None}
                         /\ saved[v] \in Nat \cup {None} /\ clock[v] \in Nat \cup {None}
  BY DEF TypeOK, SeenTypeOK
<1>2. ASSUME NEW r \in Request, Elsewhere(r)
      PROVE  RecordsAreTheClock' /\ SavedIsTheClock'
  BY <1>2, ElsewhereFrame DEF seenVars
<1>3. CASE Tick \/ Publish \/ Signal \/ StopListening \/ UNCHANGED vars
  BY <1>3 DEF Tick, Publish, Signal, StopListening, vars, proxyVars, seenVars
<1>4. CASE End
  BY <1>4 DEF End, SeenClosed
<1>5. CASE Start
  <2>1. ~unsaved
    BY <1>5 DEF Start, Clocks
  <2> QED
    BY <1>5, <2>1 DEF Start, LoadSeen, OpenSeen
<1>6. ASSUME NEW r \in Request, FirstSeen(r)
      PROVE  RecordsAreTheClock' /\ SavedIsTheClock'
  <2> DEFINE w == requests[r].version
  <2>1. w \in Version /\ status # "down" /\ UNCHANGED status
    BY <1>6 DEF FirstSeen, At, Steps, Stands, TypeOK, Handler, Sync
  <2>2. CASE FindRecord(w, records[w])
    <3>1. clock[w] # None
      BY <2>1, <2>2 DEF FindRecord, Clocks, Clocked
    <3> QED
      BY <2>1, <2>2, <3>1 DEF FindRecord, Given
  <2>3. CASE MakeRecord(r, w, now)
    BY <1>1, <2>1, <2>3, NoneAssumption DEF MakeRecord, TypeOK, SeenTypeOK
  <2>4. CASE FailRow(w, now)
    BY <2>4 DEF FailRow
  <2>5. CASE InsertRow(w, now)
    <3>1. ~lost => clock[w] = None
      BY <1>1, <2>1, <2>5 DEF InsertRow
    <3> QED
      BY <1>1, <2>1, <2>5, <3>1 DEF InsertRow, Given, TypeOK, SeenTypeOK
  <2> QED
    BY <1>6, <2>2, <2>3, <2>4, <2>5 DEF FirstSeen
<1>7. ASSUME NEW r \in Request, PersistSeen(r)
      PROVE  RecordsAreTheClock' /\ SavedIsTheClock'
  <2> DEFINE w == requests[r].version
  <2>1. w \in Version /\ status # "down" /\ UNCHANGED status
    BY <1>7 DEF PersistSeen, At, Steps, Stands, TypeOK, Handler, Sync
  <2>2. \A v \in Version : clock'[v] = IF v = w /\ clock[w] = None THEN records[w] ELSE clock[v]
    BY <1>7, <2>1 DEF PersistSeen, Persist, Given, TypeOK, SeenTypeOK
  <2>3. ~lost' => \A v \in Version : clock'[v] # None => records'[v] = clock'[v]
    BY <1>7, <2>1, <2>2 DEF PersistSeen, Persist
  <2> QED
    BY <1>7, <2>3 DEF PersistSeen, Persist
<1> QED
  BY <1>2, <1>3, <1>4, <1>5, <1>6, <1>7 DEF Next, Process, Handle, Elsewhere

(* No step gives out another first sighting while nothing was lost. *)
LEMMA ClockStartsOncePreserved ==
  TypeOK /\ Steps /\ Clocks /\ RecordsAreTheClock /\ ClockStartsOnce /\ SeenAfterClock
    /\ [Next]_vars => ClockStartsOnce'
<1> SUFFICES ASSUME TypeOK, Steps, Clocks, RecordsAreTheClock, ClockStartsOnce, SeenAfterClock,
                    [Next]_vars, NEW s \in Request, requests'[s].at \in Judged, ~lost'
             PROVE  requests'[s].seen = clock'[requests'[s].version]
  BY DEF ClockStartsOnce, Judged
<1>1. ~lost
  <2>1. ASSUME NEW r \in Request, Elsewhere(r) PROVE lost' = lost
    BY <2>1, ElsewhereFrame DEF seenVars
  <2>2. ASSUME NEW r \in Request, FirstSeen(r) \/ PersistSeen(r) PROVE lost' \/ ~lost
    BY <2>2 DEF FirstSeen, PersistSeen, FindRecord, MakeRecord, InsertRow, FailRow, Persist
  <2>3. CASE Tick \/ Publish \/ Process \/ UNCHANGED vars
    BY <2>3 DEF Tick, Publish, Process, Signal, StopListening, End, SeenClosed, Start, LoadSeen,
                OpenSeen, vars, seenVars
  <2> QED
    BY <2>1, <2>2, <2>3 DEF Next, Handle, Elsewhere
<1>2. ASSUME requests[s].at \in Judged,
             requests'[s].version = requests[s].version, requests'[s].seen = requests[s].seen
      PROVE  requests'[s].seen = clock'[requests'[s].version]
  <2>1. requests[s].version \in Version
    BY <1>2 DEF Steps, Stands, Judged, TypeOK, Handler
  <2> QED
    BY <1>1, <1>2, <2>1, ClockIsKept DEF SeenAfterClock, ClockStartsOnce, Judged
<1>3. \A v \in Version : /\ clock[v] # None => records[v] = clock[v] \/ status = "down"
                         /\ clock \in [Version -> Nat \cup {None}]
  BY <1>1 DEF RecordsAreTheClock, TypeOK, SeenTypeOK
<1>4. CASE FirstSeen(s)
  <2>1. status # "down"
    BY <1>4 DEF FirstSeen, At
  <2> QED
    BY <1>1, <1>3, <1>4, <2>1, FirstSeenGives DEF FindRecord, InsertRow, FailRow, Given
<1>5. CASE PersistSeen(s)
  <2>1. status # "down" /\ Given(requests[s].version, records[requests[s].version])
    BY <1>5 DEF PersistSeen, At, Persist
  <2> QED
    BY <1>3, <1>5, <2>1, PersistGives DEF Given
<1> QED
  BY <1>2, <1>4, <1>5, OnlyOwnStepsMove, ElsewhereJudged DEF Judged, Idle

-----------------------------------------------------------------------------
(* What is served.                                                         *)

(* A version that has cooled down stays so: time does not go back and clocks do not move. *)
LEMMA RipeStays ==
  ASSUME TypeOK, Steps, [Next]_vars, NEW v \in Version, Ripe(v)
  PROVE  Ripe(v)'
<1>1. /\ UNCHANGED scenario /\ advisories \subseteq advisories'
      /\ now' \in Nat /\ now <= now'
  <2>1. ASSUME NEW r \in Request, FirstSeen(r) \/ PersistSeen(r)
        PROVE  UNCHANGED <<scenario, advisories, now>>
    BY <2>1 DEF FirstSeen, PersistSeen, Sync, env
  <2>2. CASE Tick \/ Publish \/ Process \/ UNCHANGED vars
    BY <2>2 DEF Tick, Publish, Process, Signal, StopListening, End, Start, vars, env, TypeOK
  <2> QED
    BY <2>1, <2>2, ElsewhereFrame DEF Next, Handle, Elsewhere, TypeOK
<1>2. clock[v] # None => clock'[v] = clock[v]
  BY ClockIsKept
<1>3. clock[v] \in Nat \cup {None} /\ now \in Nat /\ Cooldown \in Nat
  BY ProxyAssumption DEF TypeOK, SeenTypeOK
<1> QED
  BY <1>1, <1>2, <1>3 DEF Ripe

(* No step lets a version pass the filter that has not cooled down. *)
LEMMA OnlyRipePassPreserved ==
  TypeOK /\ Steps /\ Clocks /\ SeenAfterClock /\ OnlyRipePass /\ [Next]_vars => OnlyRipePass'
<1> SUFFICES ASSUME TypeOK, Steps, Clocks, SeenAfterClock, OnlyRipePass, [Next]_vars
             PROVE  OnlyRipePass'
  OBVIOUS
<1>1. advisories \subseteq advisories'
  <2>1. CASE Tick \/ Publish \/ Process \/ UNCHANGED vars
    BY <2>1 DEF Tick, Publish, Process, Signal, StopListening, End, Start, vars, env
  <2>2. ASSUME NEW r \in Request, FirstSeen(r) \/ PersistSeen(r) PROVE UNCHANGED advisories
    BY <2>2 DEF FirstSeen, PersistSeen, Sync, env
  <2> QED
    BY <2>1, <2>2, ElsewhereFrame DEF Next, Handle, Elsewhere
<1>2. vulnCache' # None => vulnCache'.fixed \subseteq advisories'
  <2>1. CASE UNCHANGED vulnCache
    BY <1>1, <2>1 DEF OnlyRipePass
  <2>2. CASE End
    BY <2>2 DEF End
  <2>3. ASSUME NEW r \in Request, StoreAnswer(r) PROVE vulnCache'.fixed \subseteq advisories'
    BY <1>1, <2>3 DEF StoreAnswer, OnlyRipePass, PassesRipe
  <2> QED
    BY <2>1, <2>2, <2>3
       DEF Next, Process, Tick, Publish, Signal, StopListening, Start, Handle, Arrive, UpstreamFails,
           HasList, HasLatest, FirstSeen, PersistSeen, Judge, NextVersion, AskCache, Query,
           ReadCache, Fetched, OpenTmp, WriteTmp, RenameTmp, Reply, Quiet, FilesOnly, proxyVars, vars
<1> SUFFICES ASSUME NEW s \in Request PROVE PassesRipe(s)'
  BY <1>2 DEF OnlyRipePass
<1> DEFINE q == requests[s]
           v == q.version
<1>3. /\ PassesRipe(s) /\ q \in Handler /\ v \in Version \cup {None}
      /\ \A w \in Version : Ripe(w) => Ripe(w)'
      /\ Passed \cap {"idle", "seen", "persist", "judge", "vuln", "query", "store", "next"} = {}
  BY RipeStays DEF OnlyRipePass, TypeOK, Handler, Passed
<1>4. q.at # "idle" => v \in Version
  BY <1>3 DEF Steps, Stands
<1>5. ASSUME requests'[s] = q PROVE PassesRipe(s)'
  BY <1>1, <1>3, <1>4, <1>5 DEF PassesRipe, Passed, Handler
<1>6. ASSUME NEW code, NEW served \in SUBSET Version, Replies(s, code, served),
             \A w \in served : Ripe(w), served # {} => code = "ok"
      PROVE  PassesRipe(s)'
  <2>1. requests'[s] = [Idle EXCEPT !.reply = [code |-> code, served |-> served]]
    BY <1>6 DEF Replies, Becomes, TypeOK
  <2> QED
    BY <1>3, <1>6, <2>1 DEF PassesRipe, Idle, Passed
<1>7. ASSUME NEW p \in Handler, Becomes(s, p), p.passed = q.passed, p.reply = q.reply,
             p.fixed \subseteq advisories, p.at \in Passed => Ripe(p.version) /\ p.version \in Version
      PROVE  PassesRipe(s)'
  <2>1. requests'[s] = p
    BY <1>7 DEF Becomes, TypeOK
  <2> QED
    BY <1>1, <1>3, <1>7, <2>1 DEF PassesRipe, Handler
<1>8. ASSUME NEW place \in Places, Goes(s, place), place \in Passed => v \in Version /\ Ripe(v)
      PROVE  PassesRipe(s)'
  <2> DEFINE p == [q EXCEPT !.at = place]
  <2>1. p \in Handler /\ p.passed = q.passed /\ p.reply = q.reply /\ p.fixed = q.fixed
        /\ p.at = place /\ p.version = v
    BY <1>3 DEF Handler
  <2> QED
    BY <1>3, <1>7, <1>8, <2>1 DEF Goes, PassesRipe
<1>9. ASSUME q.at # "idle", Ripe(v), Pass(s) PROVE PassesRipe(s)'
  <2>1. ASSUME Becomes(s, [q EXCEPT !.at = "next", !.passed = @ \cup {v}]) PROVE PassesRipe(s)'
    <3>1. /\ requests'[s].at = "next" /\ requests'[s].passed = q.passed \cup {v}
          /\ requests'[s].reply = q.reply /\ requests'[s].fixed = q.fixed
      BY <1>3, <2>1 DEF Becomes, TypeOK, Handler
    <3> QED
      BY <1>1, <1>3, <1>4, <1>9, <3>1 DEF PassesRipe, Handler
  <2>2. Replies(s, "ok", {v}) => PassesRipe(s)'
    BY <1>4, <1>6, <1>9
  <2>3. Goes(s, "fetch") \/ Goes(s, "cache") => PassesRipe(s)'
    BY <1>4, <1>8, <1>9 DEF Places
  <2> QED
    BY <1>9, <2>1, <2>2, <2>3, HandlerKind DEF Pass
<1>10. ASSUME Refuse(s) PROVE PassesRipe(s)'
  BY <1>6, <1>8, <1>10 DEF Refuse, Places, Passed
<1>11. CASE Arrive(s)
  <2>1. PICK kind \in scenario.kinds, w \in scenario.versions :
          Becomes(s, [Idle EXCEPT !.kind = kind, !.version = w,
                        !.at = IF kind \in {"list", "latest"} THEN "ask" ELSE "seen"])
    BY <1>11 DEF Arrive
  <2>2. /\ requests'[s].at \in {"ask", "seen"} /\ requests'[s].passed = {}
        /\ requests'[s].reply = NoReply /\ requests'[s].fixed = {}
    BY <2>1 DEF Becomes, TypeOK, Idle
  <2> QED
    BY <2>2 DEF PassesRipe, NoReply, Passed
<1>12. CASE UpstreamFails(s)
  BY <1>6, <1>12 DEF UpstreamFails
<1>13. CASE HasList(s)
  <2>1. PICK versions \in SUBSET scenario.versions :
          \/ (scenario.trusted \/ versions = {}) /\ Replies(s, "ok", versions)
          \/ \E w \in versions :
               Becomes(s, [q EXCEPT !.at = "seen", !.version = w,
                                    !.todo = versions \ {w}, !.asOf = now])
    BY <1>13 DEF HasList
  <2>2. versions \in SUBSET Version
    BY ProxyAssumption DEF TypeOK
  <2>3. CASE (scenario.trusted \/ versions = {}) /\ Replies(s, "ok", versions)
    BY <1>6, <2>2, <2>3 DEF Ripe
  <2>4. ASSUME NEW w \in versions,
               Becomes(s, [q EXCEPT !.at = "seen", !.version = w,
                                    !.todo = versions \ {w}, !.asOf = now])
        PROVE  PassesRipe(s)'
    <3>1. /\ requests'[s].at = "seen" /\ requests'[s].passed = q.passed
          /\ requests'[s].reply = q.reply /\ requests'[s].fixed = q.fixed
      BY <1>3, <2>4 DEF Becomes, TypeOK, Handler
    <3> QED
      BY <1>1, <1>3, <3>1 DEF PassesRipe, Handler
  <2> QED
    BY <2>1, <2>3, <2>4
<1>14. CASE HasLatest(s)
  BY <1>4, <1>6, <1>8, <1>14 DEF HasLatest, At, Places, Passed, Ripe
<1>15. CASE FirstSeen(s)
  <2>1. ASSUME NEW time, NEW place \in {"judge", "persist"},
               Becomes(s, [q EXCEPT !.at = place, !.seen = time])
        PROVE  PassesRipe(s)'
    <3>1. /\ requests'[s].at = place /\ requests'[s].passed = q.passed
          /\ requests'[s].reply = q.reply /\ requests'[s].fixed = q.fixed
      BY <1>3, <2>1 DEF Becomes, TypeOK, Handler
    <3> QED
      BY <1>1, <1>3, <3>1 DEF PassesRipe, Handler
  <2> QED
    BY <1>15, <2>1 DEF FirstSeen
<1>16. CASE PersistSeen(s)
  BY <1>8, <1>16 DEF PersistSeen, Places, Passed
<1>17. CASE Judge(s)
  <2>1. q.at = "judge" /\ v \in Version
    BY <1>4, <1>17 DEF Judge, At
  <2>2. CASE scenario.trusted \/ Age(s) >= Cooldown
    <3>1. /\ clock[v] \in Nat /\ q.seen \in Nat /\ clock[v] <= q.seen
          /\ q.asOf \in Nat /\ q.asOf <= now /\ now \in Nat /\ Cooldown \in Nat
      BY <1>3, <2>1, ProxyAssumption
         DEF SeenAfterClock, Steps, Stands, Judged, TypeOK, SeenTypeOK, Handler
    <3>2. Ripe(v)
      BY <2>2, <3>1, NoneAssumption DEF Ripe, Age
    <3> QED
      BY <1>9, <1>17, <2>1, <2>2, <3>2 DEF Judge
  <2> QED
    BY <1>8, <1>17, <2>2 DEF Judge, Places, Passed
<1>18. CASE NextVersion(s)
  <2>1. CASE Replies(s, "ok", q.passed)
    BY <1>3, <1>6, <2>1 DEF PassesRipe, Handler
  <2>2. ASSUME NEW w, Becomes(s, [q EXCEPT !.at = "seen", !.version = w, !.todo = @ \ {w}])
        PROVE  PassesRipe(s)'
    <3>1. /\ requests'[s].at = "seen" /\ requests'[s].passed = q.passed
          /\ requests'[s].reply = q.reply /\ requests'[s].fixed = q.fixed
      BY <1>3, <2>2 DEF Becomes, TypeOK, Handler
    <3> QED
      BY <1>1, <1>3, <3>1 DEF PassesRipe, Handler
  <2> QED
    BY <1>18, <2>1, <2>2 DEF NextVersion
<1>19. CASE AskCache(s)
  <2>1. q.at = "vuln"
    BY <1>19 DEF AskCache, At
  <2>2. vulnCache # None /\ v \in vulnCache.fixed => Ripe(v)
    BY DEF OnlyRipePass, Ripe
  <2>3. \/ Refuse(s) \/ Goes(s, "query")
        \/ vulnCache # None /\ v \in vulnCache.fixed /\ Pass(s)
    BY <1>19 DEF AskCache
  <2> QED
    BY <1>8, <1>9, <1>10, <2>1, <2>2, <2>3 DEF Places, Passed
<1>20. CASE Query(s)
  <2>1. PICK fixed \in {advisories, {}} : Becomes(s, [q EXCEPT !.at = "store", !.fixed = fixed])
    BY <1>20 DEF Query
  <2>2. /\ requests'[s].at = "store" /\ requests'[s].passed = q.passed
        /\ requests'[s].reply = q.reply /\ requests'[s].fixed = fixed
    BY <1>3, <2>1 DEF Becomes, TypeOK, Handler
  <2> QED
    BY <1>1, <1>3, <2>2 DEF PassesRipe, Handler
<1>21. CASE StoreAnswer(s)
  <2>1. q.at = "store" /\ (v \in q.fixed => Ripe(v))
    BY <1>3, <1>21 DEF StoreAnswer, At, PassesRipe, Ripe
  <2> QED
    BY <1>9, <1>10, <1>21, <2>1 DEF StoreAnswer
<1>22. CASE ReadCache(s) \/ Fetched(s) \/ OpenTmp(s) \/ WriteTmp(s) \/ RenameTmp(s) \/ Reply(s)
  <2>1. q.at \in Passed /\ v \in Version /\ Ripe(v)
    BY <1>3, <1>4, <1>22
       DEF ReadCache, Fetched, OpenTmp, WriteTmp, RenameTmp, Reply, At, Passed, PassesRipe
  <2>2. \/ Replies(s, "ok", {v})
        \/ \E place \in {"fetch", "write", "writing", "rename", "reply"} : Goes(s, place)
    BY <1>22 DEF ReadCache, Fetched, OpenTmp, WriteTmp, RenameTmp, Reply
  <2> QED
    BY <1>6, <1>8, <2>1, <2>2 DEF Places
<1>23. CASE requests'[s] = Idle
  BY <1>23 DEF PassesRipe, Idle, NoReply, Passed
<1> QED
  BY <1>5, <1>11, <1>12, <1>13, <1>14, <1>15, <1>16, <1>17, <1>18, <1>19, <1>20, <1>21, <1>22,
     <1>23, OnlyOwnStepsMove DEF Elsewhere

-----------------------------------------------------------------------------
(* The disk cache.                                                         *)

(* At the start there is no file and no writer. *)
LEMMA InitFiles == Init => TmpIsOwn /\ OneWriter /\ OnlySharedWritesTear
BY DEF Init, FilesInit, TmpIsOwn, OneWriter, OnlySharedWritesTear

(* The steps that do not touch the files leave them alone, and who is      *)
(* about to rename.                                                        *)
LEMMA FilesKept ==
  ASSUME TypeOK, Steps, [Next]_vars,
         \A r \in Request : ~OpenTmp(r) /\ ~WriteTmp(r) /\ ~RenameTmp(r)
  PROVE  /\ UNCHANGED <<tmp, final, content>>
         /\ fd' = fd \/ fd' = [r \in Request |-> None]
<1> USE DEF fileVars
<1>1. CASE Tick \/ Publish \/ Process \/ UNCHANGED vars
  BY <1>1 DEF Tick, Publish, Process, Signal, StopListening, End, FilesClosed, Start, vars
<1>2. ASSUME NEW r \in Request, Arrive(r) \/ Handle(r) PROVE UNCHANGED fileVars
  BY <1>2 DEF Handle, Arrive, UpstreamFails, HasList, HasLatest, FirstSeen, PersistSeen, Judge,
              NextVersion, AskCache, Query, StoreAnswer, ReadCache, Fetched, Reply, Quiet
<1> QED
  BY <1>1, <1>2 DEF Next

(* Opening, renaming and the end of the process keep the inodes of the temporary names apart. *)
LEMMA TmpIsOwnPreserved == TypeOK /\ Steps /\ TmpIsOwn /\ [Next]_vars => TmpIsOwn'
<1> SUFFICES ASSUME TypeOK, Steps, TmpIsOwn, [Next]_vars PROVE TmpIsOwn'
  OBVIOUS
<1>1. ASSUME NEW r \in Request, OpenTmp(r) PROVE TmpIsOwn'
  <2> DEFINE v == requests[r].version
  <2>1. PICK i \in Inode : Opened(tmp, v, i) /\ tmp' = [tmp EXCEPT ![v] = i] /\ UNCHANGED final
    BY <1>1 DEF OpenTmp, StartWrite
  <2>2. CASE tmp[v] = None
    BY <2>1, <2>2, FileAssumption DEF Opened, Used, TmpIsOwn, TypeOK, FilesTypeOK
  <2>3. CASE tmp[v] # None
    BY <2>1, <2>3 DEF Opened, TmpIsOwn, TypeOK, FilesTypeOK
  <2> QED
    BY <2>2, <2>3
<1>2. ASSUME NEW r \in Request, RenameTmp(r) PROVE TmpIsOwn'
  BY <1>2 DEF RenameTmp, Rename, TmpIsOwn, TypeOK, FilesTypeOK
<1>3. ASSUME NEW r \in Request, WriteTmp(r) PROVE TmpIsOwn'
  BY <1>3 DEF WriteTmp, EndWrite, FailWrite, TmpIsOwn
<1> QED
  BY <1>1, <1>2, <1>3, FilesKept DEF TmpIsOwn

(* A request that does not finish writing is about to rename only if it was before. *)
LEMMA RenameAfterWrite ==
  ASSUME TypeOK, Steps, [Next]_vars, NEW s \in Request, ~WriteTmp(s),
         requests'[s].at = "rename"
  PROVE  requests[s].at = "rename"
<1> SUFFICES ASSUME Elsewhere(s) \/ FirstSeen(s) \/ PersistSeen(s) PROVE FALSE
  BY OnlyOwnStepsMove DEF Idle
<1>1. requests[s] \in Handler
  BY DEF TypeOK
<1>2. ASSUME NEW code, NEW served PROVE ~Replies(s, code, served)
  BY DEF Replies, Becomes, Idle, TypeOK
<1>3. ASSUME NEW place \in Places \ {"rename"} PROVE ~Goes(s, place)
  BY <1>1 DEF Goes, Becomes, TypeOK, Handler
<1>4. ASSUME NEW p, p.at # "rename" PROVE ~Becomes(s, p)
  BY <1>4 DEF Becomes, TypeOK
<1>5. ~Pass(s)
  <2>1. [requests[s] EXCEPT !.at = "next", !.passed = @ \cup {requests[s].version}].at = "next"
    BY <1>1 DEF Handler
  <2> QED
    BY <1>2, <1>3, <1>4, <2>1, HandlerKind DEF Pass, Places
<1>6. ~Refuse(s)
  BY <1>2, <1>3 DEF Refuse, Places
<1>7. ASSUME NEW v, NEW todo, NEW asOf
      PROVE  /\ ~Becomes(s, [requests[s] EXCEPT !.at = "seen", !.version = v,
                                                !.todo = todo, !.asOf = asOf])
             /\ ~Becomes(s, [requests[s] EXCEPT !.at = "seen", !.version = v, !.todo = todo])
             /\ ~Becomes(s, [requests[s] EXCEPT !.at = "judge", !.seen = v])
             /\ ~Becomes(s, [requests[s] EXCEPT !.at = "persist", !.seen = v])
             /\ ~Becomes(s, [requests[s] EXCEPT !.at = "store", !.fixed = v])
  <2>1. [requests[s] EXCEPT !.at = "seen", !.version = v, !.todo = todo, !.asOf = asOf].at = "seen"
    BY <1>1 DEF Handler
  <2>2. [requests[s] EXCEPT !.at = "seen", !.version = v, !.todo = todo].at = "seen"
    BY <1>1 DEF Handler
  <2>3. /\ [requests[s] EXCEPT !.at = "judge", !.seen = v].at = "judge"
        /\ [requests[s] EXCEPT !.at = "persist", !.seen = v].at = "persist"
    BY <1>1 DEF Handler
  <2>4. [requests[s] EXCEPT !.at = "store", !.fixed = v].at = "store"
    BY <1>1 DEF Handler
  <2> QED
    BY <1>4, <2>1, <2>2, <2>3, <2>4
<1>8. ASSUME NEW v, NEW kind
      PROVE ~Becomes(s, [Idle EXCEPT !.kind = kind, !.version = v,
                           !.at = IF kind \in {"list", "latest"} THEN "ask" ELSE "seen"])
  <2>1. [Idle EXCEPT !.kind = kind, !.version = v,
           !.at = IF kind \in {"list", "latest"} THEN "ask" ELSE "seen"].at \in {"ask", "seen"}
    BY DEF Idle
  <2> QED
    BY <1>4, <2>1
<1> QED
  BY <1>2, <1>3, <1>5, <1>6, <1>7, <1>8
     DEF Elsewhere, Arrive, UpstreamFails, HasList, HasLatest, FirstSeen, PersistSeen, Judge,
         NextVersion, AskCache, Query, StoreAnswer, ReadCache, Fetched, OpenTmp, RenameTmp, Reply,
         Places

(* A temporary file that is not shared keeps its one writer. *)
LEMMA OneWriterPreserved == TypeOK /\ Steps /\ TmpIsOwn /\ OneWriter /\ [Next]_vars => OneWriter'
<1> SUFFICES ASSUME TypeOK, Steps, TmpIsOwn, OneWriter, [Next]_vars,
                    NEW v \in Version, tmp'[v] # None, ~content'[tmp'[v]].shared,
                    NEW s \in Request, fd'[s] # None, fd'[s].path = v
             PROVE  /\ fd'[s].inode = tmp'[v] /\ content'[tmp'[v]].writer = s
                    /\ requests'[s].at = "rename" => content'[tmp'[v]].whole
  BY DEF OneWriter
<1> USE DEF TypeOK, FilesTypeOK
<1>1. ASSUME NEW r \in Request, OpenTmp(r)
      PROVE  /\ fd'[s].inode = tmp'[v] /\ content'[tmp'[v]].writer = s
             /\ requests'[s].at = "rename" => content'[tmp'[v]].whole
  <2> DEFINE w == requests[r].version
  <2>1. PICK i \in Inode :
          /\ Opened(tmp, w, i)
          /\ tmp' = [tmp EXCEPT ![w] = i]
          /\ content' = [content EXCEPT ![i] =
               [whole |-> FALSE, writer |-> r, shared |-> Contended(r, w)]]
          /\ fd' = [fd EXCEPT ![r] = [path |-> w, inode |-> i]]
    BY <1>1 DEF OpenTmp, StartWrite
  <2>2. w \in Version /\ \A p \in Request \ {r} : requests'[p] = requests[p]
    BY <1>1 DEF OpenTmp, At, Goes, Becomes, Steps, Stands, Handler
  <2>3. CASE v = w
    <3>1. ~Contended(r, w)
      BY <2>1, <2>2, <2>3
    <3>2. s = r
      BY <2>1, <2>2, <2>3, <3>1 DEF Contended
    <3>3. requests'[r].at = "writing"
      BY <1>1 DEF OpenTmp, Goes, Becomes, Handler
    <3> QED
      BY <2>1, <2>2, <2>3, <3>2, <3>3
  <2>4. CASE v # w
    <3>1. tmp'[v] = tmp[v] /\ tmp[v] # i
      BY <2>1, <2>2, <2>4 DEF Opened, Used, TmpIsOwn
    <3>2. s # r /\ fd'[s] = fd[s]
      BY <2>1, <2>2, <2>4
    <3> QED
      BY <2>1, <2>2, <3>1, <3>2 DEF OneWriter
  <2> QED
    BY <2>3, <2>4
<1>2. ASSUME NEW r \in Request, WriteTmp(r)
      PROVE  /\ fd'[s].inode = tmp'[v] /\ content'[tmp'[v]].writer = s
             /\ requests'[s].at = "rename" => content'[tmp'[v]].whole
  <2>1. fd'[s] = fd[s] /\ tmp' = tmp /\ tmp[v] \in Inode
    BY <1>2 DEF WriteTmp, EndWrite, FailWrite
  <2>2. /\ content'[tmp[v]].shared = content[tmp[v]].shared
        /\ content'[tmp[v]].writer = content[tmp[v]].writer
        /\ content[tmp[v]].whole => content'[tmp[v]].whole
    BY <1>2, <2>1 DEF WriteTmp, EndWrite, FailWrite
  <2>3. fd[s].inode = tmp[v] /\ content[tmp[v]].writer = s
    BY <2>1, <2>2 DEF OneWriter
  <2>4. ASSUME requests'[s].at = "rename" PROVE content'[tmp[v]].whole
    <3>1. CASE s # r
      <4>1. requests'[s] = requests[s]
        BY <1>2, <3>1 DEF WriteTmp, Goes, Becomes
      <4> QED
        BY <2>1, <2>2, <2>4, <4>1 DEF OneWriter
    <3>2. CASE s = r
      <4>1. EndWrite(r)
        BY <1>2, <2>4, <3>2 DEF WriteTmp, Goes, Becomes, Handler
      <4> QED
        BY <2>1, <2>3, <3>2, <4>1 DEF EndWrite
    <3> QED
      BY <3>1, <3>2
  <2> QED
    BY <2>1, <2>2, <2>3, <2>4
<1>3. ASSUME NEW r \in Request, RenameTmp(r)
      PROVE  /\ fd'[s].inode = tmp'[v] /\ content'[tmp'[v]].writer = s
             /\ requests'[s].at = "rename" => content'[tmp'[v]].whole
  <2>1. s # r /\ fd'[s] = fd[s] /\ tmp'[v] = tmp[v] /\ UNCHANGED content
    BY <1>3 DEF RenameTmp, Rename
  <2>2. requests'[s] = requests[s]
    BY <1>3, <2>1 DEF RenameTmp, Goes, Becomes
  <2> QED
    BY <2>1, <2>2 DEF OneWriter
<1>4. ASSUME \A r \in Request : ~OpenTmp(r) /\ ~WriteTmp(r) /\ ~RenameTmp(r)
      PROVE  /\ fd'[s].inode = tmp'[v] /\ content'[tmp'[v]].writer = s
             /\ requests'[s].at = "rename" => content'[tmp'[v]].whole
  <2>1. UNCHANGED <<tmp, final, content>> /\ fd' = fd
    BY <1>4, FilesKept
  <2>2. requests'[s].at = "rename" => requests[s].at = "rename"
    BY <1>4, RenameAfterWrite
  <2> QED
    BY <2>1, <2>2 DEF OneWriter
<1> QED
  BY <1>1, <1>2, <1>3, <1>4

(* No step tears a cached file, unless two requests had the temporary name open at once. *)
LEMMA TornPreserved ==
  TypeOK /\ Steps /\ TmpIsOwn /\ OneWriter /\ OnlySharedWritesTear /\ [Next]_vars
    => OnlySharedWritesTear'
<1> SUFFICES ASSUME TypeOK, Steps, TmpIsOwn, OneWriter, OnlySharedWritesTear, [Next]_vars,
                    NEW v \in Version, final'[v] # None
             PROVE  content'[final'[v]].whole \/ content'[final'[v]].shared
  BY DEF OnlySharedWritesTear
<1> USE DEF TypeOK, FilesTypeOK
<1>1. ASSUME NEW r \in Request, OpenTmp(r)
      PROVE  content'[final'[v]].whole \/ content'[final'[v]].shared
  <2> DEFINE w == requests[r].version
  <2>1. PICK i \in Inode :
          /\ Opened(tmp, w, i) /\ UNCHANGED final
          /\ content' = [content EXCEPT ![i] =
               [whole |-> FALSE, writer |-> r, shared |-> Contended(r, w)]]
    BY <1>1 DEF OpenTmp, StartWrite
  <2>2. w \in Version
    BY <1>1 DEF OpenTmp, At, Steps, Stands, Handler
  <2>3. final[v] # i
    BY <2>1, <2>2 DEF Opened, Used, TmpIsOwn
  <2> QED
    BY <2>1, <2>3 DEF OnlySharedWritesTear
<1>2. ASSUME NEW r \in Request, WriteTmp(r)
      PROVE  content'[final'[v]].whole \/ content'[final'[v]].shared
  BY <1>2 DEF WriteTmp, EndWrite, FailWrite, OnlySharedWritesTear
<1>3. ASSUME NEW r \in Request, RenameTmp(r)
      PROVE  content'[final'[v]].whole \/ content'[final'[v]].shared
  <2>1. fd[r] # None /\ requests[r].at = "rename" /\ UNCHANGED content
    BY <1>3 DEF RenameTmp, At, Rename, Steps, Stands
  <2>2. CASE final'[v] = final[v]
    BY <2>1, <2>2 DEF OnlySharedWritesTear
  <2>3. CASE fd[r].path = v /\ tmp[v] # None /\ final'[v] = tmp[v]
    BY <2>1, <2>3 DEF OneWriter
  <2> QED
    BY <1>3, <2>2, <2>3 DEF RenameTmp, Rename
<1>4. ASSUME \A r \in Request : ~OpenTmp(r) /\ ~WriteTmp(r) /\ ~RenameTmp(r)
      PROVE  content'[final'[v]].whole \/ content'[final'[v]].shared
  BY <1>4, FilesKept DEF OnlySharedWritesTear
<1> QED
  BY <1>1, <1>2, <1>3, <1>4

-----------------------------------------------------------------------------
(* The theorems.                                                           *)

(* What is known of the store and of the requests between two steps. *)
StoreInv ==
  /\ TypeOK /\ Steps /\ Clocks /\ SeenAfterClock
  /\ RecordsAreTheClock /\ SavedIsTheClock /\ ClockStartsOnce

FilesInv == TypeOK /\ Steps /\ TmpIsOwn /\ OneWriter /\ OnlySharedWritesTear

(* The parts of the invariant hold at the start. *)
LEMMA InitInv == Init => StoreInv /\ OnlyRipePass /\ FilesInv
<1> SUFFICES ASSUME Init PROVE StoreInv /\ OnlyRipePass /\ FilesInv
  OBVIOUS
<1>1. SeenAfterClock /\ RecordsAreTheClock /\ SavedIsTheClock /\ ClockStartsOnce
  BY DEF Init, SeenInit, Idle, SeenAfterClock, RecordsAreTheClock, SavedIsTheClock,
         ClockStartsOnce, Judged
<1>2. OnlyRipePass
  BY DEF Init, Idle, NoReply, OnlyRipePass, PassesRipe, Passed
<1> QED
  BY <1>1, <1>2, InitTypeOK, InitSteps, InitClocks, InitFiles DEF StoreInv, FilesInv

(* What is known of the store and its clocks holds always. *)
LEMMA StoreInvariant == Spec => []StoreInv
<1>1. Init => StoreInv
  BY InitInv
<1>2. StoreInv /\ [Next]_vars => StoreInv'
  BY TypesPreserved, StepsPreserved, ClocksPreserved, SeenAfterClockPreserved, RecordsPreserved,
     ClockStartsOncePreserved DEF StoreInv
<1> QED
  BY <1>1, <1>2, PTL DEF Spec

(* The types of Proxy.TypeOK hold always. *)
THEOREM Types == Spec => []TypeOK
<1>1. StoreInv => TypeOK
  BY DEF StoreInv
<1> QED
  BY <1>1, StoreInvariant, PTL

(* seenDB.FirstSeen and sqliteSeenStore.FirstSeen: as long as no record is *)
(* lost, all requests for a version are given the time that the first was  *)
(* given, in every process.                                                *)
THEOREM OneClock == Spec => []ClockStartsOnce
<1>1. StoreInv => ClockStartsOnce
  BY DEF StoreInv
<1> QED
  BY <1>1, StoreInvariant, PTL

(* seenDB.persist: what FirstSeen has answered is in the file, and stays   *)
(* there.                                                                  *)
THEOREM ClockIsSaved == Spec => []SavedIsTheClock
<1>1. StoreInv => SavedIsTheClock
  BY DEF StoreInv
<1> QED
  BY <1>1, StoreInvariant, PTL

(* proxy.ServeHTTP: a version that is served has been known for the        *)
(* cooldown, comes from a trusted publisher, or fixes a vulnerability,     *)
(* whatever fails, restarts or is cached, and however many requests run.   *)
THEOREM CooldownIsKept == Spec => []NeverServedEarly
<1>1. Init => OnlyRipePass
  BY InitInv
<1>2. StoreInv /\ OnlyRipePass /\ [Next]_vars => OnlyRipePass'
  BY OnlyRipePassPreserved DEF StoreInv
<1>3. OnlyRipePass => NeverServedEarly
  BY DEF OnlyRipePass, PassesRipe, NeverServedEarly, Ripe
<1> QED
  BY <1>1, <1>2, <1>3, StoreInvariant, PTL DEF Spec

(* proxy.cachedProxyPassthrough: a cached file is whole unless two         *)
(* requests had its temporary name open at once.                           *)
THEOREM OnlySharedFilesAreTorn == Spec => []OnlySharedWritesTear
<1>1. Init => FilesInv
  BY InitInv
<1>2. FilesInv /\ [Next]_vars => FilesInv'
  BY TypesPreserved, StepsPreserved, TmpIsOwnPreserved, OneWriterPreserved, TornPreserved
     DEF FilesInv
<1>3. FilesInv => OnlySharedWritesTear
  BY DEF FilesInv
<1> QED
  BY <1>1, <1>2, <1>3, PTL DEF Spec

=============================================================================
