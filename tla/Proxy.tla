------------------------------- MODULE Proxy -------------------------------
(***************************************************************************)
(* cmd/kukicha-proxy: a Go module proxy that serves a version only when it *)
(* has been known for the cooldown, comes from a trusted publisher, or     *)
(* fixes a vulnerability.  Requests run concurrently, each in a goroutine  *)
(* of net/http; they share the first-seen store, the cache of the          *)
(* vulnerability checker and the files of the disk cache.                  *)
(*                                                                         *)
(* One module is looked at.  The upstream proxy and the vulnerability      *)
(* database answer anything, or fail; time passes between any two steps.   *)
(***************************************************************************)
EXTENDS SeenStore, FileCache

CONSTANTS
  Cooldown, CacheTTL,
  Scenarios,     (* the modes, publishers and requests to look at, and the *)
                 (* bound on the requests that arrive                      *)
  MaxTime,       (* bound: the time                                        *)
  MaxEnds        (* bound: the times the process ends                      *)

Modes == {"local", "hosted"}

(* "file" is .mod or .zip, "info" .info. *)
Kinds == {"list", "latest", "info", "file"}

ASSUME ProxyAssumption ==
  /\ Cooldown \in Nat /\ CacheTTL \in Nat
  /\ Scenarios \subseteq [mode : Modes, trusted : BOOLEAN, vulncheck : BOOLEAN,
                            versions : SUBSET Version, kinds : SUBSET Kinds,
                            arrivals : Nat]

VARIABLES
  scenario,
  now,
  status,        (* "up", "closing" (a signal came), "stopped" (no longer  *)
                 (* listening), "down"                                     *)
  requests,      (* the handlers that run, and the last reply of each      *)
  advisories,    (* the versions the vulnerability database lists as fixes *)
  vulnCache,     (* vc.cache[module], or None                              *)
  arrived, ends  (* counted for the bounds                                 *)

proxyVars == <<status, requests, vulnCache>>
env == <<scenario, now, advisories, arrived, ends>>
vars == <<proxyVars, env, seenVars, fileVars>>

NoReply == [code |-> "none", served |-> {}]

(* version: the one that is looked at; todo: those of the list after it;   *)
(* asOf: the time of handleList that ages are taken at; fixed: the answer  *)
(* of the vulnerability database.                                          *)
Idle == [at |-> "idle", kind |-> "info", version |-> None, todo |-> {}, asOf |-> 0,
         seen |-> None, passed |-> {}, fixed |-> {}, reply |-> NoReply]

Init ==
  /\ scenario \in Scenarios
  /\ now = 0 /\ status = "up"
  /\ requests = [r \in Request |-> Idle]
  /\ advisories = {} /\ vulnCache = None
  /\ arrived = 0 /\ ends = 0
  /\ SeenInit /\ FilesInit

-----------------------------------------------------------------------------
(* The environment.                                                        *)

Tick ==
  /\ now < MaxTime
  /\ now' = now + 1
  /\ UNCHANGED <<scenario, advisories, arrived, ends, proxyVars, seenVars, fileVars>>

(* A vulnerability is published with the version that fixes it. *)
Publish ==
  /\ scenario.vulncheck /\ \E v \in scenario.versions \ advisories : advisories' = advisories \cup {v}
  /\ UNCHANGED <<scenario, now, arrived, ends, proxyVars, seenVars, fileVars>>

-----------------------------------------------------------------------------
(* The handlers.                                                           *)

At(r, place) == requests[r].at = place /\ status # "down"

Becomes(r, q) == requests' = [requests EXCEPT ![r] = q]

Goes(r, place) == Becomes(r, [requests[r] EXCEPT !.at = place])

Sync == UNCHANGED <<env, status>>
Quiet == Sync /\ UNCHANGED <<vulnCache, seenVars, fileVars>>

Replies(r, code, served) ==
  Becomes(r, [Idle EXCEPT !.reply = [code |-> code, served |-> served]])

(* ServeHTTP: handleInfo, handleMod and handleZip look at their version    *)
(* first, handleList and handleLatest ask upstream for theirs.             *)
Arrive(r) ==
  /\ status \in {"up", "closing"} /\ requests[r].at = "idle"
  /\ arrived < scenario.arrivals /\ arrived' = arrived + 1
  /\ \E kind \in scenario.kinds, v \in scenario.versions :
       Becomes(r, [Idle EXCEPT !.kind = kind, !.version = v,
                    !.at = IF kind \in {"list", "latest"} THEN "ask" ELSE "seen"])
  /\ UNCHANGED <<scenario, now, advisories, ends, status, vulnCache, seenVars, fileVars>>

(* fetchUpstream fails, is answered with another code, or is cut off. *)
UpstreamFails(r) ==
  /\ At(r, "ask") \/ At(r, "fetch")
  /\ Replies(r, "error", {})
  /\ Quiet

(* handleList has the list. *)
HasList(r) ==
  /\ At(r, "ask") /\ requests[r].kind = "list"
  /\ \E versions \in SUBSET scenario.versions :
       IF scenario.trusted \/ versions = {} THEN Replies(r, "ok", versions)
       ELSE \E v \in versions :
              Becomes(r, [requests[r] EXCEPT !.at = "seen", !.version = v,
                                             !.todo = versions \ {v}, !.asOf = now])
  /\ Quiet

(* handleLatest has the latest version. *)
HasLatest(r) ==
  /\ At(r, "ask") /\ requests[r].kind = "latest"
  /\ IF scenario.trusted THEN Replies(r, "ok", {requests[r].version})
     ELSE Goes(r, "seen")
  /\ Quiet

StoreClosed == scenario.mode = "hosted" /\ status # "up"

(* p.db.FirstSeen *)
FirstSeen(r) ==
  LET v == requests[r].version
  IN /\ At(r, "seen")
     /\ \/ /\ ~StoreClosed /\ FindRecord(v, records[v])
           /\ Becomes(r, [requests[r] EXCEPT !.at = "judge", !.seen = records[v]])
        \/ /\ scenario.mode = "local" /\ MakeRecord(r, v, now)
           /\ Becomes(r, [requests[r] EXCEPT !.at = "persist", !.seen = now])
        \/ /\ scenario.mode = "hosted" /\ (FailRow(v, now) \/ (~StoreClosed /\ InsertRow(v, now)))
           /\ Becomes(r, [requests[r] EXCEPT !.at = "judge", !.seen = now])
     /\ Sync /\ UNCHANGED <<vulnCache, fileVars>>

PersistSeen(r) ==
  /\ At(r, "persist")
  /\ Persist(r, requests[r].version)
  /\ Goes(r, "judge")
  /\ Sync /\ UNCHANGED <<vulnCache, fileVars>>

(* The age of the version: handleList takes the time once, before it looks *)
(* at the first version.                                                   *)
Age(r) == (IF requests[r].kind = "list" THEN requests[r].asOf ELSE now) - requests[r].seen

(* The version has passed: handleList keeps it, handleLatest replies, the  *)
(* others fetch it.                                                        *)
Pass(r) ==
  LET q == requests[r]
  IN CASE q.kind = "list"   -> Becomes(r, [q EXCEPT !.at = "next", !.passed = @ \cup {q.version}])
       [] q.kind = "latest" -> Replies(r, "ok", {q.version})
       [] q.kind = "info"   -> Goes(r, "fetch")
       [] q.kind = "file"   -> Goes(r, "cache")

(* It is in cooldown: handleList leaves it out, the others reply 404. *)
Refuse(r) ==
  IF requests[r].kind = "list" THEN Goes(r, "next")
  ELSE Replies(r, "refused", {})

(* Mutant: the cooldown is over one tick early. *)
JudgeEarly(r) ==
  /\ At(r, "judge")
  /\ IF scenario.trusted \/ Age(r) + 1 >= Cooldown THEN Pass(r) ELSE Goes(r, "vuln")
  /\ Quiet

(* The cooldown of a version that is not trusted. *)
Judge(r) ==
  /\ At(r, "judge")
  /\ IF scenario.trusted \/ Age(r) >= Cooldown THEN Pass(r) ELSE Goes(r, "vuln")
  /\ Quiet

(* isSecurityFix: no if there is no checker; else, under its mutex, the    *)
(* cached answer if it is fresh.                                           *)
AskCache(r) ==
  /\ At(r, "vuln")
  /\ IF ~scenario.vulncheck THEN Refuse(r)
     ELSE IF vulnCache # None /\ now - vulnCache.fetchedAt < CacheTTL
     THEN IF requests[r].version \in vulnCache.fixed THEN Pass(r) ELSE Refuse(r)
     ELSE Goes(r, "query")
  /\ Quiet

(* fetchFixedVersions, without the mutex: nothing is fixed if it fails. *)
Query(r) ==
  /\ At(r, "query")
  /\ \E fixed \in {advisories, {}} : Becomes(r, [requests[r] EXCEPT !.at = "store", !.fixed = fixed])
  /\ Quiet

(* The answer replaces what is cached, which another request may have      *)
(* fetched later.                                                          *)
StoreAnswer(r) ==
  /\ At(r, "store")
  /\ vulnCache' = [fixed |-> requests[r].fixed, fetchedAt |-> now]
  /\ IF requests[r].version \in requests[r].fixed THEN Pass(r) ELSE Refuse(r)
  /\ Sync /\ UNCHANGED <<seenVars, fileVars>>

(* handleList goes on with the next version, or replies. *)
NextVersion(r) ==
  /\ At(r, "next")
  /\ IF requests[r].todo = {} THEN Replies(r, "ok", requests[r].passed)
     ELSE \E v \in requests[r].todo :
            Becomes(r, [requests[r] EXCEPT !.at = "seen", !.version = v, !.todo = @ \ {v}])
  /\ Quiet

(* cachedProxyPassthrough reads the cached file if there is one. *)
ReadCache(r) ==
  LET v == requests[r].version
  IN /\ At(r, "cache")
     /\ \/ final[v] = None /\ Goes(r, "fetch")
        \/ final[v] # None /\ Replies(r, "ok", {v})
     /\ Quiet

(* The upstream body has been read. *)
Fetched(r) ==
  /\ At(r, "fetch")
  /\ IF requests[r].kind = "file" THEN Goes(r, "write")
     ELSE Replies(r, "ok", {requests[r].version})
  /\ Quiet

FilesOnly == Sync /\ UNCHANGED <<vulnCache, seenVars>>

OpenTmp(r) ==
  /\ At(r, "write")
  /\ StartWrite(r, requests[r].version)
  /\ Goes(r, "writing")
  /\ FilesOnly

(* Mutant: the file is renamed after a write that failed, too. *)
WriteTmpUnchecked(r) ==
  /\ At(r, "writing")
  /\ EndWrite(r) \/ UNCHANGED fileVars
  /\ Goes(r, "rename")
  /\ FilesOnly

WriteTmp(r) ==
  /\ At(r, "writing")
  /\ \/ EndWrite(r) /\ Goes(r, "rename")
     \/ FailWrite(r) /\ Goes(r, "reply")
  /\ FilesOnly

RenameTmp(r) ==
  /\ At(r, "rename")
  /\ Rename(r)
  /\ Goes(r, "reply")
  /\ FilesOnly

(* The reply is what upstream sent, whatever is in the cache. *)
Reply(r) ==
  /\ At(r, "reply")
  /\ Replies(r, "ok", {requests[r].version})
  /\ Quiet

Handle(r) ==
  \/ UpstreamFails(r) \/ HasList(r) \/ HasLatest(r)
  \/ FirstSeen(r) \/ PersistSeen(r) \/ Judge(r) \/ NextVersion(r)
  \/ AskCache(r) \/ Query(r) \/ StoreAnswer(r)
  \/ ReadCache(r) \/ Fetched(r) \/ OpenTmp(r) \/ WriteTmp(r) \/ RenameTmp(r) \/ Reply(r)

-----------------------------------------------------------------------------
(* The process.                                                            *)

(* The goroutine of main that waits for a signal closes the store ... *)
Signal ==
  /\ status = "up"
  /\ status' = "closing"
  /\ UNCHANGED <<env, requests, vulnCache, seenVars, fileVars>>

(* ... and shuts the server down, which closes its listener first. *)
StopListening ==
  /\ status = "closing"
  /\ status' = "stopped"
  /\ UNCHANGED <<env, requests, vulnCache, seenVars, fileVars>>

(* The process ends, by a crash or because ListenAndServe has returned,    *)
(* which it does as soon as the listener is closed: the handlers are gone  *)
(* in the middle of what they did.                                         *)
End ==
  /\ status # "down" /\ ends < MaxEnds
  /\ status' = "down" /\ ends' = ends + 1
  /\ requests' = [r \in Request |-> Idle]
  /\ vulnCache' = None
  /\ SeenClosed /\ FilesClosed
  /\ UNCHANGED <<scenario, now, advisories, arrived>>

Start ==
  /\ status = "down"
  /\ status' = "up"
  /\ IF scenario.mode = "local" THEN LoadSeen ELSE OpenSeen
  /\ UNCHANGED <<env, requests, vulnCache, fileVars>>

Process == Signal \/ StopListening \/ End \/ Start

Next == Tick \/ Publish \/ Process \/ \E r \in Request : Arrive(r) \/ Handle(r)

Spec == Init /\ [][Next]_vars

-----------------------------------------------------------------------------
(* Properties.                                                             *)

Places ==
  {"idle", "ask", "seen", "persist", "judge", "vuln", "query", "store", "next",
   "cache", "fetch", "write", "writing", "rename", "reply"}

Handler ==
  [at : Places, kind : Kinds, version : Version \cup {None}, todo : SUBSET Version,
   asOf : Nat, seen : Nat \cup {None}, passed : SUBSET Version, fixed : SUBSET Version,
   reply : [code : {"none", "ok", "error", "refused"}, served : SUBSET Version]]

TypeOK ==
  /\ scenario \in Scenarios
  /\ now \in Nat /\ arrived \in Nat /\ ends \in Nat
  /\ status \in {"up", "closing", "stopped", "down"}
  /\ requests \in [Request -> Handler]
  /\ advisories \in SUBSET Version
  /\ vulnCache \in [fixed : SUBSET Version, fetchedAt : Nat] \cup {None}
  /\ SeenTypeOK /\ FilesTypeOK

(* "ensuring only versions that have been publicly available for a         *)
(* configurable cooldown period are served" (main.kuki:4-6): whatever was  *)
(* restarted, lost or cached, a version that was served had been known for *)
(* the cooldown, is trusted, or is a published fix.                        *)
NeverServedEarly ==
  \A r \in Request : \A v \in requests[r].reply.served :
    scenario.trusted \/ v \in advisories
      \/ (requests[r].reply.code = "ok" /\ clock[v] # None /\ now - clock[v] >= Cooldown)

(* The clock of a version starts once: as long as no record was lost,      *)
(* every request is given the time the first was given, on whichever side  *)
(* of a restart it runs, though the process ended between the steps of     *)
(* FirstSeen.                                                              *)
ClockStartsOnce ==
  \A r \in Request :
    requests[r].at \in {"judge", "vuln", "query", "store"} /\ ~lost =>
      requests[r].seen = clock[requests[r].version]

(* A time that a request was given survives the process: it is saved       *)
(* before FirstSeen returns, and no later write, of this process or of the *)
(* next one, leaves it out or changes it.                                  *)
SavedIsTheClock ==
  ~lost /\ ~unsaved =>
    \A v \in Version : clock[v] # None => saved[v] = clock[v]
=============================================================================
