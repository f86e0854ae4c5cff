----------------------------- MODULE SeenStore -----------------------------
(***************************************************************************)
(* The first-seen stores of cmd/kukicha-proxy: since when a version has    *)
(* been known.  In local mode a map in memory, written to seen.json after  *)
(* each change; in hosted mode a table of SQLite.  Both are used under     *)
(* their mutex.  A write that fails is not reported.                       *)
(***************************************************************************)
EXTENDS ProxyConstants

VARIABLES
  records,    (* db.records, or the rows of the table                      *)
  saved,      (* what seen.json, or the database file, holds               *)
  mu,         (* the request that holds the mutex while it writes the file *)
  unsaved,    (* history: the last write of the file failed                *)
  lost,       (* history: the store could not keep, or not read, a record  *)
  clock       (* history: the first time any request was given for it      *)

seenVars == <<records, saved, mu, unsaved, lost, clock>>

SeenTypeOK ==
  /\ \A times \in {records, saved, clock} : times \in [Version -> Nat \cup {None}]
  /\ mu \in Request \cup {None}
  /\ unsaved \in BOOLEAN /\ lost \in BOOLEAN

SeenInit ==
  /\ records = [v \in Version |-> None] /\ saved = records
  /\ mu = None
  /\ unsaved = FALSE /\ lost = FALSE
  /\ clock = [v \in Version |-> None]

(* A request is given t for v. *)
Given(v, t) == clock' = IF clock[v] = None THEN [clock EXCEPT ![v] = t] ELSE clock

(* Mutant: the mutex is not held while the file is written. *)
FindUnwritten(v, t) ==
  /\ records[v] = t /\ t # None
  /\ Given(v, t)
  /\ UNCHANGED <<records, saved, mu, unsaved, lost>>

(* FirstSeen finds a record. *)
FindRecord(v, t) ==
  /\ mu = None
  /\ records[v] = t /\ t # None
  /\ Given(v, t)
  /\ UNCHANGED <<records, saved, mu, unsaved, lost>>

(* seenDB.FirstSeen does not, and makes one. *)
MakeRecord(r, v, now) ==
  /\ mu = None
  /\ records[v] = None
  /\ records' = [records EXCEPT ![v] = now]
  /\ mu' = r
  /\ UNCHANGED <<saved, unsaved, lost, clock>>

(* Mutant: the new record alone is written. *)
PersistRecordOnly(r, v) ==
  /\ mu = r
  /\ mu' = None
  /\ \/ saved' = [w \in Version |-> IF w = v THEN records[v] ELSE None] /\ unsaved' = FALSE
     \/ UNCHANGED saved /\ unsaved' = TRUE
  /\ Given(v, records[v])
  /\ UNCHANGED <<records, lost>>

(* persist writes all records to a file of their own and renames it, or    *)
(* returns at an error of either; then FirstSeen returns.                  *)
Persist(r, v) ==
  /\ mu = r
  /\ mu' = None
  /\ \/ saved' = records /\ unsaved' = FALSE
     \/ UNCHANGED saved /\ unsaved' = TRUE
  /\ Given(v, records[v])
  /\ UNCHANGED <<records, lost>>

(* sqliteSeenStore.FirstSeen inserts a row. *)
InsertRow(v, now) ==
  /\ records[v] = None
  /\ records' = [records EXCEPT ![v] = now] /\ saved' = records'
  /\ Given(v, now)
  /\ UNCHANGED <<mu, unsaved, lost>>

(* The query or the insert fails, as both do when Shutdown has closed the  *)
(* pool: the request is given the time all the same.                       *)
FailRow(v, now) ==
  /\ lost' = TRUE
  /\ Given(v, now)
  /\ UNCHANGED <<records, saved, mu, unsaved>>

(* newSeenDB: the records of the file, or none if it cannot be read. *)
LoadSeen ==
  /\ \/ records' = saved /\ UNCHANGED lost
     \/ records' = [v \in Version |-> None] /\ lost' = TRUE
  /\ UNCHANGED <<saved, mu, unsaved, clock>>

(* newSQLiteSeenStore, which panics if it fails. *)
OpenSeen == records' = saved /\ UNCHANGED <<saved, mu, unsaved, lost, clock>>

(* The process ends: what was not saved is gone. *)
SeenClosed ==
  /\ mu' = None
  /\ lost' = (lost \/ unsaved) /\ unsaved' = FALSE
  /\ UNCHANGED <<records, saved, clock>>
=============================================================================
