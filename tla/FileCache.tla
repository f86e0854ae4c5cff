----------------------------- MODULE FileCache -----------------------------
(***************************************************************************)
(* The disk cache of cmd/kukicha-proxy (cachedProxyPassthrough): a file is *)
(* written under a temporary name, the same for all requests of its path,  *)
(* and renamed.  Names refer to inodes: a request that has the temporary   *)
(* file open goes on writing into its inode after another has renamed it.  *)
(***************************************************************************)
EXTENDS ProxyConstants

CONSTANT Inode

(* What a request has open: the name, by its version, and the inode that   *)
(* the name referred to.                                                   *)
Opening == [path : Version, inode : Inode]

(* None stands for no file, and for no open file. *)
ASSUME FileAssumption == None \notin Inode \cup Opening

VARIABLES
  tmp, final,   (* the inode of the temporary and of the cached file       *)
  content,      (* of an inode: whether it is whole, the last request that *)
                (* truncated it, and whether another had its name open then *)
  fd            (* what a request has open, until it has renamed it         *)

fileVars == <<tmp, final, content, fd>>

FilesTypeOK ==
  /\ \A names \in {tmp, final} : names \in [Version -> Inode \cup {None}]
  /\ content \in [Inode -> [whole : BOOLEAN, writer : Request \cup {None}, shared : BOOLEAN]]
  /\ fd \in [Request -> Opening \cup {None}]

Empty == [whole |-> FALSE, writer |-> None, shared |-> FALSE]

FilesInit ==
  /\ tmp = [v \in Version |-> None] /\ final = tmp
  /\ content = [i \in Inode |-> Empty]
  /\ fd = [r \in Request |-> None]

Used(i) ==
  \/ \E v \in Version : i \in {tmp[v], final[v]}
  \/ \E r \in Request : fd[r] # None /\ fd[r].inode = i

(* The inode that os.WriteFile opens: the one of the name, or a new one. *)
Opened(names, v, i) == IF names[v] = None THEN ~Used(i) ELSE i = names[v]

(* Another request has the temporary name of v open. *)
Contended(r, v) == \E s \in Request \ {r} : fd[s] # None /\ fd[s].path = v

(* os.WriteFile(tmpPath): the file is created or truncated ... *)
StartWrite(r, v) ==
  \E i \in Inode :
    /\ Opened(tmp, v, i)
    /\ tmp' = [tmp EXCEPT ![v] = i]
    /\ content' = [content EXCEPT ![i] =
         [whole |-> FALSE, writer |-> r, shared |-> Contended(r, v)]]
    /\ fd' = [fd EXCEPT ![r] = [path |-> v, inode |-> i]]
    /\ UNCHANGED final

(* ... and filled, unless another request has truncated it since and is    *)
(* not done.                                                               *)
EndWrite(r) ==
  LET i == fd[r].inode
  IN /\ content' = IF content[i].writer = r THEN [content EXCEPT ![i].whole = TRUE] ELSE content
     /\ UNCHANGED <<tmp, final, fd>>

(* The write fails and the file stays as it is. *)
FailWrite(r) == fd' = [fd EXCEPT ![r] = None] /\ UNCHANGED <<tmp, final, content>>

(* os.Rename(tmpPath, cachePath): whatever has the temporary name now; an  *)
(* error is discarded.                                                     *)
Rename(r) ==
  LET v == fd[r].path
  IN /\ \/ /\ tmp[v] # None
           /\ final' = [final EXCEPT ![v] = tmp[v]] /\ tmp' = [tmp EXCEPT ![v] = None]
        \/ UNCHANGED <<tmp, final>>
     /\ fd' = [fd EXCEPT ![r] = None]
     /\ UNCHANGED content

(* The process ends; its files stay as they are. *)
FilesClosed == fd' = [r \in Request |-> None] /\ UNCHANGED <<tmp, final, content>>

-----------------------------------------------------------------------------

(* "Persist to cache (best-effort, atomic write)" (main.kuki:478): a file  *)
(* under its own name is whole.                                            *)
CachedIsWhole == \A v \in Version : final[v] # None => content[final[v]].whole

(* It is not when the temporary name was opened while another request had  *)
(* it open, up to its rename: one then publishes what the other has yet to *)
(* write.  In no other way, whatever fails and wherever the process ends.  *)
OnlySharedWritesTear ==
  \A v \in Version :
    final[v] # None => content[final[v]].whole \/ content[final[v]].shared
=============================================================================
