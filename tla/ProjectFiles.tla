---------------------------- MODULE ProjectFiles ----------------------------
(***************************************************************************)
(* The files of a project that the kukicha commands read and write, and    *)
(* what os.WriteFile and os.Remove do to them when a command is cut short  *)
(* or another one is at the same file.                                     *)
(***************************************************************************)
EXTENDS Integers

CONSTANTS
  LibFile,      (* the embedded files of all versions, go.mod and go.sum of *)
                (* the extracted module among them                         *)
  None, Torn    (* no file; a file that was truncated and not yet written  *)

Stamp == "KUKICHA_VERSION"
GoFile == "<file>.go"
Source == "<file>.kuki"
GoMod == "go.mod"
Agents == "AGENTS.md"
Claude == "CLAUDE.md"

Cache == LibFile \cup {Stamp}                 (* .kukicha/stdlib *)
UserFile == {Source, GoMod, Agents, Claude}
Path == Cache \cup {GoFile} \cup UserFile

(* The library has a directory of its own; None and Torn are no paths. *)
ASSUME FileAssumption ==
  /\ LibFile \cap ({Stamp, GoFile} \cup UserFile) = {}
  /\ None \notin Path /\ None # Torn

VARIABLES
  disk,     (* of a library file and the stamp the version; of the Go file *)
            (* the source it was made of and by which command; of a file   *)
            (* of the user his text and what kukicha has added to it       *)
  fd,       (* the file each command has open, and whether its name still  *)
            (* refers to it                                                *)
  texts,    (* history: the last text the user gave each of his files      *)
  raced     (* history: files he changed while a command had their old     *)
            (* text, or that a command read or wrote while another did     *)

fileVars == <<disk, fd, texts, raced>>

NoFile == [path |-> None, linked |-> FALSE]
NoText == -1    (* of an empty file *)

Whole(f) == disk[f] \notin {None, Torn}
Writes(p, f) == fd[p] = [path |-> f, linked |-> TRUE]

(* A command is at a file: if another one is writing it, it is found empty, *)
(* or what the two write may be mixed.                                      *)
Meets(p, f) ==
  raced' = IF \E q \in DOMAIN fd \ {p} : Writes(q, f) THEN raced \cup {f} ELSE raced

(* os.WriteFile: the file is opened and truncated ... *)
Truncate(p, f) ==
  /\ fd[p] = NoFile
  /\ Meets(p, f)
  /\ disk' = [disk EXCEPT ![f] = Torn]
  /\ fd' = [fd EXCEPT ![p] = [path |-> f, linked |-> TRUE]]

(* ... and written.  A file that was removed meanwhile is written to no    *)
(* effect, and of two different contents some of each may be left.         *)
Fill(p, f, content) ==
  /\ fd[p].path = f
  /\ IF fd[p].linked
     THEN \/ disk' = [disk EXCEPT ![f] = content]
          \/ disk[f] \notin {Torn, content} /\ disk' = [disk EXCEPT ![f] = Torn]
     ELSE UNCHANGED disk
  /\ fd' = [fd EXCEPT ![p] = NoFile]
  /\ UNCHANGED raced

Remove(f) ==
  /\ disk[f] # None
  /\ disk' = [disk EXCEPT ![f] = None]
  /\ fd' = [p \in DOMAIN fd |-> IF fd[p].path = f THEN [fd[p] EXCEPT !.linked = FALSE] ELSE fd[p]]

(* The text and what was added, of a file that is read. *)
Read(f) == IF Whole(f) THEN disk[f] ELSE [text |-> NoText, added |-> None]

(* What the user has written is on disk, the source possibly as Go code    *)
(* instead (brew --remove-kuki).                                           *)
HasLatest(f) ==
  \/ disk[f] = None /\ texts[f] = 0
  \/ Whole(f) /\ disk[f].text = texts[f]
  \/ f = Source /\ disk[f] = None /\ Whole(GoFile) /\ disk[GoFile].of = texts[f]
=============================================================================
