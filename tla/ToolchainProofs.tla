-------------------------- MODULE ToolchainProofs --------------------------
(***************************************************************************)
(* Proofs about Toolchain, for every set of processes, of versions and of  *)
(* library files, and every scenario.                                      *)
(*                                                                         *)
(* All rest on Steps: what a command is like where it stands, and which    *)
(* file it can have open there.  From it follow three lemmas about any     *)
(* step of a command, by which the invariants are kept without a look at   *)
(* each action: RunGoesOn (no other command changes, and where this one    *)
(* may go), FilesAfter (what the step does to the files is one of seven    *)
(* things) and OthersOpen (what the other commands have open).             *)
(***************************************************************************)
EXTENDS Toolchain, TLAPS

-----------------------------------------------------------------------------
(* The parts of the inductive invariants.                                  *)

(* The file that a command writes where it stands. *)
WritesAt(c, f) ==
  \/ c.at = "gofile" /\ f = GoFile
  \/ c.at = "agents" /\ f = Agents
  \/ c.at = "claude" /\ f = Claude
  \/ c.at = "gomod" /\ f = GoMod
  \/ c.at = "extract" /\ f \in c.todo
  \/ c.at = "extract" /\ c.todo = {} /\ f = Stamp

(* Where a command has a text that it will write, and where it reads that; *)
(* where it has compiled the source that brew may remove.                  *)
Holding == {"agents", "claude", "gomod"}
Reading == {"readagents", "readclaude", "readmod"}
FromSource == {"compare", "gofile", "prompt", "rm"}

(* Where it is before and at the cache. *)
AtLibrary == {"stamp", "remove", "extract"}

(* Where it may end without an error. *)
Ending == {"compare", "gofile", "prompt", "rm", "go"}

(* A command as it is where it stands. *)
Shape(c) ==
  /\ c.at # "idle" => c.version \in Version
  /\ c.at = "extract" => c.todo \subseteq Stdlib[c.version]
  /\ c.at # "extract" => c.todo = {}
  /\ c.held # None <=> c.at \in {"agents", "claude", "gomod"}
  /\ c.at = "needs" => c.verb \in {"build", "run"}
  /\ c.at = "compare" => "--if-changed" \in c.flags
  /\ c.at = "modinit" => c.verb = "init"
  /\ c.at \in {"prompt", "rm"} => c.verb # "build"

AloneIsSo(p) == commands[p].alone => \A q \in Command \ {p} : commands[q].at = "idle"

(* A file that is open is being written, and only the cache is removed     *)
(* under a command that writes it.                                         *)
FileIsOpen(p) ==
  /\ fd[p] # NoFile => fd[p].path # None /\ WritesAt(commands[p], fd[p].path)
  /\ fd[p].linked => disk[fd[p].path] # None
  /\ fd[p] # NoFile /\ fd[p].path \notin Cache => fd[p].linked

Stands(p) == Shape(commands[p]) /\ AloneIsSo(p) /\ FileIsOpen(p)

Steps == \A p \in Command : Stands(p)

(* A file that a command writes is empty, unless others may be at it. *)
TornIfAlone ==
  \A p \in Command : commands[p].alone /\ fd[p].linked => disk[fd[p].path] = Torn

-----------------------------------------------------------------------------
(* The library.                                                            *)

Removes(p) == commands[p].at = "remove"
Extracting(p, v) == commands[p].at = "extract" /\ commands[p].version = v

(* Commands that run at once are of one version, and so is the file of the *)
(* cache that one of them has open, or what has come in its place.         *)
SameVersion ==
  "mixed" \notin cut =>
    /\ \A p, q \in Command : Running(p) /\ Running(q) => commands[p].version = commands[q].version
    /\ \A p \in Command : fd[p].path \in Cache =>
         disk[fd[p].path] \in {None, Torn, commands[p].version}

(* Command p will yet write f, into a file that has a name. *)
Brings(p, v, f) == Extracting(p, v) /\ f \in commands[p].todo /\ fd[p] # [path |-> f, linked |-> FALSE]

BringsStamp(p) == commands[p].at = "extract" /\ fd[p] # [path |-> Stamp, linked |-> FALSE]

(* A stamp vouches for the library, and so does the one that a command is  *)
(* going to write.                                                         *)
Vouched(v) ==
  \/ disk[Stamp] = v /\ \A p \in Command : ~AtCache(p)
  \/ \E p \in Command : Extracting(p, v)

Held(v, f) ==
  \/ \E p \in Command : Removes(p)
  \/ IF f \in Stdlib[v] THEN disk[f] = v \/ \E p \in Command : Brings(p, v, f)
                        ELSE disk[f] = None \/ "cache" \in cut

(* Without a stamp there are no files, or one is coming. *)
NoStampNoFiles ==
  disk[Stamp] = None /\ "cache" \notin cut =>
    \/ (\A p \in Command : ~AtCache(p)) /\ \A f \in LibFile : disk[f] = None
    \/ \E p \in Command : Removes(p) \/ BringsStamp(p)

LibraryHeld ==
  /\ \A v \in Version : Vouched(v) => \A f \in LibFile : Held(v, f)
  /\ NoStampNoFiles

LibraryInv == "stamped" \notin cut /\ "mixed" \notin cut => LibraryHeld

(* ensureStdlib has returned, or is about to. *)
Ensured(p) ==
  \/ commands[p].at \in {"readagents", "agents", "readclaude", "claude", "readmod", "gomod"}
  \/ commands[p].at = "go" /\ (scenario.imports \/ commands[p].verb = "init")

FitsInv ==
  \A p \in Command :
    Ensured(p) /\ commands[p].alone /\ "stamped" \notin cut /\ "mixed" \notin cut =>
      /\ Fits(commands[p].version)
      /\ commands[p].at = "go" => Whole(GoMod) /\ disk[GoMod].added = "stdlib"

-----------------------------------------------------------------------------
(* The text of the user.                                                   *)

(* The files that are written whole; brew only removes the source. *)
Noted == {GoMod, Agents, Claude}
Written == Noted \cup {GoFile}

(* Of a file that was not raced for there is one writer. *)
OneWriter ==
  \A f \in Written \ raced : \A p \in Command : Writes(p, f) =>
    disk[f] = Torn /\ \A q \in Command : Writes(q, f) => q = p

Latest(f) ==
  \/ disk[f] = None /\ texts[f] = 0
  \/ Whole(f) /\ disk[f].text = texts[f]

(* What a command holds of a file that it will write back is what the user *)
(* wrote last.                                                             *)
TextIsHeld ==
  "write" \notin cut => \A f \in Noted \ raced :
    /\ (\E p \in Command : Writes(p, f)) \/ Latest(f)
    /\ \A p \in Command : Holds(p, f) => commands[p].held = texts[f]

(* The source is his as long as it is there, so is what was compiled, and  *)
(* by the time it is removed the Go file was made of it.                   *)
SourceIsHis == disk[Source] # None => Whole(Source) /\ disk[Source].text = texts[Source]

SourceIsHeld ==
  Source \notin raced => \A p \in Command : commands[p].at \in FromSource =>
    commands[p].body = texts[Source]

SourceIsInGo ==
  /\ "write" \notin cut /\ Source \notin raced /\ GoFile \notin raced
  /\ disk[Source] = None \/ \E p \in Command : commands[p].at \in {"prompt", "rm"}
  => \/ \E p \in Command : Writes(p, GoFile)
     \/ Whole(GoFile) /\ disk[GoFile].of = texts[Source]

-----------------------------------------------------------------------------
(* What build has built.                                                   *)

Wrote(p) ==
  commands[p].at \in {"needs", "stamp", "remove", "extract", "readagents", "agents", "readclaude",
                      "claude", "readmod", "gomod", "go"}

Built(p) ==
  commands[p].alone /\ commands[p].verb = "build" =>
    /\ Wrote(p) => disk[GoFile] = Generated(p)
    /\ commands[p].at = "idle" /\ commands[p].exit = 0 =>
         disk[GoFile] = Generated(p) /\ (commands[p].flags = {} => binary = commands[p].body)

GoFileIsBuilt == \A p \in Command : Built(p)

-----------------------------------------------------------------------------
(* Types.                                                                  *)

(* The stamp, the library, the Go file and the user's files are different paths. *)
LEMMA PathFacts ==
  /\ Stamp \in Path /\ GoFile \in Path /\ UserFile \subseteq Path /\ LibFile \subseteq Path
  /\ Stamp \in Cache /\ LibFile \subseteq Cache /\ Cache \subseteq Path
  /\ GoFile \notin Cache /\ UserFile \cap Cache = {} /\ GoFile \notin UserFile
  /\ Stamp \notin LibFile /\ None \notin Path /\ None # Torn
BY FileAssumption DEF Path, Cache, UserFile, Stamp, GoFile, Source, GoMod, Agents, Claude

(* What a file holds when it is whole. *)
LEMMA ContentFacts ==
  /\ \A f \in Cache : Content(f) = Version
  /\ Content(GoFile) = [of : Int, by : Verbs]
  /\ \A f \in UserFile : Content(f) = [text : Int, added : Added]
  /\ \A f \in Path : Content(f) \subseteq Value /\ None \notin Content(f) /\ Torn \notin Content(f)
BY PathFacts, ToolchainAssumption DEF Content, Value

(* The user's files, one by one. *)
LEMMA UserFiles ==
  /\ Source \in UserFile /\ GoMod \in UserFile /\ Agents \in UserFile /\ Claude \in UserFile
  /\ {GoMod, Agents, Claude} \subseteq Path /\ Source \in Path
BY PathFacts DEF UserFile

(* A go.mod that was just made. *)
LEMMA NewMod ==
  LET mod == [text |-> 0, added |-> None]
  IN mod \in Content(GoMod) /\ mod # None /\ mod # Torn
<1>1. [text |-> 0, added |-> None] \in [text : Int, added : Added]
  BY DEF Added
<1>2. Content(GoMod) = [text : Int, added : Added]
  BY UserFiles, ContentFacts
<1>3. None \notin Content(GoMod) /\ Torn \notin Content(GoMod)
  BY UserFiles, ContentFacts
<1> QED
  BY <1>1, <1>2, <1>3

(* A command that does not run is a process. *)
LEMMA IdleType == Idle \in Process
BY DEF Idle, Process, Places, Verbs, Flags

(* Changing a file to one of its contents keeps the disk's type. *)
LEMMA DiskType ==
  ASSUME TypeOK, NEW f \in Path, NEW x \in Content(f) \cup {None, Torn}
  PROVE  LET d == [disk EXCEPT ![f] = x]
         IN d \in [Path -> Value] /\ \A g \in Path : d[g] \in Content(g) \cup {None, Torn}
BY ContentFacts DEF TypeOK, Value

(* No command runs at the start, and the user's files are there or not. *)
LEMMA InitTypeOK == Init => TypeOK
<1> SUFFICES ASSUME Init PROVE TypeOK
  OBVIOUS
<1>1. PICK present : disk = [f \in Path |-> IF f = Source \/ f \in present
                                           THEN [text |-> 0, added |-> None] ELSE None]
             /\ present \subseteq UserFile
  BY DEF Init, UserFile
<1>2. \A f \in Path : disk[f] \in Content(f) \cup {None, Torn}
  <2>1. [text |-> 0, added |-> None] \in [text : Int, added : Added]
    BY DEF Added
  <2>2. \A f \in Path : disk[f] = None \/ (f \in UserFile /\ disk[f] = [text |-> 0, added |-> None])
    BY <1>1 DEF UserFile
  <2> QED
    BY <2>1, <2>2, ContentFacts
<1>3. disk \in [Path -> Value]
  BY <1>1, <1>2, ContentFacts DEF Value
<1>4. commands \in [Command -> Process]
  BY IdleType DEF Init
<1>5. fd \in [Command -> Open]
  BY DEF Init, Open, NoFile
<1> QED
  BY <1>2, <1>3, <1>4, <1>5 DEF Init, TypeOK

(* A command that goes on keeps the types: as any process, *)
LEMMA BecomesType ==
  ASSUME TypeOK, NEW p \in Command, NEW c \in Process, Becomes(p, c)
  PROVE  commands' \in [Command -> Process]
BY DEF TypeOK, Becomes

(* to another place with a text or without, *)
LEMMA GoesType ==
  ASSUME TypeOK, NEW p \in Command, NEW place \in Places, NEW text \in Int \cup {None},
         Goes(p, place) \/ Takes(p, place, text)
  PROVE  commands' \in [Command -> Process]
<1>1. commands[p] \in Process
  BY DEF TypeOK
<1>2. [commands[p] EXCEPT !.at = place] \in Process
  BY <1>1 DEF Process
<1>3. [commands[p] EXCEPT !.at = place, !.held = text] \in Process
  BY <1>1 DEF Process
<1> QED
  BY <1>2, <1>3, BecomesType DEF Goes, Takes

(* past a library file, *)
LEMMA DoneType ==
  ASSUME TypeOK, NEW p \in Command, NEW f, Done(p, f)
  PROVE  commands' \in [Command -> Process]
<1>1. [commands[p] EXCEPT !.todo = @ \ {f}] \in Process
  BY DEF TypeOK, Process
<1> QED
  BY <1>1, BecomesType DEF Done

(* to its end, *)
LEMMA ExitsType ==
  ASSUME TypeOK, NEW p \in Command, NEW code \in {None, 0, 1}, Exits(p, code)
  PROVE  commands' \in [Command -> Process]
<1>1. commands[p] \in Process
  BY DEF TypeOK
<1>2. [commands[p] EXCEPT !.at = "idle", !.exit = code, !.todo = {}, !.held = None] \in Process
  BY <1>1 DEF Process, Places
<1> QED
  BY <1>2, BecomesType DEF Exits

(* or to the extraction of its library. *)
LEMMA ExtractsType ==
  ASSUME TypeOK, NEW p \in Command, commands[p].version \in Version, Extracts(p)
  PROVE  commands' \in [Command -> Process]
<1>1. commands[p] \in Process /\ Stdlib[commands[p].version] \in SUBSET LibFile
  BY ToolchainAssumption DEF TypeOK
<1>2. [commands[p] EXCEPT !.at = "extract", !.todo = Stdlib[commands[p].version]] \in Process
  BY <1>1 DEF Process, Places
<1> QED
  BY <1>2, BecomesType DEF Extracts

(* The files keep their types, and raced and fd, whoever writes what. *)
FilesType ==
  /\ disk' \in [Path -> Value] /\ \A f \in Path : disk'[f] \in Content(f) \cup {None, Torn}
  /\ fd' \in [Command -> Open]
  /\ raced' \subseteq Path

(* The files on which commands met are paths. *)
LEMMA MeetsType ==
  ASSUME TypeOK, NEW p \in Command, NEW f \in Path, Meets(p, f)
  PROVE  raced' \subseteq Path
BY DEF TypeOK, Meets

(* Both halves of os.WriteFile keep the types of the disk. *)
LEMMA WritesType ==
  ASSUME TypeOK, NEW p \in Command, NEW f \in Path, NEW content \in Content(f),
         Truncate(p, f) \/ Fill(p, f, content)
  PROVE  FilesType
<1>1. CASE Truncate(p, f)
  <2>1. raced' \subseteq Path
    BY <1>1, MeetsType DEF Truncate
  <2>2. fd' \in [Command -> Open]
    BY <1>1 DEF Truncate, TypeOK, Open
  <2> QED
    BY <1>1, <2>1, <2>2, DiskType DEF Truncate, FilesType
<1>2. CASE Fill(p, f, content)
  <2>1. fd' \in [Command -> Open]
    BY <1>2 DEF Fill, TypeOK, Open, NoFile
  <2>2. \/ disk' = [disk EXCEPT ![f] = content] \/ disk' = [disk EXCEPT ![f] = Torn]
        \/ disk' = disk
    BY <1>2 DEF Fill
  <2>3. disk' \in [Path -> Value] /\ \A g \in Path : disk'[g] \in Content(g) \cup {None, Torn}
    BY <2>2, DiskType DEF TypeOK
  <2> QED
    BY <1>2, <2>1, <2>3 DEF Fill, FilesType, TypeOK
<1> QED
  BY <1>1, <1>2

(* So does removing a file. *)
LEMMA RemoveType ==
  ASSUME TypeOK, NEW f \in Path, Remove(f), UNCHANGED raced
  PROVE  FilesType
<1>1. fd' \in [Command -> Open]
  BY DEF Remove, TypeOK, Open
<1> QED
  BY <1>1, DiskType DEF Remove, FilesType, TypeOK

(* A text of the user's that was read is a text. *)
LEMMA ReadType ==
  ASSUME TypeOK, NEW f \in UserFile
  PROVE  Read(f).text \in Int
<1>1. CASE Whole(f)
  <2>1. disk[f] \in [text : Int, added : Added]
    BY <1>1, PathFacts, ContentFacts DEF TypeOK, Whole
  <2> QED
    BY <1>1, <2>1 DEF Read
<1>2. CASE ~Whole(f)
  BY <1>2 DEF Read, NoText
<1> QED
  BY <1>1, <1>2

(* What starts, and how. *)
StartsAs(p, verb, flags, v) ==
  /\ \E alone \in BOOLEAN :
       /\ alone <=> \A q \in Command \ {p} : commands[q].at = "idle"
       /\ commands' = [q \in Command |-> IF q # p THEN [commands[q] EXCEPT !.alone = FALSE]
                                       ELSE Started(verb, flags, v, alone)]
  /\ cut' = cut \/ cut' = cut \cup {"mixed"}
  /\ "mixed" \notin cut' => \A q \in Command \ {p} : commands[q].at # "idle" => commands[q].version = v

(* A command starts with a verb, flags and a version of its scenario. *)
LEMMA StartFacts ==
  ASSUME NEW p \in Command, Start(p)
  PROVE  \E verb \in scenario.verbs, v \in scenario.versions :
         \E flags \in SUBSET (scenario.flags \cap FlagsOf(verb)) : StartsAs(p, verb, flags, v)
<1> DEFINE others == {q \in Command \ {p} : Running(q)}
<1>1. PICK verb \in scenario.verbs, v \in scenario.versions :
        \E flags \in SUBSET (scenario.flags \cap FlagsOf(verb)) :
          /\ commands' = [q \in Command |-> IF q # p THEN [commands[q] EXCEPT !.alone = FALSE]
                                          ELSE Started(verb, flags, v, others = {})]
          /\ cut' = cut \cup {c \in {"mixed"} : \E q \in others : commands[q].version # v}
  BY DEF Start
<1>2. PICK flags \in SUBSET (scenario.flags \cap FlagsOf(verb)) :
          /\ commands' = [q \in Command |-> IF q # p THEN [commands[q] EXCEPT !.alone = FALSE]
                                          ELSE Started(verb, flags, v, others = {})]
          /\ cut' = cut \cup {c \in {"mixed"} : \E q \in others : commands[q].version # v}
  BY <1>1
<1>3. (others = {}) \in BOOLEAN
  OBVIOUS
<1>4. others = {} <=> \A q \in Command \ {p} : commands[q].at = "idle"
  BY DEF Running
<1>5. (\E q \in others : commands[q].version # v)
      \/ \A q \in Command \ {p} : commands[q].at # "idle" => commands[q].version = v
  BY DEF Running
<1>6. cut' = cut \/ cut' = cut \cup {"mixed"}
  BY <1>2
<1>7. "mixed" \notin cut' => \A q \in Command \ {p} : commands[q].at # "idle" => commands[q].version = v
  BY <1>2, <1>5
<1> HIDE DEF others
<1>8. StartsAs(p, verb, flags, v)
  BY <1>2, <1>3, <1>4, <1>6, <1>7 DEF StartsAs
<1> QED
  BY <1>8

(* Every step keeps the types. *)
LEMMA TypesPreserved == TypeOK /\ Steps /\ [Next]_vars => TypeOK'
<1> SUFFICES ASSUME TypeOK, Steps, [Next]_vars PROVE TypeOK'
  OBVIOUS
<1> USE DEF Bounds, Step, NoFiles, fileVars
<1>1. ASSUME UNCHANGED <<disk, fd, raced>> PROVE FilesType
  BY <1>1 DEF TypeOK, FilesType
<1>2. ASSUME Step, commands' \in [Command -> Process], FilesType PROVE TypeOK'
  BY <1>2 DEF TypeOK, FilesType
<1>3. ASSUME NEW p \in Command, NEW f \in Path, NEW content \in Content(f),
             Truncate(p, f) \/ Fill(p, f, content), Step, commands' \in [Command -> Process]
      PROVE  TypeOK'
  BY <1>2, <1>3, WritesType
<1>4. ASSUME NEW p \in Command
      PROVE  /\ commands[p] \in Process
             /\ commands[p].at # "idle" => commands[p].version \in Version
             /\ commands[p].todo \subseteq LibFile
  BY DEF TypeOK, Process, Steps, Stands, Shape
<1>5. /\ commands \in [Command -> Process] /\ disk \in [Path -> Value]
      /\ \A f \in Path : disk[f] \in Content(f) \cup {None, Torn}
  BY DEF TypeOK
<1>6. ASSUME NEW f \in UserFile, NEW text \in Int
      PROVE  LET d == [disk EXCEPT ![f] = [text |-> text, added |-> None]]
             IN d \in [Path -> Value] /\ \A g \in Path : d[g] \in Content(g) \cup {None, Torn}
  <2>1. f \in Path /\ [text |-> text, added |-> None] \in Content(f)
    BY PathFacts, ContentFacts DEF Added
  <2> QED
    BY <2>1, DiskType
<1>7. GoMod \in UserFile /\ Agents \in UserFile /\ Claude \in UserFile /\ Source \in UserFile
  BY DEF UserFile
<1>8. ASSUME NEW p \in Command, Start(p) PROVE TypeOK'
  <2>1. PICK verb \in scenario.verbs, v \in scenario.versions :
          \E flags \in SUBSET (scenario.flags \cap FlagsOf(verb)) : StartsAs(p, verb, flags, v)
    BY <1>8, StartFacts
  <2>2. PICK flags \in SUBSET (scenario.flags \cap FlagsOf(verb)) : StartsAs(p, verb, flags, v)
    BY <2>1
  <2>3. verb \in Verbs /\ v \in Version /\ flags \in SUBSET Flags
    BY ToolchainAssumption DEF TypeOK
  <2>4. Started(verb, flags, v, FALSE) \in Process /\ Started(verb, flags, v, TRUE) \in Process
    BY <2>3, IdleType DEF Process, Places, Started
  <2>5. \A q \in Command : [commands[q] EXCEPT !.alone = FALSE] \in Process
    BY <1>5 DEF Process
  <2>6. commands' \in [Command -> Process]
    <3>1. PICK alone \in BOOLEAN :
            commands' = [q \in Command |-> IF q # p THEN [commands[q] EXCEPT !.alone = FALSE]
                                           ELSE Started(verb, flags, v, alone)]
      BY <2>2 DEF StartsAs
    <3>2. Started(verb, flags, v, alone) \in Process
      BY <2>4
    <3> QED
      BY <3>1, <3>2, <2>5
  <2>7. cut' \subseteq {"cache", "stamped", "write", "mixed"}
    BY <2>2 DEF StartsAs, TypeOK
  <2> QED
    BY <1>1, <1>8, <2>6, <2>7 DEF Start, TypeOK, FilesType
<1>9. ASSUME NEW p \in Command, ModInit(p) PROVE TypeOK'
  <2>1. commands' \in [Command -> Process]
    BY <1>9, GoesType DEF ModInit, Places
  <2>2. disk' \in [Path -> Value] /\ \A g \in Path : disk'[g] \in Content(g) \cup {None, Torn}
    BY <1>5, <1>6, <1>7, <1>9 DEF ModInit
  <2> QED
    BY <1>9, <2>1, <2>2 DEF ModInit, TypeOK
<1>10. ASSUME NEW p \in Command, Compile(p) PROVE TypeOK'
  <2>1. disk[Source].text \in Int /\ Compiled(commands[p]) \in Places
    BY <1>7, <1>10, ReadType DEF Compile, Read, Compiled, Places
  <2>2. [commands[p] EXCEPT !.body = disk[Source].text, !.at = Compiled(commands[p])] \in Process
    BY <1>4, <2>1 DEF Process
  <2> QED
    BY <1>1, <1>2, <1>10, <2>2, BecomesType DEF Compile
<1>11. ASSUME NEW p \in Command, Compare(p) \/ Prompt(p) \/ Needs(p) PROVE TypeOK'
  BY <1>1, <1>2, <1>11, GoesType, ExitsType DEF Compare, Prompt, Needs, Places
<1>12. ASSUME NEW p \in Command, WriteGoFile(p) PROVE TypeOK'
  <2>1. Generated(p) \in Content(GoFile)
    BY <1>4, ContentFacts DEF Generated, Process
  <2>2. commands' \in [Command -> Process]
    BY <1>5, <1>12, GoesType, ExitsType DEF WriteGoFile, Write, Generates, Places
  <2> QED
    BY <1>3, <1>12, <2>1, <2>2, PathFacts DEF WriteGoFile, Write
<1>13. ASSUME NEW p \in Command, RemoveSource(p) PROVE TypeOK'
  <2>1. FilesType
    BY <1>1, <1>7, <1>13, RemoveType, PathFacts DEF RemoveSource
  <2> QED
    BY <1>2, <1>13, <2>1, ExitsType DEF RemoveSource
<1>14. ASSUME NEW p \in Command, ReadStamp(p) PROVE TypeOK'
  <2>1. commands' \in [Command -> Process]
    BY <1>4, <1>14, GoesType, ExtractsType DEF ReadStamp, At, Places
  <2> QED
    BY <1>1, <1>2, <1>14, <2>1 DEF ReadStamp
<1>15. ASSUME NEW p \in Command, MissStamp(p) PROVE TypeOK'
  <2>1. commands' \in [Command -> Process]
    BY <1>4, <1>15, ExtractsType DEF MissStamp, At
  <2> QED
    BY <1>15, <2>1 DEF MissStamp, TypeOK
<1>16. ASSUME NEW p \in Command, RemoveAll(p) PROVE TypeOK'
  <2>1. commands' \in [Command -> Process]
    BY <1>4, <1>5, <1>16, ExtractsType DEF RemoveAll, At
  <2>2. FilesType
    BY <1>1, <1>16, RemoveType, PathFacts DEF RemoveAll
  <2> QED
    BY <1>2, <1>16, <2>1, <2>2 DEF RemoveAll
<1>17. ASSUME NEW p \in Command, Extract(p) PROVE TypeOK'
  <2>1. PICK f \in commands[p].todo : Write(p, f, commands[p].version, Done(p, f))
    BY <1>17 DEF Extract
  <2>2. f \in Path /\ commands[p].version \in Content(f)
    BY <1>4, <1>17, PathFacts, ContentFacts DEF Extract, At
  <2>3. commands' \in [Command -> Process]
    BY <1>5, <2>1, DoneType DEF Write
  <2> QED
    BY <1>3, <2>1, <2>2, <2>3 DEF Write
<1>18. ASSUME NEW p \in Command, WriteStamp(p) PROVE TypeOK'
  <2>1. commands[p].version \in Content(Stamp)
    BY <1>4, <1>18, PathFacts, ContentFacts DEF WriteStamp, At
  <2>2. commands' \in [Command -> Process]
    BY <1>5, <1>18, GoesType DEF WriteStamp, Write, Places
  <2> QED
    BY <1>3, <1>18, <2>1, <2>2, PathFacts DEF WriteStamp, Write
<1>19. ASSUME NEW p \in Command, ReadAgents(p) PROVE TypeOK'
  <2>1. commands' \in [Command -> Process]
    BY <1>7, <1>19, GoesType, ReadType DEF ReadAgents, Places
  <2> QED
    BY <1>7, <1>19, <2>1, MeetsType, PathFacts DEF ReadAgents, TypeOK
<1>20. ASSUME NEW p \in Command, ReadClaude(p) PROVE TypeOK'
  <2>1. commands' \in [Command -> Process]
    BY <1>7, <1>20, GoesType, ReadType DEF ReadClaude, Places
  <2>2. raced' \subseteq Path
    BY <1>7, <1>20, MeetsType, PathFacts DEF ReadClaude, TypeOK
  <2> QED
    BY <1>20, <2>1, <2>2 DEF ReadClaude, TypeOK
<1>21. ASSUME NEW p \in Command, WriteAgents(p) \/ WriteClaude(p) \/ WriteGoMod(p) PROVE TypeOK'
  <2>1. commands[p].held \in Int
    BY <1>4, <1>21 DEF WriteAgents, WriteClaude, WriteGoMod, At, Steps, Stands, Shape, Process
  <2>2. commands[p].version \in Version
    BY <1>4, <1>21 DEF WriteAgents, WriteClaude, WriteGoMod, At
  <2>3. /\ [text |-> commands[p].held, added |-> commands[p].version] \in Content(Agents)
        /\ [text |-> commands[p].held, added |-> Agents] \in Content(Claude)
        /\ [text |-> commands[p].held, added |-> "stdlib"] \in Content(GoMod)
    BY <1>7, <2>1, <2>2, ContentFacts DEF Added
  <2>4. commands' \in [Command -> Process]
    BY <1>5, <1>21, GoesType DEF WriteAgents, WriteClaude, WriteGoMod, Write, Places
  <2> QED
    BY <1>3, <1>7, <1>21, <2>3, <2>4, PathFacts DEF WriteAgents, WriteClaude, WriteGoMod, Write
<1>22. ASSUME NEW p \in Command, ReadGoMod(p) PROVE TypeOK'
  <2>1. CASE disk[GoMod] = None
    BY <1>6, <1>7, <1>22, <2>1 DEF ReadGoMod, TypeOK
  <2>2. CASE disk[GoMod] # None
    <3>1. commands' \in [Command -> Process]
      BY <1>7, <1>22, <2>2, GoesType, ReadType DEF ReadGoMod, Places
    <3>2. raced' \subseteq Path
      BY <1>7, <1>22, <2>2, MeetsType, PathFacts DEF ReadGoMod
    <3> QED
      BY <1>22, <2>2, <3>1, <3>2 DEF ReadGoMod, TypeOK
  <2> QED
    BY <2>1, <2>2
<1>23. ASSUME NEW p \in Command, Go(p) PROVE TypeOK'
  <2>1. Whole(GoFile) => disk[GoFile].of \in Int
    <3>1. ASSUME Whole(GoFile) PROVE disk[GoFile] \in [of : Int, by : Verbs]
      BY <1>5, <3>1, PathFacts, ContentFacts DEF Whole
    <3> QED
      BY <3>1
  <2>2. commands' \in [Command -> Process]
    BY <1>23, ExitsType DEF Go
  <2> QED
    BY <1>23, <2>1, <2>2 DEF Go, TypeOK
<1>24. ASSUME NEW p \in Command, Stop(p) PROVE TypeOK'
  <2>1. commands' \in [Command -> Process]
    BY <1>24, ExitsType DEF Stop
  <2>2. fd' \in [Command -> Open]
    BY <1>24 DEF Stop, TypeOK, Open, NoFile
  <2>3. cut' \subseteq {"cache", "stamped", "write", "mixed"}
    BY <1>24 DEF Stop, TypeOK
  <2> QED
    BY <1>24, <2>1, <2>2, <2>3 DEF Stop, TypeOK
<1>25. CASE Edit
  <2>1. PICK f \in scenario.edited :
          /\ Whole(f) /\ texts' = [texts EXCEPT ![f] = texts[f] + 1]
          /\ disk' = [disk EXCEPT ![f].text = texts[f] + 1]
          /\ raced' = raced \/ raced' = raced \cup {f}
    BY <1>25 DEF Edit
  <2>2. f \in UserFile /\ f \in Path /\ texts[f] \in Nat
    BY ToolchainAssumption, PathFacts DEF TypeOK
  <2>3. disk[f] \in [text : Int, added : Added]
    BY <1>5, <2>1, <2>2, ContentFacts DEF Whole
  <2>4. [disk[f] EXCEPT !.text = texts[f] + 1] \in Content(f)
    <3>1. [disk[f] EXCEPT !.text = texts[f] + 1] \in [text : Int, added : Added]
      BY <2>2, <2>3
    <3> QED
      BY <2>2, <3>1, ContentFacts
  <2>5. disk' \in [Path -> Value] /\ \A g \in Path : disk'[g] \in Content(g) \cup {None, Torn}
    BY <2>1, <2>2, <2>4, DiskType
  <2> QED
    BY <1>25, <2>1, <2>2, <2>5 DEF Edit, TypeOK
<1>26. CASE UNCHANGED vars
  BY <1>26 DEF vars, TypeOK
<1> QED
  BY <1>8, <1>9, <1>10, <1>11, <1>12, <1>13, <1>14, <1>15, <1>16, <1>17, <1>18, <1>19, <1>20,
     <1>21, <1>22, <1>23, <1>24, <1>25, <1>26
     DEF Next, Runs, EnsureStdlib, EnsureGoMod
-----------------------------------------------------------------------------
(* Where the commands stand.                                               *)

(* Command p goes on, and no other does. *)
GoesOn(p) ==
  /\ \A q \in Command \ {p} : commands'[q] = commands[q]
  /\ commands[p].at # "idle"
  /\ Shape(commands'[p])
  /\ commands'[p].version = commands[p].version /\ commands'[p].verb = commands[p].verb
  /\ commands'[p].flags = commands[p].flags /\ commands'[p].alone = commands[p].alone
  /\ commands[p].at # "compile" => commands'[p].body = commands[p].body
  /\ commands'[p].at = "idle" => commands[p].at \in Ending \/ commands'[p].exit = 1
  /\ commands'[p].at \in {"remove", "extract"} => commands[p].at \in AtLibrary
  /\ commands'[p].at \in Holding => commands[p].at \in Holding \cup Reading
  /\ commands'[p].at \in FromSource => commands[p].at \in FromSource \cup {"compile"}

(* A process that goes on as its shape allows, with the verb, flags and version it had, goes on.
   *)
LEMMA BecomesGoesOn ==
  ASSUME TypeOK, NEW p \in Command, commands[p].at # "idle", NEW c, Becomes(p, c), Shape(c),
         c.version = commands[p].version, c.verb = commands[p].verb,
         c.flags = commands[p].flags, c.alone = commands[p].alone,
         commands[p].at # "compile" => c.body = commands[p].body,
         c.at = "idle" => commands[p].at \in Ending \/ c.exit = 1,
         c.at \in {"remove", "extract"} => commands[p].at \in AtLibrary,
         c.at \in Holding => commands[p].at \in Holding \cup Reading,
         c.at \in FromSource => commands[p].at \in FromSource \cup {"compile"}
  PROVE  GoesOn(p)
BY DEF TypeOK, Becomes, GoesOn

(* A command that waits goes on. *)
LEMMA StaysGoesOn ==
  ASSUME Steps, NEW p \in Command, commands[p].at # "idle", UNCHANGED commands
  PROVE  GoesOn(p)
BY DEF Steps, Stands, GoesOn, AtLibrary

(* So does one that moves to a place without a text, *)
LEMMA GoesGoesOn ==
  ASSUME TypeOK, Steps, NEW p \in Command, commands[p].at # "idle", NEW place, Goes(p, place),
         place \notin Holding \cup {"extract", "idle"}, commands[p].held = None, commands[p].todo = {},
         place = "needs" => commands[p].verb \in {"build", "run"},
         place = "compare" => "--if-changed" \in commands[p].flags,
         place # "modinit", place \in {"prompt", "rm"} => commands[p].verb # "build",
         place \in FromSource => commands[p].at \in FromSource,
         place = "remove" => commands[p].at = "stamp"
  PROVE  GoesOn(p)
<1> DEFINE c == [commands[p] EXCEPT !.at = place]
<1>1. commands[p] \in Process /\ Shape(commands[p])
  BY DEF TypeOK, Steps, Stands
<1>2. /\ c.at = place /\ c.todo = {} /\ c.held = None
      /\ c.version = commands[p].version /\ c.verb = commands[p].verb
      /\ c.flags = commands[p].flags /\ c.alone = commands[p].alone /\ c.body = commands[p].body
  BY <1>1 DEF Process
<1>3. Becomes(p, c)
  BY DEF Goes
<1> HIDE DEF c
<1>4. Shape(c)
  BY <1>1, <1>2 DEF Shape, Holding
<1> QED
  BY <1>2, <1>3, <1>4, BecomesGoesOn DEF AtLibrary

(* one that ends, *)
LEMMA ExitsGoesOn ==
  ASSUME TypeOK, Steps, NEW p \in Command, commands[p].at # "idle", NEW code, Exits(p, code),
         commands[p].at \in Ending \/ code = 1
  PROVE  GoesOn(p) /\ commands'[p].at = "idle" /\ commands'[p].exit = code
<1> DEFINE c == [commands[p] EXCEPT !.at = "idle", !.exit = code, !.todo = {}, !.held = None]
<1>1. commands[p] \in Process
  BY DEF TypeOK
<1>2. /\ c.at = "idle" /\ c.todo = {} /\ c.held = None /\ c.exit = code
      /\ c.version = commands[p].version /\ c.verb = commands[p].verb
      /\ c.flags = commands[p].flags /\ c.alone = commands[p].alone /\ c.body = commands[p].body
  BY <1>1 DEF Process
<1>3. Becomes(p, c)
  BY DEF Exits
<1> HIDE DEF c
<1>4. Shape(c)
  BY <1>2 DEF Shape
<1>5. commands'[p] = c
  BY <1>3 DEF TypeOK, Becomes
<1> QED
  BY <1>2, <1>3, <1>4, <1>5, BecomesGoesOn DEF Holding, FromSource, AtLibrary

(* one that takes a text along, *)
LEMMA TakesGoesOn ==
  ASSUME TypeOK, Steps, NEW p \in Command, commands[p].at # "idle", NEW place, NEW text,
         Takes(p, place, text), commands[p].todo = {},
         place \in Holding \cup {"readclaude", "readmod", "go"},
         text # None <=> place \in Holding, place \in Holding => commands[p].at \in Reading
  PROVE  GoesOn(p)
<1> DEFINE c == [commands[p] EXCEPT !.at = place, !.held = text]
<1>1. commands[p] \in Process /\ Shape(commands[p])
  BY DEF TypeOK, Steps, Stands
<1>2. /\ c.at = place /\ c.todo = {} /\ c.held = text
      /\ c.version = commands[p].version /\ c.verb = commands[p].verb
      /\ c.flags = commands[p].flags /\ c.alone = commands[p].alone /\ c.body = commands[p].body
  BY <1>1 DEF Process
<1>3. Becomes(p, c)
  BY DEF Takes
<1> HIDE DEF c
<1>4. Shape(c) /\ place \notin {"idle", "remove", "extract"} /\ place \notin FromSource
  BY <1>1, <1>2 DEF Shape, Holding, FromSource
<1> QED
  BY <1>2, <1>3, <1>4, BecomesGoesOn

(* one that begins to extract the library, *)
LEMMA ExtractsGoesOn ==
  ASSUME TypeOK, Steps, NEW p \in Command, commands[p].at \in {"stamp", "remove"}, Extracts(p)
  PROVE  /\ GoesOn(p) /\ commands'[p].at = "extract"
         /\ commands'[p].todo = Stdlib[commands[p].version]
<1> DEFINE c == [commands[p] EXCEPT !.at = "extract", !.todo = Stdlib[commands[p].version]]
<1>1. commands[p] \in Process /\ Shape(commands[p])
  BY DEF TypeOK, Steps, Stands
<1>2. /\ c.at = "extract" /\ c.todo = Stdlib[commands[p].version] /\ c.held = commands[p].held
      /\ c.version = commands[p].version /\ c.verb = commands[p].verb
      /\ c.flags = commands[p].flags /\ c.alone = commands[p].alone /\ c.body = commands[p].body
  BY <1>1 DEF Process
<1>3. Becomes(p, c)
  BY DEF Extracts
<1> HIDE DEF c
<1>4. Shape(c)
  BY <1>1, <1>2 DEF Shape
<1>5. commands'[p] = c
  BY <1>3 DEF TypeOK, Becomes
<1> QED
  BY <1>2, <1>3, <1>4, <1>5, BecomesGoesOn DEF Holding, FromSource, AtLibrary

(* and one that has extracted a file. *)
LEMMA DoneGoesOn ==
  ASSUME TypeOK, Steps, NEW p \in Command, commands[p].at = "extract", NEW f, Done(p, f)
  PROVE  /\ GoesOn(p) /\ commands'[p].at = "extract" /\ commands'[p].todo = commands[p].todo \ {f}
<1> DEFINE c == [commands[p] EXCEPT !.todo = @ \ {f}]
<1>1. commands[p] \in Process /\ Shape(commands[p])
  BY DEF TypeOK, Steps, Stands
<1>2. /\ c.at = "extract" /\ c.todo = commands[p].todo \ {f} /\ c.held = commands[p].held
      /\ c.version = commands[p].version /\ c.verb = commands[p].verb
      /\ c.flags = commands[p].flags /\ c.alone = commands[p].alone /\ c.body = commands[p].body
  BY <1>1 DEF Process
<1>3. Becomes(p, c)
  BY DEF Done
<1> HIDE DEF c
<1>4. Shape(c)
  BY <1>1, <1>2 DEF Shape
<1>5. commands'[p] = c
  BY <1>3 DEF TypeOK, Becomes
<1> QED
  BY <1>2, <1>3, <1>4, <1>5, BecomesGoesOn DEF Holding, FromSource, AtLibrary

(* Every step of a command is one of these. *)
LEMMA RunGoesOn ==
  ASSUME TypeOK, Steps, NEW p \in Command, Runs(p) \/ Stop(p)
  PROVE  GoesOn(p)
<1> DEFINE c == commands[p]
<1>1. Shape(c) /\ c \in Process
  BY DEF TypeOK, Steps, Stands
<1>3. ASSUME c.at \notin Holding \cup {"extract"}
      PROVE  c.held = None /\ c.todo = {}
  BY <1>1, <1>3 DEF Shape, Holding
<1>4. ASSUME ModInit(p) PROVE GoesOn(p)
  BY <1>3, <1>4, GoesGoesOn DEF ModInit, At, Holding, FromSource
<1>5. ASSUME Compile(p) PROVE GoesOn(p)
  <2> DEFINE d == [commands[p] EXCEPT !.body = disk[Source].text, !.at = Compiled(commands[p])]
  <2>1. c.held = None /\ c.todo = {} /\ c.version \in Version /\ c.at = "compile"
    BY <1>1, <1>3, <1>5 DEF Compile, At, Holding, Shape
  <2>2. /\ d.at = Compiled(c) /\ d.todo = {} /\ d.held = None /\ d.version = c.version
        /\ d.verb = c.verb /\ d.flags = c.flags /\ d.alone = c.alone
    BY <1>1, <2>1 DEF Process
  <2>3. Becomes(p, d)
    BY <1>5 DEF Compile
  <2> HIDE DEF d
  <2>4. Shape(d) /\ d.at # "idle" /\ d.at \notin Holding \cup {"remove", "extract"}
    BY <2>1, <2>2 DEF Shape, Compiled, Holding
  <2> QED
    BY <2>1, <2>2, <2>3, <2>4, BecomesGoesOn
<1>6. ASSUME Compare(p) PROVE GoesOn(p)
  BY <1>3, <1>6, GoesGoesOn, ExitsGoesOn DEF Compare, At, Holding, FromSource, Ending
<1>7. ASSUME WriteGoFile(p) PROVE GoesOn(p)
  <2>1. c.at = "gofile" /\ c.held = None /\ c.todo = {}
    BY <1>3, <1>7 DEF WriteGoFile, At, Holding
  <2>2. ASSUME Goes(p, "prompt"), c.verb # "build" PROVE GoesOn(p)
    BY <2>1, <2>2, GoesGoesOn DEF Holding, FromSource
  <2>3. ASSUME Goes(p, "needs"), c.verb = "build" PROVE GoesOn(p)
    BY <2>1, <2>3, GoesGoesOn DEF Holding, FromSource
  <2>4. UNCHANGED commands \/ Generates(p)
    BY <1>7 DEF WriteGoFile, Write
  <2>5. ASSUME Generates(p) PROVE GoesOn(p)
    BY <2>1, <2>2, <2>3, <2>5, ExitsGoesOn DEF Generates, Ending
  <2> QED
    BY <2>1, <2>4, <2>5, StaysGoesOn
<1>8. ASSUME Prompt(p) PROVE GoesOn(p)
  <2>1. c.at = "prompt" /\ c.held = None /\ c.todo = {} /\ c.verb # "build"
    BY <1>1, <1>3, <1>8 DEF Prompt, At, Holding, Shape
  <2> QED
    BY <1>8, <2>1, GoesGoesOn, ExitsGoesOn DEF Prompt, Holding, FromSource, Ending
<1>9. ASSUME RemoveSource(p) \/ Go(p) \/ Stop(p) PROVE GoesOn(p)
  BY <1>9, ExitsGoesOn DEF RemoveSource, Go, Stop, At, Running, Ending
<1>10. ASSUME Needs(p) PROVE GoesOn(p)
  BY <1>3, <1>10, GoesGoesOn DEF Needs, At, Holding, FromSource
<1>11. ASSUME ReadStamp(p) PROVE GoesOn(p)
  <2>1. c.at = "stamp" /\ c.held = None /\ c.todo = {}
    BY <1>3, <1>11 DEF ReadStamp, At, Holding
  <2>2. ASSUME NEW place \in {"readmod", "remove"}, Goes(p, place) PROVE GoesOn(p)
    BY <2>1, <2>2, GoesGoesOn DEF Holding, FromSource
  <2> QED
    BY <1>11, <2>1, <2>2, ExtractsGoesOn DEF ReadStamp
<1>12. ASSUME MissStamp(p) PROVE GoesOn(p)
  BY <1>12, ExtractsGoesOn DEF MissStamp, At
<1>13. ASSUME RemoveAll(p) PROVE GoesOn(p)
  BY <1>13, StaysGoesOn, ExtractsGoesOn DEF RemoveAll, At
<1>14. ASSUME Extract(p) PROVE GoesOn(p)
  <2>1. PICK f \in c.todo : Write(p, f, c.version, Done(p, f))
    BY <1>14 DEF Extract
  <2> QED
    BY <1>14, <2>1, StaysGoesOn, DoneGoesOn DEF Extract, At, Write
<1>15. ASSUME WriteStamp(p) PROVE GoesOn(p)
  <2>1. c.at = "extract" /\ c.held = None /\ c.todo = {}
    BY <1>1, <1>15 DEF WriteStamp, At, Shape
  <2>2. ASSUME Goes(p, "readagents") PROVE GoesOn(p)
    BY <2>1, <2>2, GoesGoesOn DEF Holding, FromSource
  <2> QED
    BY <1>15, <2>1, <2>2, StaysGoesOn DEF WriteStamp, Write
<1>16. ASSUME ReadAgents(p) PROVE GoesOn(p)
  <2> DEFINE text == IF disk[Agents] = None THEN 0 ELSE Read(Agents).text
  <2>1. text # None
    BY ReadType, ToolchainAssumption DEF UserFile
  <2>2. Takes(p, "agents", text) /\ c.at = "readagents"
    BY <1>16 DEF ReadAgents, At
  <2>3. c.todo = {}
    BY <1>1, <2>2 DEF Shape
  <2> HIDE DEF text
  <2> QED
    BY <2>1, <2>2, <2>3, TakesGoesOn DEF Holding, Reading
<1>17. ASSUME NEW place \in {"readclaude", "readmod", "go"}, Takes(p, place, None),
              c.at \in Holding
       PROVE  GoesOn(p)
  <2>1. c.todo = {} /\ c.at # "idle"
    BY <1>1, <1>17 DEF Shape, Holding
  <2> QED
    BY <1>17, <2>1, TakesGoesOn DEF Holding, Reading
<1>18. ASSUME WriteAgents(p) \/ WriteClaude(p) \/ WriteGoMod(p) PROVE GoesOn(p)
  BY <1>17, <1>18, StaysGoesOn DEF WriteAgents, WriteClaude, WriteGoMod, At, Write, Holding
<1>19. ASSUME ReadClaude(p) PROVE GoesOn(p)
  <2>1. c.at = "readclaude" /\ c.held = None /\ c.todo = {}
    BY <1>3, <1>19 DEF ReadClaude, At, Holding
  <2>2. Read(Claude).text # None
    BY ReadType, ToolchainAssumption DEF UserFile
  <2>3. CASE Goes(p, "readmod")
    BY <2>1, <2>3, GoesGoesOn DEF Holding, FromSource
  <2>4. CASE Takes(p, "claude", Read(Claude).text)
    BY <2>1, <2>2, <2>4, TakesGoesOn DEF Holding, Reading
  <2> QED
    BY <1>19, <2>3, <2>4 DEF ReadClaude
<1>20. ASSUME ReadGoMod(p) PROVE GoesOn(p)
  <2>1. c.at = "readmod" /\ c.held = None /\ c.todo = {}
    BY <1>3, <1>20 DEF ReadGoMod, At, Holding
  <2>2. Read(GoMod).text # None
    BY ReadType, ToolchainAssumption DEF UserFile
  <2>3. CASE UNCHANGED commands
    BY <2>1, <2>3, StaysGoesOn
  <2>4. CASE Takes(p, "gomod", Read(GoMod).text)
    BY <2>1, <2>2, <2>4, TakesGoesOn DEF Holding, Reading
  <2> QED
    BY <1>20, <2>3, <2>4 DEF ReadGoMod
<1> QED
  BY <1>4, <1>5, <1>6, <1>7, <1>8, <1>9, <1>10, <1>11, <1>12, <1>13, <1>14, <1>15, <1>16, <1>18,
     <1>19, <1>20 DEF Runs, EnsureStdlib, EnsureGoMod

(* What the files are after a step of p. *)
Reads(p) == UNCHANGED <<disk, fd>> /\ fd[p] = NoFile
Makes(p) ==
  /\ commands[p].at \in {"modinit", "readmod"} /\ UNCHANGED fd /\ fd[p] = NoFile
  /\ disk[GoMod] = None /\ disk' = [disk EXCEPT ![GoMod] = [text |-> 0, added |-> None]]
Empties(p, f) == Truncate(p, f) /\ WritesAt(commands[p], f) /\ UNCHANGED commands
Fills(p, f) == \E content \in Content(f) : Fill(p, f, content)
Removed(p, f) ==
  /\ Remove(f) /\ fd[p] = NoFile
  /\ (commands[p].at = "rm" /\ f = Source) \/ (commands[p].at = "remove" /\ f \in Cache)
Closes(p) == UNCHANGED disk /\ fd' = [fd EXCEPT ![p] = NoFile]

(* Both halves of os.WriteFile: a file is emptied, then filled. *)
LEMMA WritesFile ==
  ASSUME NEW p \in Command, NEW f \in Path, NEW content \in Content(f), WritesAt(commands[p], f),
         NEW then, Write(p, f, content, then)
  PROVE  Empties(p, f) \/ Fills(p, f)
BY DEF Write, Empties, Fills

(* What a step does to the files: nothing, or it empties, fills, removes or makes one. *)
LEMMA FilesAfter ==
  ASSUME TypeOK, Steps, NEW p \in Command, Runs(p) \/ Stop(p)
  PROVE  \/ Reads(p) \/ Makes(p) \/ (Stop(p) /\ Closes(p))
         \/ \E f \in Path : Empties(p, f) \/ Fills(p, f)
         \/ \E f \in Cache \cup {Source} : Removed(p, f)
<1> USE DEF Bounds, Step, NoFiles
<1> DEFINE c == commands[p]
<1>1. Shape(c) /\ c \in Process /\ FileIsOpen(p)
  BY DEF TypeOK, Steps, Stands
<1>2. ASSUME c.at \notin Holding \cup {"extract", "gofile"} PROVE fd[p] = NoFile
  BY <1>1, <1>2 DEF FileIsOpen, WritesAt, Holding
<1>3. GoMod \in Path /\ Agents \in Path /\ Claude \in Path /\ Stamp \in Path /\ GoFile \in Path
  BY UserFiles, PathFacts
<1>4. ASSUME \/ Compile(p) \/ Compare(p) \/ Prompt(p) \/ Needs(p) \/ ReadStamp(p) \/ MissStamp(p)
             \/ ReadAgents(p) \/ ReadClaude(p) \/ Go(p)
      PROVE  Reads(p)
  <2>1. c.at \in {"compile", "compare", "prompt", "needs", "stamp", "readagents", "readclaude", "go"}
    BY <1>4 DEF Compile, Compare, Prompt, Needs, ReadStamp, MissStamp, ReadAgents, ReadClaude, Go, At
  <2>2. UNCHANGED <<disk, fd>>
    BY <1>4 DEF Compile, Compare, Prompt, Needs, ReadStamp, MissStamp, ReadAgents, ReadClaude, Go
  <2> QED
    BY <1>2, <2>1, <2>2 DEF Holding, Reads
<1>5. ASSUME ModInit(p) \/ ReadGoMod(p) PROVE Reads(p) \/ Makes(p)
  <2>1. c.at \in {"modinit", "readmod"}
    BY <1>5 DEF ModInit, ReadGoMod, At
  <2>2. fd[p] = NoFile
    BY <1>2, <2>1 DEF Holding
  <2> QED
    BY <1>5, <2>1, <2>2 DEF ModInit, ReadGoMod, Reads, Makes
<1>6. ASSUME WriteGoFile(p) PROVE Empties(p, GoFile) \/ Fills(p, GoFile)
  <2>1. WritesAt(c, GoFile) /\ Generated(p) \in Content(GoFile)
    BY <1>1, <1>6, ContentFacts DEF WriteGoFile, At, WritesAt, Generated, Process
  <2> QED
    BY <1>6, <2>1 DEF WriteGoFile, Write, Empties, Fills
<1>7. ASSUME RemoveSource(p) \/ RemoveAll(p)
      PROVE  Reads(p) \/ \E f \in Cache \cup {Source} : Removed(p, f)
  <2>1. c.at \in {"rm", "remove"}
    BY <1>7 DEF RemoveSource, RemoveAll, At
  <2>2. fd[p] = NoFile
    BY <1>2, <2>1 DEF Holding
  <2> QED
    BY <1>7, <2>2 DEF RemoveSource, RemoveAll, Reads, Removed, At
<1>8. ASSUME Extract(p) PROVE \E f \in Path : Empties(p, f) \/ Fills(p, f)
  <2>1. PICK f \in c.todo : Write(p, f, c.version, Done(p, f))
    BY <1>8 DEF Extract
  <2>2. f \in Path /\ c.version \in Content(f) /\ WritesAt(c, f)
    BY <1>1, <1>8, PathFacts, ContentFacts DEF Extract, At, WritesAt, Shape, Process
  <2> QED
    BY <2>1, <2>2 DEF Write, Empties, Fills
<1>9. ASSUME WriteStamp(p) PROVE Empties(p, Stamp) \/ Fills(p, Stamp)
  <2>1. WritesAt(c, Stamp) /\ c.version \in Content(Stamp)
    BY <1>1, <1>9, PathFacts, ContentFacts DEF WriteStamp, At, WritesAt, Shape
  <2> QED
    BY <1>9, <2>1 DEF WriteStamp, Write, Empties, Fills
<1>10. ASSUME WriteAgents(p) \/ WriteClaude(p) \/ WriteGoMod(p)
       PROVE  \E f \in Path : Empties(p, f) \/ Fills(p, f)
  <2>1. c.at \in Holding /\ c.held \in Int /\ c.version \in Version
    BY <1>1, <1>10 DEF WriteAgents, WriteClaude, WriteGoMod, At, Shape, Process, Holding
  <2>2. /\ [text |-> c.held, added |-> c.version] \in Content(Agents)
        /\ [text |-> c.held, added |-> Agents] \in Content(Claude)
        /\ [text |-> c.held, added |-> "stdlib"] \in Content(GoMod)
    BY <2>1, ContentFacts DEF Added, UserFile
  <2>3. CASE WriteAgents(p)
    <3>1. WritesAt(c, Agents)
      BY <2>3 DEF WriteAgents, At, WritesAt
    <3> QED
      BY <1>3, <2>2, <2>3, <3>1 DEF WriteAgents, Write, Empties, Fills
  <2>4. CASE WriteClaude(p)
    <3>1. WritesAt(c, Claude)
      BY <2>4 DEF WriteClaude, At, WritesAt
    <3> QED
      BY <1>3, <2>2, <2>4, <3>1 DEF WriteClaude, Write, Empties, Fills
  <2>5. CASE WriteGoMod(p)
    <3>1. WritesAt(c, GoMod)
      BY <2>5 DEF WriteGoMod, At, WritesAt
    <3> QED
      BY <1>3, <2>2, <2>5, <3>1 DEF WriteGoMod, Write, Empties, Fills
  <2> QED
    BY <1>10, <2>3, <2>4, <2>5
<1>11. ASSUME Stop(p) PROVE Closes(p)
  BY <1>11 DEF Stop, Closes
<1> QED
  BY <1>3, <1>4, <1>5, <1>6, <1>7, <1>8, <1>9, <1>10, <1>11 DEF Runs, EnsureStdlib, EnsureGoMod

(* A command is alone as long as no other runs. *)
LEMMA AloneKept ==
  ASSUME TypeOK, Steps, NEW p \in Command, GoesOn(p)
  PROVE  \A q \in Command : AloneIsSo(q)'
<1> SUFFICES ASSUME NEW q \in Command PROVE AloneIsSo(q)'
  OBVIOUS
<1>1. AloneIsSo(q) /\ AloneIsSo(p)
  BY DEF Steps, Stands
<1>2. CASE q = p
  BY <1>1, <1>2 DEF AloneIsSo, GoesOn
<1>3. CASE q # p
  BY <1>1, <1>3 DEF AloneIsSo, GoesOn
<1> QED
  BY <1>2, <1>3

(* A command between the halves of a write has the file open, and no other file. *)
LEMMA OpenKept ==
  ASSUME TypeOK, Steps, NEW p \in Command, GoesOn(p), Runs(p) \/ Stop(p)
  PROVE  \A q \in Command : FileIsOpen(q)'
<1> SUFFICES ASSUME NEW q \in Command PROVE FileIsOpen(q)'
  OBVIOUS
<1>1. FileIsOpen(q) /\ FileIsOpen(p) /\ fd \in [Command -> Open] /\ disk \in [Path -> Value]
  BY DEF TypeOK, Steps, Stands
<1>2. \A r \in Command \ {p} : commands'[r] = commands[r]
  BY DEF GoesOn
<1>3. NoFile.path = None /\ NoFile.linked = FALSE
  BY DEF NoFile
<1>4. CASE fd'[q] = NoFile
  BY <1>3, <1>4 DEF FileIsOpen
<1>5. fd[q] # NoFile => fd[q].path \in Path /\ fd[q].path # Source
  <2> SUFFICES ASSUME fd[q] # NoFile PROVE fd[q].path \in Path /\ fd[q].path # Source
    OBVIOUS
  <2>1. fd[q].path \in Path /\ WritesAt(commands[q], fd[q].path)
    BY <1>1 DEF FileIsOpen, Open
  <2>2. commands[q].todo \subseteq Cache /\ Source \notin Cache /\ Source # Stamp
    BY PathFacts DEF TypeOK, Process, UserFile, Source, Stamp
  <2> QED
    BY <2>1, <2>2 DEF WritesAt, Source, GoFile, Agents, Claude, GoMod
<1>6. CASE Reads(p)
  BY <1>1, <1>2, <1>4, <1>6 DEF FileIsOpen, Reads
<1>7. CASE Makes(p)
  <2>1. \A f \in Path : disk[f] # None => disk'[f] # None
    BY <1>1, <1>7, NewMod DEF Makes
  <2> QED
    BY <1>1, <1>2, <1>4, <1>5, <1>7, <2>1 DEF FileIsOpen, Makes
<1>8. ASSUME NEW f \in Path, Empties(p, f) PROVE FileIsOpen(q)'
  <2>1. /\ \A g \in Path : disk[g] # None => disk'[g] # None
        /\ disk'[f] # None
        /\ fd' = [fd EXCEPT ![p] = [path |-> f, linked |-> TRUE]]
    BY <1>1, <1>8, PathFacts DEF Empties, Truncate
  <2>2. CASE q = p
    <3>1. fd'[p] = [path |-> f, linked |-> TRUE] /\ f # None
      BY <1>1, <2>1, PathFacts
    <3> QED
      BY <1>8, <2>1, <2>2, <3>1 DEF FileIsOpen, Empties
  <2>3. CASE q # p
    <3>1. fd'[q] = fd[q] /\ commands'[q] = commands[q]
      BY <1>1, <1>2, <2>1, <2>3
    <3> QED
      BY <1>1, <1>3, <1>5, <2>1, <3>1 DEF FileIsOpen
  <2> QED
    BY <2>2, <2>3
<1>9. ASSUME NEW f \in Path, Fills(p, f) PROVE FileIsOpen(q)'
  <2>1. PICK content \in Content(f) : Fill(p, f, content)
    BY <1>9 DEF Fills
  <2>2. content # None /\ Torn # None
    BY PathFacts, ContentFacts
  <2>3. /\ \A g \in Path : disk[g] # None => disk'[g] # None
        /\ fd' = [fd EXCEPT ![p] = NoFile]
    BY <1>1, <2>1, <2>2 DEF Fill
  <2>4. CASE q = p
    BY <1>1, <1>4, <2>3, <2>4
  <2>5. CASE q # p
    <3>1. fd'[q] = fd[q] /\ commands'[q] = commands[q]
      BY <1>1, <1>2, <2>3, <2>5
    <3> QED
      BY <1>1, <1>3, <1>5, <2>3, <3>1 DEF FileIsOpen
  <2> QED
    BY <2>4, <2>5
<1>10. ASSUME NEW f \in Cache \cup {Source}, Removed(p, f) PROVE FileIsOpen(q)'
  <2>1. /\ \A g \in Path \ {f} : disk'[g] = disk[g]
        /\ fd'[q] = IF fd[q].path = f THEN [fd[q] EXCEPT !.linked = FALSE] ELSE fd[q]
    BY <1>1, <1>10 DEF Removed, Remove
  <2>2. fd[q] = NoFile => fd'[q] = NoFile
    BY <1>3, <2>1, PathFacts DEF UserFile
  <2>3. CASE fd[q] # NoFile
    <3>1. q # p /\ commands'[q] = commands[q]
      BY <1>2, <1>10, <2>3 DEF Removed
    <3>2. fd[q] \in Open /\ fd[q].path \in Path
      BY <1>1, <1>5, <2>3
    <3>3. CASE fd[q].path = f
      <4>1. fd'[q].path = f /\ fd'[q].linked = FALSE /\ f \in Cache
        BY <1>5, <2>1, <2>3, <3>2, <3>3 DEF Open
      <4> QED
        BY <1>1, <2>3, <3>1, <3>3, <4>1 DEF FileIsOpen
    <3>4. CASE fd[q].path # f
      <4>1. fd'[q] = fd[q] /\ disk'[fd[q].path] = disk[fd[q].path]
        BY <2>1, <3>2, <3>4
      <4> QED
        BY <1>1, <3>1, <4>1 DEF FileIsOpen
    <3> QED
      BY <3>3, <3>4
  <2> QED
    BY <1>4, <2>2, <2>3
<1>11. CASE Closes(p)
  BY <1>1, <1>2, <1>4, <1>11 DEF FileIsOpen, Closes
<1> QED
  BY <1>6, <1>7, <1>8, <1>9, <1>10, <1>11, FilesAfter

(* A command that starts is where it may be. *)
LEMMA StartSteps ==
  ASSUME TypeOK, Steps, NEW p \in Command, Start(p)
  PROVE  Steps'
<1>1. PICK verb \in scenario.verbs, v \in scenario.versions :
        \E flags \in SUBSET (scenario.flags \cap FlagsOf(verb)) : StartsAs(p, verb, flags, v)
  BY StartFacts
<1>2. PICK flags \in SUBSET (scenario.flags \cap FlagsOf(verb)) : StartsAs(p, verb, flags, v)
  BY <1>1
<1>3. PICK alone \in BOOLEAN :
        /\ alone <=> \A q \in Command \ {p} : commands[q].at = "idle"
        /\ commands' = [q \in Command |-> IF q # p THEN [commands[q] EXCEPT !.alone = FALSE]
                                        ELSE Started(verb, flags, v, alone)]
  BY <1>2 DEF StartsAs
<1>4. v \in Version
  BY ToolchainAssumption DEF TypeOK
<1>5. commands[p].at = "idle" /\ UNCHANGED <<disk, fd>>
  BY DEF Start, Running, fileVars
<1>6. \A q \in Command : commands[q] \in Process /\ Shape(commands[q]) /\ FileIsOpen(q)
  BY DEF TypeOK, Steps, Stands
<1>7. ASSUME NEW q \in Command \ {p} PROVE Stands(q)'
  <2>1. /\ commands'[q].at = commands[q].at /\ commands'[q].version = commands[q].version
        /\ commands'[q].todo = commands[q].todo /\ commands'[q].held = commands[q].held
        /\ commands'[q].verb = commands[q].verb /\ commands'[q].flags = commands[q].flags
        /\ commands'[q].alone = FALSE
    BY <1>3, <1>6 DEF Process
  <2>2. Shape(commands'[q])
    BY <1>6, <2>1 DEF Shape
  <2>3. FileIsOpen(q)'
    BY <1>5, <1>6, <2>1 DEF FileIsOpen, WritesAt
  <2> QED
    BY <2>1, <2>2, <2>3 DEF Stands, AloneIsSo
<1>8. Stands(p)'
  <2>1. commands'[p] = Started(verb, flags, v, alone)
    BY <1>3
  <2>2. /\ commands'[p].at \in {"modinit", "compile"} /\ commands'[p].version = v
        /\ commands'[p].todo = {} /\ commands'[p].held = None /\ commands'[p].alone = alone
        /\ commands'[p].at = "modinit" => commands'[p].verb = "init"
    BY <2>1 DEF Started, Idle
  <2>3. Shape(commands'[p])
    BY <1>4, <2>2 DEF Shape
  <2>4. AloneIsSo(p)'
    <3>1. \A q \in Command \ {p} : commands'[q].at = commands[q].at
      BY <1>3, <1>6 DEF Process
    <3> QED
      BY <1>3, <2>2, <3>1 DEF AloneIsSo
  <2>5. fd'[p] = NoFile
    BY <1>5, <1>6 DEF FileIsOpen, WritesAt
  <2>6. FileIsOpen(p)'
    BY <2>5 DEF FileIsOpen, NoFile
  <2> QED
    BY <2>3, <2>4, <2>6 DEF Stands
<1> QED
  BY <1>7, <1>8 DEF Steps

(* An edit writes the next text into one whole file of the user's. *)
LEMMA EditKeepsFiles ==
  ASSUME TypeOK, Edit
  PROVE  \E f \in UserFile :
           /\ f \in scenario.edited /\ Whole(f)
           /\ texts' = [texts EXCEPT ![f] = texts[f] + 1]
           /\ disk' = [disk EXCEPT ![f].text = texts[f] + 1]
           /\ disk[f] \in [text : Int, added : Added] /\ disk'[f] \in [text : Int, added : Added]
           /\ disk'[f].text = texts'[f] /\ disk'[f].added = disk[f].added
           /\ disk'[f] # None /\ disk'[f] # Torn
           /\ \A g \in Path \ {f} : disk'[g] = disk[g]
           /\ raced' = IF \E p \in Command : Holds(p, f) THEN raced \cup {f} ELSE raced
<1>1. PICK f \in scenario.edited :
        /\ Whole(f) /\ texts' = [texts EXCEPT ![f] = texts[f] + 1]
        /\ disk' = [disk EXCEPT ![f].text = texts[f] + 1]
        /\ raced' = IF \E p \in Command : Holds(p, f) THEN raced \cup {f} ELSE raced
  BY DEF Edit
<1>2. f \in UserFile /\ f \in Path /\ texts[f] \in Nat /\ texts \in [UserFile -> Nat]
  BY ToolchainAssumption, PathFacts DEF TypeOK
<1>3. disk[f] \in [text : Int, added : Added] /\ disk \in [Path -> Value]
  BY <1>1, <1>2, ContentFacts DEF TypeOK, Whole
<1>4. /\ disk'[f] = [disk[f] EXCEPT !.text = texts[f] + 1] /\ texts'[f] = texts[f] + 1
      /\ \A g \in Path \ {f} : disk'[g] = disk[g]
  BY <1>1, <1>2, <1>3
<1>5. /\ disk'[f] \in [text : Int, added : Added]
      /\ disk'[f].text = texts[f] + 1 /\ disk'[f].added = disk[f].added
  BY <1>2, <1>3, <1>4
<1>6. disk'[f] # None /\ disk'[f] # Torn
  BY <1>2, <1>5, ContentFacts
<1> QED
  BY <1>1, <1>2, <1>3, <1>4, <1>5, <1>6

(* It moves no command. *)
LEMMA EditSteps ==
  ASSUME TypeOK, Steps, Edit
  PROVE  Steps'
<1>1. \A f \in Path : disk[f] # None => disk'[f] # None
  BY EditKeepsFiles
<1>2. UNCHANGED <<commands, fd>>
  BY DEF Edit
<1>3. ASSUME NEW q \in Command PROVE Stands(q)'
  <2>1. Stands(q) /\ fd[q] \in Open
    BY DEF Steps, TypeOK
  <2>2. fd[q].linked => fd[q].path \in Path
    BY <2>1 DEF Stands, FileIsOpen, Open, NoFile
  <2> QED
    BY <1>1, <1>2, <2>1, <2>2 DEF Stands, AloneIsSo, FileIsOpen
<1> QED
  BY <1>3 DEF Steps

(* At the start no command is anywhere. *)
LEMMA InitSteps == Init => Steps
<1> SUFFICES ASSUME Init, NEW p \in Command PROVE Stands(p)
  BY DEF Steps
<1>1. fd[p] = NoFile /\ \A q \in Command : commands[q] = Idle
  BY DEF Init
<1> QED
  BY <1>1 DEF Stands, Shape, AloneIsSo, FileIsOpen, Idle, NoFile

(* A command is where its verb lets it be, with what it needs there. *)
LEMMA StepsPreserved == TypeOK /\ Steps /\ [Next]_vars => Steps'
<1> SUFFICES ASSUME TypeOK, Steps, [Next]_vars PROVE Steps'
  OBVIOUS
<1>1. ASSUME NEW p \in Command, Runs(p) \/ Stop(p) PROVE Steps'
  <2>1. GoesOn(p)
    BY <1>1, RunGoesOn
  <2>2. \A q \in Command : AloneIsSo(q)' /\ FileIsOpen(q)'
    BY <1>1, <2>1, AloneKept, OpenKept
  <2>3. \A q \in Command : Shape(commands'[q])
    BY <2>1 DEF GoesOn, Steps, Stands
  <2> QED
    BY <2>2, <2>3 DEF Steps, Stands
<1>2. CASE UNCHANGED vars
  BY <1>2 DEF vars, fileVars, Steps, Stands, AloneIsSo, FileIsOpen
<1> QED
  BY <1>1, <1>2, StartSteps, EditSteps DEF Next

(* The commands, the files and the histories have their types, and a       *)
(* command writes the file that belongs where it stands, with a version    *)
(* and a text of its own.                                                  *)
THEOREM Types == Spec => []TypeOK
<1> DEFINE Inv == TypeOK /\ Steps
<1>1. Init => Inv
  BY InitTypeOK, InitSteps
<1>2. Inv /\ [Next]_vars => Inv'
  BY TypesPreserved, StepsPreserved
<1> QED
  BY <1>1, <1>2, PTL DEF Spec

-----------------------------------------------------------------------------
(* What build has built.                                                   *)

(* The files that a command changes where it stands. *)
Changes(c, f) ==
  \/ WritesAt(c, f)
  \/ c.at \in {"modinit", "readmod"} /\ f = GoMod
  \/ c.at = "rm" /\ f = Source
  \/ c.at = "remove" /\ f \in Cache

(* A step leaves the files alone that it does not change. *)
LEMMA DiskAfter ==
  ASSUME TypeOK, Steps, NEW p \in Command, Runs(p) \/ Stop(p), NEW f \in Path,
         ~Changes(commands[p], f)
  PROVE  disk'[f] = disk[f]
<1>1. disk \in [Path -> Value] /\ FileIsOpen(p)
  BY DEF TypeOK, Steps, Stands
<1>2. CASE Reads(p) \/ Closes(p)
  BY <1>2 DEF Reads, Closes
<1>3. CASE Makes(p)
  BY <1>1, <1>3 DEF Makes, Changes
<1>4. ASSUME NEW g \in Path, Empties(p, g) PROVE disk'[f] = disk[f]
  BY <1>1, <1>4 DEF Empties, Truncate, Changes
<1>5. ASSUME NEW g \in Path, Fills(p, g) PROVE disk'[f] = disk[f]
  <2>1. g # None
    BY PathFacts
  <2>2. fd[p].path = g /\ WritesAt(commands[p], g)
    BY <1>1, <1>5, <2>1 DEF Fills, Fill, FileIsOpen, NoFile
  <2> QED
    BY <1>1, <1>5, <2>2 DEF Fills, Fill, Changes
<1>6. ASSUME NEW g \in Cache \cup {Source}, Removed(p, g) PROVE disk'[f] = disk[f]
  BY <1>1, <1>6 DEF Removed, Remove, Changes
<1> QED
  BY <1>2, <1>3, <1>4, <1>5, <1>6, FilesAfter

(* Which action a command takes where it stands. *)
LEMMA TakenAt ==
  ASSUME NEW p \in Command, Runs(p)
  PROVE  /\ commands[p].at = "modinit" => ModInit(p)
         /\ commands[p].at = "compile" => Compile(p)
         /\ commands[p].at = "compare" => Compare(p)
         /\ commands[p].at = "gofile" => WriteGoFile(p)
         /\ commands[p].at = "prompt" => Prompt(p)
         /\ commands[p].at = "rm" => RemoveSource(p)
         /\ commands[p].at = "needs" => Needs(p)
         /\ commands[p].at = "stamp" => ReadStamp(p) \/ MissStamp(p)
         /\ commands[p].at = "remove" => RemoveAll(p)
         /\ commands[p].at = "extract" => Extract(p) \/ WriteStamp(p)
         /\ commands[p].at = "readagents" => ReadAgents(p)
         /\ commands[p].at = "agents" => WriteAgents(p)
         /\ commands[p].at = "readclaude" => ReadClaude(p)
         /\ commands[p].at = "claude" => WriteClaude(p)
         /\ commands[p].at = "readmod" => ReadGoMod(p)
         /\ commands[p].at = "gomod" => WriteGoMod(p)
         /\ commands[p].at = "go" => Go(p)
BY DEF Runs, EnsureStdlib, EnsureGoMod, ModInit, Compile, Compare, WriteGoFile, Prompt, RemoveSource,
   Needs, ReadStamp, MissStamp, RemoveAll, Extract, WriteStamp, ReadAgents, WriteAgents, ReadClaude,
   WriteClaude, ReadGoMod, WriteGoMod, Go, At

(* Besides a command that is alone none runs. *)
LEMMA OneRuns ==
  ASSUME Steps, NEW p \in Command, NEW q \in Command, commands[p].alone, commands[q].at # "idle"
  PROVE  q = p
BY DEF Steps, Stands, AloneIsSo

(* A file that a lone command writes is empty until it is filled. *)
LEMMA TornKept ==
  ASSUME TypeOK, Steps, TornIfAlone, [Next]_vars
  PROVE  TornIfAlone'
<1> SUFFICES ASSUME NEW q \in Command, commands'[q].alone, fd'[q].linked
             PROVE  disk'[fd'[q].path] = Torn
  BY DEF TornIfAlone
<1>1. fd \in [Command -> Open] /\ disk \in [Path -> Value] /\ FileIsOpen(q) /\ AloneIsSo(q)
  BY DEF TypeOK, Steps, Stands
<1>2. fd[q].linked => fd[q].path \in Path
  BY <1>1 DEF FileIsOpen, Open, NoFile
<1>3. ASSUME NEW p \in Command, Runs(p) \/ Stop(p) PROVE disk'[fd'[q].path] = Torn
  <2>1. GoesOn(p)
    BY <1>3, RunGoesOn
  <2>2. commands[q].alone /\ p = q
    BY <2>1, OneRuns DEF GoesOn
  <2>3. CASE Reads(p) \/ Closes(p) \/ Makes(p)
    BY <1>1, <2>2, <2>3 DEF Reads, Closes, Makes, NoFile
  <2>4. ASSUME NEW f \in Path, Empties(p, f) PROVE disk'[fd'[q].path] = Torn
    BY <1>1, <2>2, <2>4 DEF Empties, Truncate
  <2>5. ASSUME NEW f \in Path, Fills(p, f) PROVE disk'[fd'[q].path] = Torn
    BY <1>1, <2>2, <2>5 DEF Fills, Fill, NoFile
  <2>6. ASSUME NEW f \in Cache \cup {Source}, Removed(p, f) PROVE disk'[fd'[q].path] = Torn
    <3>1. fd[q].linked = FALSE /\ fd'[q] \in {fd[q], [fd[q] EXCEPT !.linked = FALSE]}
      BY <1>1, <2>2, <2>6 DEF Removed, Remove, NoFile
    <3> QED
      BY <1>1, <3>1 DEF Open
  <2> QED
    BY <1>3, <2>3, <2>4, <2>5, <2>6, FilesAfter
<1>4. ASSUME NEW p \in Command, Start(p) PROVE disk'[fd'[q].path] = Torn
  <2>1. UNCHANGED <<disk, fd>> /\ commands[p].at = "idle"
    BY <1>4 DEF Start, fileVars, Running
  <2>2. q # p
    BY <1>1, <2>1 DEF FileIsOpen, WritesAt, NoFile
  <2>3. commands'[q].alone = FALSE
    <3>1. PICK c : commands' = [r \in Command |->
                     IF r # p THEN [commands[r] EXCEPT !.alone = FALSE] ELSE c]
      BY <1>4 DEF Start
    <3>2. commands[q] \in Process
      BY DEF TypeOK
    <3> QED
      BY <2>2, <3>1, <3>2 DEF Process
  <2> QED
    BY <2>3
<1>5. CASE Edit
  <2>1. UNCHANGED <<commands, fd>>
    BY <1>5 DEF Edit
  <2>2. disk[fd[q].path] = Torn
    BY <2>1 DEF TornIfAlone
  <2> QED
    BY <1>2, <1>5, <2>1, <2>2, EditKeepsFiles DEF Whole
<1>6. CASE UNCHANGED vars
  BY <1>6 DEF vars, fileVars, TornIfAlone
<1> QED
  BY <1>3, <1>4, <1>5, <1>6 DEF Next

(* A step of a build that is alone keeps what it has built, *)
LEMMA BuiltKept ==
  ASSUME TypeOK, Steps, TornIfAlone, NEW p \in Command, Runs(p) \/ Stop(p), Built(p),
         commands[p].alone, commands[p].verb = "build"
  PROVE  Built(p)'
<1> DEFINE c == commands[p]
           d == commands'[p]
<1>1. /\ GoesOn(p) /\ Shape(c) /\ FileIsOpen(p) /\ c \in Process
      /\ disk \in [Path -> Value] /\ fd \in [Command -> Open]
  BY RunGoesOn DEF TypeOK, Steps, Stands
<1>2. GoFile \in Path /\ GoFile \notin LibFile /\ GoFile \notin Cache
  BY PathFacts
<1>3. c.at # "compile" => Generated(p)' = Generated(p)
  BY <1>1 DEF Generated, GoesOn
<1>4. ASSUME c.at # "gofile" PROVE disk'[GoFile] = disk[GoFile]
  <2>1. c.todo \subseteq LibFile
    BY <1>1 DEF Process
  <2>2. ~Changes(c, GoFile)
    BY <1>2, <1>4, <2>1 DEF Changes, WritesAt, GoFile, Agents, Claude, GoMod, Source, Stamp
  <2> QED
    BY <1>2, <2>2, DiskAfter
<1>5. ASSUME Stop(p) PROVE d.at = "idle" /\ d.exit = 1
  BY <1>1, <1>5, ExitsGoesOn DEF Stop, Running
<1>6. CASE Go(p)
  <2>1. c.at = "go" /\ disk[GoFile] = Generated(p)
    BY <1>6 DEF Go, At, Built, Wrote
  <2>2. Generated(p) \in Content(GoFile) /\ Generated(p).of = c.body
    BY <1>1, ContentFacts DEF Generated, Process
  <2>3. Whole(GoFile)
    BY <1>2, <2>1, <2>2, ContentFacts DEF Whole
  <2>4. c.flags = {} => binary' = c.body
    BY <1>6, <2>1, <2>2, <2>3 DEF Go, Skips
  <2>5. d.flags = c.flags /\ d.body = c.body /\ d.verb = c.verb /\ d.at = "idle"
    BY <1>1, <1>6, <2>1, ExitsGoesOn DEF Go, GoesOn, Ending
  <2> QED
    BY <1>3, <1>4, <2>1, <2>4, <2>5 DEF Built, Wrote
<1>7. CASE c.at = "gofile" /\ Runs(p)
  <2>1. WriteGoFile(p)
    BY <1>7, TakenAt
  <2>2. CASE Truncate(p, GoFile) /\ UNCHANGED commands
    BY <1>7, <2>2 DEF Built, Wrote
  <2>3. CASE Fill(p, GoFile, Generated(p)) /\ Generates(p)
    <3>1. fd[p].path = GoFile /\ fd[p].linked
      BY <1>1, <1>2, <2>3, PathFacts DEF Fill, FileIsOpen, NoFile
    <3>2. disk[GoFile] = Torn
      BY <3>1 DEF TornIfAlone
    <3>3. disk'[GoFile] = Generated(p)
      BY <1>1, <1>2, <2>3, <3>1, <3>2 DEF Fill
    <3>4. Goes(p, "needs")
      BY <2>3 DEF Generates
    <3>5. d.at = "needs"
      BY <1>1, <3>4 DEF Goes, Becomes, TypeOK, Process
    <3> QED
      BY <1>3, <1>7, <3>3, <3>5 DEF Built
  <2> QED
    BY <2>1, <2>2, <2>3 DEF WriteGoFile, Write
<1>8. CASE c.at = "compile" /\ Runs(p)
  <2>1. Compile(p)
    BY <1>8, TakenAt
  <2>2. d.at = Compiled(c)
    BY <1>1, <2>1 DEF Compile, Becomes, TypeOK, Process
  <2> QED
    BY <2>2 DEF Compiled, Built, Wrote
<1>9. CASE c.at = "compare" /\ Runs(p)
  <2>1. Compare(p)
    BY <1>9, TakenAt
  <2>2. c.flags # {} /\ d.flags = c.flags
    BY <1>1, <1>9 DEF Shape, GoesOn
  <2>3. CASE disk[GoFile] = Generated(p) /\ Exits(p, 0)
    <3>1. d.at = "idle"
      BY <1>9, <2>3, ExitsGoesOn DEF Ending
    <3> QED
      BY <1>3, <1>4, <1>9, <2>2, <2>3, <3>1 DEF Built, Wrote
  <2>4. CASE Goes(p, "gofile")
    <3>1. d.at = "gofile"
      BY <1>1, <2>4 DEF Goes, Becomes, TypeOK, Process
    <3> QED
      BY <3>1 DEF Built, Wrote
  <2> QED
    BY <2>1, <2>3, <2>4 DEF Compare
<1>10. CASE Wrote(p) /\ ~Go(p) /\ Runs(p)
  <2>1. c.at \notin {"gofile", "compile"} /\ disk[GoFile] = Generated(p)
    BY <1>10 DEF Wrote, Built
  <2>2. disk'[GoFile] = Generated(p)'
    BY <1>3, <1>4, <2>1
  <2>3. d.at = "idle" => d.exit = 1
    <3>1. c.at # "go"
      BY <1>10, TakenAt
    <3> QED
      BY <1>1, <1>10, <3>1 DEF GoesOn, Ending, Wrote
  <2> QED
    BY <2>2, <2>3 DEF Built
<1>11. c.at \in {"gofile", "compile", "compare"} \/ Wrote(p)
  <2>1. c.at # "idle" /\ c.at \notin {"modinit", "prompt", "rm"}
    BY <1>1 DEF GoesOn, Shape
  <2> QED
    BY <1>1, <2>1 DEF Process, Places, Wrote
<1> QED
  BY <1>5, <1>6, <1>7, <1>8, <1>9, <1>10, <1>11 DEF Built, Wrote

(* and so does every step. *)
LEMMA GoFileKept ==
  ASSUME TypeOK, Steps, TornIfAlone, GoFileIsBuilt, [Next]_vars
  PROVE  GoFileIsBuilt'
<1> SUFFICES ASSUME NEW q \in Command PROVE Built(q)'
  BY DEF GoFileIsBuilt
<1>1. Built(q) /\ AloneIsSo(q)
  BY DEF GoFileIsBuilt, Steps, Stands
<1>2. ASSUME NEW p \in Command, Runs(p) \/ Stop(p) PROVE Built(q)'
  <2>1. GoesOn(p)
    BY <1>2, RunGoesOn
  <2>2. CASE q = p
    BY <1>1, <1>2, <2>1, <2>2, BuiltKept DEF GoesOn, Built
  <2>3. CASE q # p
    <3>1. commands'[q] = commands[q] /\ ~commands[q].alone
      BY <1>1, <2>1, <2>3 DEF GoesOn, AloneIsSo
    <3> QED
      BY <3>1 DEF Built
  <2> QED
    BY <2>2, <2>3
<1>3. ASSUME NEW p \in Command, Start(p) PROVE Built(q)'
  <2>1. PICK verb \in scenario.verbs, v \in scenario.versions :
          \E flags \in SUBSET (scenario.flags \cap FlagsOf(verb)) : StartsAs(p, verb, flags, v)
    BY <1>3, StartFacts
  <2>2. PICK flags, alone :
          commands' = [r \in Command |-> IF r # p THEN [commands[r] EXCEPT !.alone = FALSE]
                                         ELSE Started(verb, flags, v, alone)]
    BY <2>1 DEF StartsAs
  <2>3. CASE q = p
    <3>1. commands'[q].at \in {"modinit", "compile"}
      BY <2>2, <2>3 DEF Started, Idle
    <3> QED
      BY <3>1 DEF Built, Wrote
  <2>4. CASE q # p
    <3>1. commands'[q].alone = FALSE
      BY <2>2, <2>4 DEF TypeOK, Process
    <3> QED
      BY <3>1 DEF Built
  <2> QED
    BY <2>3, <2>4
<1>4. CASE Edit
  <2>1. UNCHANGED <<commands, binary>> /\ disk'[GoFile] = disk[GoFile]
    BY <1>4, EditKeepsFiles, PathFacts DEF Edit
  <2> QED
    BY <1>1, <2>1 DEF Built, Wrote, Generated
<1>5. CASE UNCHANGED vars
  BY <1>1, <1>5 DEF vars, fileVars, Built, Wrote, Generated
<1> QED
  BY <1>2, <1>3, <1>4, <1>5 DEF Next

(* A build that succeeded, with no other command beside it, has left the   *)
(* Go code of the source it read, and the binary.                          *)
THEOREM BuildBuilds == Spec => []SuccessMeansBuilt
<1> DEFINE Inv == TypeOK /\ Steps /\ TornIfAlone /\ GoFileIsBuilt
<1>1. Init => Inv
  <2>1. Init => TornIfAlone /\ GoFileIsBuilt
    BY DEF Init, TornIfAlone, GoFileIsBuilt, Built, Wrote, Idle, NoFile
  <2> QED
    BY <2>1, InitTypeOK, InitSteps
<1>2. Inv /\ [Next]_vars => Inv'
  BY TypesPreserved, StepsPreserved, TornKept, GoFileKept
<1>3. Inv => SuccessMeansBuilt
  BY DEF GoFileIsBuilt, Built, SuccessMeansBuilt, Running
<1> QED
  BY <1>1, <1>2, <1>3, PTL DEF Spec

-----------------------------------------------------------------------------
(* The text of the user.                                                   *)

(* The files commands write to, and those of them that are the user's. *)
LEMMA WrittenFiles ==
  /\ Written \subseteq Path /\ Written \cap Cache = {} /\ Source \notin Written
  /\ Noted \subseteq Written /\ Noted \subseteq UserFile /\ GoFile \notin Noted
  /\ UserFile = Noted \cup {Source} /\ GoFile \in Written
BY PathFacts, UserFiles DEF Written, Noted, UserFile, Source, GoMod, Agents, Claude, GoFile

(* Running adds to the histories only. *)
LEMMA Histories ==
  ASSUME NEW p \in Command, Runs(p) \/ Stop(p)
  PROVE  UNCHANGED <<scenario, texts>> /\ raced \subseteq raced' /\ cut \subseteq cut'
<1> USE DEF NoFiles, Step, Bounds, Write, Truncate, Fill, Meets
<1>1. CASE \/ ModInit(p) \/ Compile(p) \/ Compare(p) \/ WriteGoFile(p) \/ Prompt(p)
           \/ RemoveSource(p) \/ Needs(p)
  BY <1>1 DEF ModInit, Compile, Compare, WriteGoFile, Prompt, RemoveSource, Needs
<1>2. CASE \/ ReadStamp(p) \/ MissStamp(p) \/ RemoveAll(p) \/ Extract(p) \/ WriteStamp(p)
  BY <1>2 DEF ReadStamp, MissStamp, RemoveAll, Extract, WriteStamp
<1>3. CASE \/ ReadAgents(p) \/ WriteAgents(p) \/ ReadClaude(p) \/ WriteClaude(p)
           \/ ReadGoMod(p) \/ WriteGoMod(p) \/ Go(p) \/ Stop(p)
  BY <1>3 DEF ReadAgents, WriteAgents, ReadClaude, WriteClaude, ReadGoMod, WriteGoMod, Go, Stop
<1> QED
  BY <1>1, <1>2, <1>3 DEF Runs, EnsureStdlib, EnsureGoMod

(* Who writes a file after a step of p. *)
LEMMA WritersAfter ==
  ASSUME TypeOK, Steps, NEW p \in Command, Runs(p) \/ Stop(p), NEW q \in Command, NEW f \in Written
  PROVE  /\ Writes(q, f)' => Writes(q, f) \/ (q = p /\ Empties(p, f))
         /\ Writes(q, f) => Writes(q, f)' \/ (q = p /\ (Fills(p, f) \/ Stop(p)))
<1>1. fd \in [Command -> Open]
  BY DEF TypeOK
<1>2. f # None /\ NoFile.path = None
  BY WrittenFiles, PathFacts DEF NoFile
<1>3. CASE Reads(p) \/ Makes(p)
  BY <1>3 DEF Reads, Makes, Writes
<1>4. CASE Stop(p) /\ Closes(p)
  <2>1. CASE q = p
    <3>1. ~Writes(q, f)'
      BY <1>1, <1>2, <1>4, <2>1 DEF Closes, Writes
    <3> QED
      BY <1>4, <2>1, <3>1
  <2>2. CASE q # p
    BY <1>1, <1>4, <2>2 DEF Closes, Writes
  <2> QED
    BY <2>1, <2>2
<1>5. ASSUME NEW g \in Path, Empties(p, g)
      PROVE  /\ Writes(q, f)' => Writes(q, f) \/ (q = p /\ Empties(p, f))
             /\ Writes(q, f) => Writes(q, f)'
  <2>1. fd[p] = NoFile /\ fd' = [fd EXCEPT ![p] = [path |-> g, linked |-> TRUE]]
    BY <1>5 DEF Empties, Truncate
  <2>2. CASE q = p
    BY <1>1, <1>2, <1>5, <2>1, <2>2 DEF Writes
  <2>3. CASE q # p
    BY <1>1, <2>1, <2>3 DEF Writes
  <2> QED
    BY <2>2, <2>3
<1>6. ASSUME NEW g \in Path, Fills(p, g)
      PROVE  /\ Writes(q, f)' => Writes(q, f)
             /\ Writes(q, f) => Writes(q, f)' \/ (q = p /\ Fills(p, f))
  <2>1. fd[p].path = g /\ fd' = [fd EXCEPT ![p] = NoFile]
    BY <1>6 DEF Fills, Fill
  <2>2. CASE q = p
    BY <1>1, <1>2, <1>6, <2>1, <2>2 DEF Writes
  <2>3. CASE q # p
    BY <1>1, <2>1, <2>3 DEF Writes
  <2> QED
    BY <2>2, <2>3
<1>7. ASSUME NEW g \in Cache \cup {Source}, Removed(p, g)
      PROVE  Writes(q, f)' <=> Writes(q, f)
  <2>1. f # g /\ fd'[q] = IF fd[q].path = g THEN [fd[q] EXCEPT !.linked = FALSE] ELSE fd[q]
    BY <1>1, <1>7, WrittenFiles DEF Removed, Remove
  <2>2. CASE fd[q].path = g
    <3>1. fd'[q].path = g
      BY <1>1, <2>1, <2>2 DEF Open
    <3> QED
      BY <2>1, <2>2, <3>1 DEF Writes
  <2>3. CASE fd[q].path # g
    BY <2>1, <2>3 DEF Writes
  <2> QED
    BY <2>2, <2>3
<1> QED
  BY <1>3, <1>4, <1>5, <1>6, <1>7, FilesAfter

(* A file has one writer unless commands met on it. *)
LEMMA OneWriterKept ==
  ASSUME TypeOK, Steps, OneWriter, [Next]_vars
  PROVE  OneWriter'
<1> SUFFICES ASSUME NEW f \in Written, f \notin raced', NEW r \in Command, Writes(r, f)'
             PROVE  disk'[f] = Torn /\ \A q \in Command : Writes(q, f)' => q = r
  BY DEF OneWriter
<1>1. disk \in [Path -> Value] /\ f \in Path
  BY WrittenFiles DEF TypeOK
<1>2. ASSUME NEW p \in Command, Runs(p) \/ Stop(p)
      PROVE  disk'[f] = Torn /\ \A q \in Command : Writes(q, f)' => q = r
  <2>1. f \notin raced
    BY <1>2, Histories
  <2>2. CASE Empties(p, f)
    <3>1. disk'[f] = Torn /\ \A q \in Command \ {p} : ~Writes(q, f)
      BY <1>1, <2>2 DEF Empties, Truncate, Meets, TypeOK
    <3> QED
      BY <1>2, <3>1, WritersAfter
  <2>3. CASE ~Empties(p, f)
    <3>1. \A q \in Command : Writes(q, f)' => Writes(q, f)
      BY <1>2, <2>3, WritersAfter
    <3>2. disk[f] = Torn /\ \A q \in Command : Writes(q, f) => q = r
      BY <2>1, <3>1 DEF OneWriter
    <3>3. disk'[f] = disk[f]
      <4>1. CASE Reads(p) \/ Closes(p)
        BY <4>1 DEF Reads, Closes
      <4>2. CASE Makes(p)
        BY <1>1, <3>2, <4>2, PathFacts DEF Makes
      <4>3. ASSUME NEW g \in Path, Empties(p, g) PROVE disk'[f] = disk[f]
        BY <1>1, <2>3, <4>3 DEF Empties, Truncate
      <4>4. ASSUME NEW g \in Path, Fills(p, g) PROVE disk'[f] = disk[f]
        <5>1. CASE f = g
          <6>1. fd'[p] = NoFile /\ fd[p].path = f
            BY <4>4, <5>1 DEF Fills, Fill, TypeOK
          <6>2. ~Writes(p, f)' /\ r # p
            BY <6>1 DEF Writes, NoFile
          <6>3. ~fd[p].linked
            BY <3>1, <3>2, <6>1, <6>2 DEF Writes, TypeOK, Open
          <6> QED
            BY <4>4, <5>1, <6>3 DEF Fills, Fill
        <5>2. CASE f # g
          BY <1>1, <4>4, <5>2 DEF Fills, Fill
        <5> QED
          BY <5>1, <5>2
      <4>5. ASSUME NEW g \in Cache \cup {Source}, Removed(p, g) PROVE disk'[f] = disk[f]
        BY <1>1, <4>5, WrittenFiles DEF Removed, Remove
      <4> QED
        BY <1>2, <4>1, <4>2, <4>3, <4>4, <4>5, FilesAfter
    <3> QED
      BY <3>1, <3>2, <3>3
  <2> QED
    BY <2>2, <2>3
<1>3. ASSUME NEW p \in Command, Start(p)
      PROVE  disk'[f] = Torn /\ \A q \in Command : Writes(q, f)' => q = r
  BY <1>3 DEF Start, fileVars, OneWriter, Writes
<1>4. ASSUME Edit PROVE disk'[f] = Torn /\ \A q \in Command : Writes(q, f)' => q = r
  <2>1. UNCHANGED fd
    BY <1>4 DEF Edit
  <2>2. PICK g \in UserFile :
          /\ Whole(g) /\ \A h \in Path \ {g} : disk'[h] = disk[h]
          /\ raced' = IF \E p \in Command : Holds(p, g) THEN raced \cup {g} ELSE raced
    BY <1>4, EditKeepsFiles
  <2>3. disk[f] = Torn /\ \A q \in Command : Writes(q, f) => q = r
    BY <2>1, <2>2 DEF OneWriter, Writes
  <2> QED
    BY <1>1, <2>1, <2>2, <2>3 DEF Whole, Writes
<1>5. CASE UNCHANGED vars
  BY <1>5 DEF vars, fileVars, OneWriter, Writes
<1> QED
  BY <1>2, <1>3, <1>4, <1>5 DEF Next

(* Which text a command holds is told by where it is. *)
LEMMA HoldsWhat ==
  ASSUME NEW p \in Command
  PROVE  /\ Holds(p, GoMod) <=> commands[p].at = "gomod"
         /\ Holds(p, Agents) <=> commands[p].at = "agents"
         /\ Holds(p, Claude) <=> commands[p].at = "claude"
         /\ Holds(p, Source) <=> commands[p].at \in FromSource
BY DEF Holds, At, FromSource, Source, GoMod, Agents, Claude

(* The same of the next state. *)
LEMMA HoldsWhatNext ==
  ASSUME NEW p \in Command
  PROVE  /\ Holds(p, GoMod)' <=> commands'[p].at = "gomod"
         /\ Holds(p, Agents)' <=> commands'[p].at = "agents"
         /\ Holds(p, Claude)' <=> commands'[p].at = "claude"
BY DEF Holds, At, Source, GoMod, Agents, Claude

(* A file that p is at is read as it was written last, unless somebody     *)
(* else is writing it.                                                     *)
LEMMA ReadsLatest ==
  ASSUME TypeOK, Steps, TextIsHeld, NEW p \in Command, fd[p] = NoFile, NEW f \in Noted, Meets(p, f),
         f \notin raced', "write" \notin cut
  PROVE  Latest(f)
<1>1. f \notin raced /\ \A q \in Command \ {p} : ~Writes(q, f)
  BY DEF Meets, TypeOK
<1>2. ~Writes(p, f)
  BY WrittenFiles, PathFacts DEF Writes, NoFile
<1> QED
  BY <1>1, <1>2 DEF TextIsHeld

(* What is read, or made of nothing, for a file that will be written. *)
LEMMA TakesLatest ==
  ASSUME TypeOK, Steps, TextIsHeld, NEW p \in Command, Runs(p), commands[p].at \in Reading,
         NEW f \in Noted, f \notin raced', "write" \notin cut, Holds(p, f)'
  PROVE  commands'[p].held = texts[f]
<1>1. commands[p] \in Process /\ commands \in [Command -> Process] /\ FileIsOpen(p)
  BY DEF TypeOK, Steps, Stands
<1>2. fd[p] = NoFile
  BY <1>1 DEF FileIsOpen, WritesAt, Reading
<1>3. ASSUME NEW place, NEW text, Takes(p, place, text)
      PROVE  commands'[p].at = place /\ commands'[p].held = text
  BY <1>1, <1>3 DEF Takes, Becomes, Process
<1>4. ASSUME Latest(f)
      PROVE  \/ disk[f] = None /\ texts[f] = 0
             \/ disk[f] # None /\ Read(f).text = texts[f]
  <2>1. CASE disk[f] = None /\ texts[f] = 0
    BY <2>1
  <2>2. CASE Whole(f) /\ disk[f].text = texts[f]
    BY <2>2 DEF Whole, Read
  <2> QED
    BY <1>4, <2>1, <2>2 DEF Latest
<1>5. CASE ReadAgents(p)
  <2>1. commands'[p].at = "agents" /\ f = Agents
    BY <1>3, <1>5, HoldsWhatNext DEF ReadAgents, Noted
  <2>2. Latest(Agents)
    BY <1>2, <1>5, <2>1, ReadsLatest DEF ReadAgents
  <2> QED
    BY <1>3, <1>4, <1>5, <2>1, <2>2 DEF ReadAgents
<1>6. CASE ReadClaude(p)
  <2>1. CASE Goes(p, "readmod")
    <3>1. commands'[p].at = "readmod"
      BY <1>1, <2>1 DEF Goes, Becomes, Process
    <3> QED
      BY <3>1, HoldsWhatNext DEF Noted
  <2>2. CASE disk[Claude] # None /\ Takes(p, "claude", Read(Claude).text) /\ Meets(p, Claude)
    <3>1. f = Claude
      BY <1>3, <2>2, HoldsWhatNext DEF Noted
    <3>2. Latest(Claude)
      BY <1>2, <2>2, <3>1, ReadsLatest
    <3> QED
      BY <1>3, <1>4, <2>2, <3>1, <3>2
  <2> QED
    BY <1>6, <2>1, <2>2 DEF ReadClaude
<1>7. CASE ReadGoMod(p)
  <2>1. CASE UNCHANGED commands
    BY <1>1, <1>7, <2>1, HoldsWhatNext DEF ReadGoMod, At, Noted
  <2>2. CASE disk[GoMod] # None /\ Takes(p, "gomod", Read(GoMod).text) /\ Meets(p, GoMod)
    <3>1. f = GoMod
      BY <1>3, <2>2, HoldsWhatNext DEF Noted
    <3>2. Latest(GoMod)
      BY <1>2, <2>2, <3>1, ReadsLatest
    <3> QED
      BY <1>3, <1>4, <2>2, <3>1, <3>2
  <2> QED
    BY <1>7, <2>1, <2>2 DEF ReadGoMod
<1> QED
  BY <1>5, <1>6, <1>7, TakenAt DEF Reading

(* What is written back is what was held. *)
LEMMA FillsLatest ==
  ASSUME TypeOK, Steps, OneWriter, TextIsHeld, NEW p \in Command, Runs(p), NEW f \in Noted,
         Fills(p, f), f \notin raced, "write" \notin cut
  PROVE  Whole(f)' /\ disk'[f].text = texts[f] /\ commands'[p].at \notin Holding
<1>1. FileIsOpen(p) /\ commands[p] \in Process /\ commands \in [Command -> Process]
      /\ fd \in [Command -> Open] /\ disk \in [Path -> Value] /\ Shape(commands[p])
  BY DEF TypeOK, Steps, Stands
<1>2. /\ f # None /\ f \in Path /\ f \notin Cache /\ f \in UserFile /\ f # GoFile
      /\ f \in Written
  BY WrittenFiles, PathFacts
<1>3. fd[p].path = f /\ fd[p] # NoFile
  BY <1>2 DEF Fills, Fill, NoFile
<1>4. WritesAt(commands[p], f) /\ Writes(p, f)
  BY <1>1, <1>2, <1>3 DEF FileIsOpen, Writes, Open
<1>5. disk[f] = Torn
  BY <1>2, <1>4 DEF OneWriter
<1>6. commands[p].todo \subseteq Cache /\ Stamp \in Cache
  BY <1>1, PathFacts DEF Process
<1>7. \/ commands[p].at = "agents" /\ f = Agents
      \/ commands[p].at = "claude" /\ f = Claude
      \/ commands[p].at = "gomod" /\ f = GoMod
  BY <1>2, <1>4, <1>6 DEF WritesAt
<1>8. \E added \in Added :
        /\ Fill(p, f, [text |-> commands[p].held, added |-> added])
        /\ \E place \in {"readclaude", "readmod", "go"} : Takes(p, place, None)
  <2>1. ~Truncate(p, f)
    BY <1>3 DEF Truncate
  <2>2. commands[p].version \in Added /\ Agents \in Added /\ "stdlib" \in Added
    BY <1>1, <1>7 DEF Added, Shape
  <2> QED
    BY <1>7, <2>1, <2>2, TakenAt DEF WriteAgents, WriteClaude, WriteGoMod, Write
<1>9. PICK added \in Added, place \in {"readclaude", "readmod", "go"} :
        Fill(p, f, [text |-> commands[p].held, added |-> added]) /\ Takes(p, place, None)
  BY <1>8
<1>10. commands[p].held = texts[f] /\ commands[p].held \in Int
  BY <1>1, <1>7, HoldsWhat DEF TextIsHeld, Shape, Process
<1>11. [text |-> commands[p].held, added |-> added] \in Content(f)
  BY <1>2, <1>10, ContentFacts
<1>12. disk'[f] = [text |-> commands[p].held, added |-> added]
  BY <1>1, <1>2, <1>4, <1>5, <1>9 DEF Fill, Writes
<1>13. Whole(f)'
  BY <1>2, <1>11, <1>12, ContentFacts DEF Whole
<1>14. commands'[p].at = place
  BY <1>1, <1>9 DEF Takes, Becomes, Process
<1> QED
  BY <1>10, <1>12, <1>13, <1>14 DEF Holding

(* A command that is stopped in a write of a file has cut it short. *)
LEMMA StopCuts ==
  ASSUME NEW p \in Command, Stop(p), NEW f \in Written, Writes(p, f)
  PROVE  "write" \in cut'
<1>1. f \in UserFile \cup {GoFile}
  BY WrittenFiles DEF Written
<1> QED
  BY <1>1 DEF Stop

(* A step that does not write to a file leaves it as it was. *)
LEMMA Untouched ==
  ASSUME TypeOK, Steps, NEW p \in Command, Runs(p) \/ Stop(p), NEW f \in Written,
         ~Empties(p, f), ~Fills(p, f) \/ Stop(p), ~(Makes(p) /\ f = GoMod)
  PROVE  disk'[f] = disk[f]
<1>1. f \in Path /\ f \notin Cache /\ f # Source /\ disk \in [Path -> Value]
  BY WrittenFiles DEF TypeOK
<1>2. CASE Makes(p) /\ f # GoMod
  BY <1>1, <1>2 DEF Makes
<1>3. CASE Reads(p) \/ Stop(p)
  BY <1>3 DEF Reads, Stop
<1>4. ASSUME NEW g \in Path, Empties(p, g) PROVE disk'[f] = disk[f]
  BY <1>1, <1>4 DEF Empties, Truncate
<1>5. ASSUME NEW g \in Path, Fills(p, g), ~Stop(p) PROVE disk'[f] = disk[f]
  BY <1>1, <1>5 DEF Fills, Fill
<1>6. ASSUME NEW g \in Cache \cup {Source}, Removed(p, g) PROVE disk'[f] = disk[f]
  BY <1>1, <1>6 DEF Removed, Remove
<1> QED
  BY <1>2, <1>3, <1>4, <1>5, <1>6, FilesAfter

(* A step of a command keeps the latest text on the disk, or in the hands of the one that writes
   it back. *)
LEMMA RunKeepsText ==
  ASSUME TypeOK, Steps, OneWriter, TextIsHeld, NEW p \in Command, Runs(p) \/ Stop(p),
         "write" \notin cut', NEW f \in Noted, f \notin raced'
  PROVE  /\ (\E q \in Command : Writes(q, f)') \/ Latest(f)'
         /\ \A q \in Command : Holds(q, f)' => commands'[q].held = texts'[f]
<1>1. UNCHANGED texts /\ f \notin raced /\ "write" \notin cut
  BY Histories
<1>2. /\ f \in Written /\ f \in Path /\ f \notin Cache /\ f # Source
      /\ disk \in [Path -> Value] /\ commands \in [Command -> Process] /\ fd \in [Command -> Open]
  BY WrittenFiles DEF TypeOK
<1>3. /\ (\E q \in Command : Writes(q, f)) \/ Latest(f)
      /\ \A q \in Command : Holds(q, f) => commands[q].held = texts[f]
  BY <1>1 DEF TextIsHeld
<1>4. (\E q \in Command : Writes(q, f)') \/ Latest(f)'
  <2>1. CASE Empties(p, f)
    <3>1. Writes(p, f)'
      BY <1>2, <2>1 DEF Empties, Truncate, Writes
    <3> QED
      BY <3>1
  <2>2. CASE Fills(p, f) /\ Runs(p)
    BY <1>1, <2>2, FillsLatest DEF Latest, Whole
  <2>3. CASE ~Empties(p, f) /\ (~Fills(p, f) \/ Stop(p))
    <3>1. ~(Stop(p) /\ Writes(p, f))
      BY <1>2, StopCuts
    <3>2. \A q \in Command : Writes(q, f) => Writes(q, f)'
      BY <1>2, <2>3, <3>1, WritersAfter
    <3>3. CASE \E q \in Command : Writes(q, f)
      BY <3>2, <3>3
    <3>4. CASE \A q \in Command : ~Writes(q, f)
      <4>1. Latest(f)
        BY <1>3, <3>4
      <4>2. CASE disk'[f] = disk[f]
        BY <1>1, <4>1, <4>2 DEF Latest, Whole
      <4>3. CASE Makes(p) /\ f = GoMod
        <5>1. disk[f] = None /\ disk'[f] = [text |-> 0, added |-> None]
          BY <1>2, <4>3 DEF Makes
        <5>2. texts[f] = 0
          BY <4>1, <5>1 DEF Latest, Whole
        <5>3. Whole(f)' /\ disk'[f].text = 0
          BY <5>1, NewMod DEF Whole
        <5> QED
          BY <1>1, <5>2, <5>3 DEF Latest, Whole
      <4>4. CASE ~(Makes(p) /\ f = GoMod)
        BY <1>2, <2>3, <4>2, <4>4, Untouched
      <4> QED
        BY <4>3, <4>4
    <3> QED
      BY <3>3, <3>4
  <2> QED
    BY <2>1, <2>2, <2>3
<1>5. ASSUME NEW q \in Command, Holds(q, f)' PROVE commands'[q].held = texts'[f]
  <2>1. GoesOn(p)
    BY RunGoesOn
  <2>2. CASE q # p
    <3>1. commands'[q] = commands[q]
      BY <2>1, <2>2 DEF GoesOn
    <3>2. Holds(q, f)
      BY <1>5, <3>1, HoldsWhat, HoldsWhatNext DEF Noted
    <3> QED
      BY <1>1, <1>3, <3>1, <3>2
  <2>3. CASE q = p
    <3>1. commands'[p].at \in Holding
      BY <1>5, <2>3, HoldsWhatNext DEF Noted, Holding
    <3>2. Runs(p)
      <4>1. Stop(p) => commands'[p].at = "idle"
        BY ExitsGoesOn DEF Stop, Running
      <4> QED
        BY <3>1, <4>1 DEF Holding
    <3>3. CASE commands[p].at \in Reading
      BY <1>1, <1>5, <2>3, <3>2, <3>3, TakesLatest
    <3>4. CASE commands[p].at \in Holding
      <4>1. commands' = commands \/ \E place \in {"readclaude", "readmod", "go"} : Takes(p, place, None)
        BY <3>2, <3>4, TakenAt DEF Holding, WriteAgents, WriteClaude, WriteGoMod, Write
      <4>2. ASSUME NEW place \in {"readclaude", "readmod", "go"}, Takes(p, place, None)
            PROVE  commands'[p].at \notin Holding
        BY <1>2, <4>2 DEF Takes, Becomes, Process, Holding
      <4>3. commands' = commands
        BY <3>1, <4>1, <4>2
      <4>4. Holds(p, f)
        BY <1>5, <2>3, <4>3, HoldsWhat, HoldsWhatNext DEF Noted
      <4> QED
        BY <1>1, <1>3, <2>3, <4>3, <4>4
    <3> QED
      BY <2>1, <3>1, <3>3, <3>4 DEF GoesOn
  <2> QED
    BY <2>2, <2>3
<1> QED
  BY <1>4, <1>5

(* Starting a command changes no file and no other command. *)
LEMMA StartLeaves ==
  ASSUME TypeOK, NEW p \in Command, Start(p)
  PROVE  /\ UNCHANGED fileVars /\ cut \subseteq cut'
         /\ commands[p].at = "idle" /\ commands'[p].at \in {"modinit", "compile"}
         /\ commands'[p].version \in scenario.versions /\ commands'[p].todo = {}
         /\ \A q \in Command \ {p} :
              /\ commands'[q].at = commands[q].at /\ commands'[q].version = commands[q].version
              /\ commands'[q].todo = commands[q].todo /\ commands'[q].held = commands[q].held
              /\ commands'[q].body = commands[q].body /\ ~commands'[q].alone
         /\ "mixed" \notin cut' => \A q \in Command \ {p} :
              commands[q].at # "idle" => commands[q].version = commands'[p].version
<1>1. PICK verb \in scenario.verbs, v \in scenario.versions :
        \E flags \in SUBSET (scenario.flags \cap FlagsOf(verb)) : StartsAs(p, verb, flags, v)
  BY StartFacts
<1>2. PICK flags, alone :
        commands' = [q \in Command |-> IF q # p THEN [commands[q] EXCEPT !.alone = FALSE]
                                       ELSE Started(verb, flags, v, alone)]
  BY <1>1 DEF StartsAs
<1>3. cut \subseteq cut' /\ commands[p].at = "idle" /\ UNCHANGED fileVars
  BY DEF Start, Running
<1>4. ASSUME NEW q \in Command \ {p}
      PROVE  /\ commands'[q].at = commands[q].at /\ commands'[q].version = commands[q].version
             /\ commands'[q].todo = commands[q].todo /\ commands'[q].held = commands[q].held
             /\ commands'[q].body = commands[q].body /\ ~commands'[q].alone
  BY <1>2 DEF TypeOK, Process
<1>5. /\ commands'[p].at \in {"modinit", "compile"} /\ commands'[p].version = v
      /\ commands'[p].todo = {}
  BY <1>2 DEF Started, Idle
<1>6. "mixed" \notin cut' => \A q \in Command \ {p} : commands[q].at # "idle" => commands[q].version = v
  BY <1>1 DEF StartsAs
<1> QED
  BY <1>3, <1>4, <1>5, <1>6

(* So does every step, when commands do not meet on the file and none is cut off writing it. *)
LEMMA TextKept ==
  ASSUME TypeOK, Steps, OneWriter, TextIsHeld, [Next]_vars
  PROVE  TextIsHeld'
<1> SUFFICES ASSUME "write" \notin cut', NEW f \in Noted, f \notin raced'
             PROVE  /\ (\E q \in Command : Writes(q, f)') \/ Latest(f)'
                    /\ \A q \in Command : Holds(q, f)' => commands'[q].held = texts'[f]
  BY DEF TextIsHeld
<1>1. f \in Path /\ f \in UserFile /\ f \in Written
  BY WrittenFiles, UserFiles, PathFacts
<1>2. ASSUME NEW p \in Command, Start(p)
      PROVE  /\ (\E q \in Command : Writes(q, f)') \/ Latest(f)'
             /\ \A q \in Command : Holds(q, f)' => commands'[q].held = texts'[f]
  <2>1. f \notin raced /\ "write" \notin cut /\ UNCHANGED <<disk, fd, texts>>
    BY <1>2, StartLeaves DEF fileVars
  <2>2. \A q \in Command : Holds(q, f)' => Holds(q, f) /\ commands'[q].held = commands[q].held
    BY <1>2, StartLeaves, HoldsWhat, HoldsWhatNext DEF Noted
  <2> QED
    BY <2>1, <2>2 DEF TextIsHeld, Latest, Whole, Writes
<1>3. CASE Edit
  <2>1. PICK g \in UserFile :
          /\ Whole(g) /\ texts' = [texts EXCEPT ![g] = texts[g] + 1]
          /\ disk'[g].text = texts'[g] /\ disk'[g] # None /\ disk'[g] # Torn
          /\ \A h \in Path \ {g} : disk'[h] = disk[h]
          /\ raced' = IF \E p \in Command : Holds(p, g) THEN raced \cup {g} ELSE raced
    BY <1>3, EditKeepsFiles
  <2>2. UNCHANGED <<commands, fd, cut>> /\ texts \in [UserFile -> Nat]
    BY <1>3 DEF Edit, TypeOK
  <2>3. \A q \in Command : Holds(q, f)' <=> Holds(q, f)
    BY <2>2, HoldsWhat, HoldsWhatNext DEF Noted
  <2>4. f \notin raced
    BY <2>1
  <2>5. CASE g = f
    BY <2>1, <2>3, <2>5 DEF Latest, Whole
  <2>6. CASE g # f
    <3>1. disk'[f] = disk[f] /\ texts'[f] = texts[f]
      BY <1>1, <2>1, <2>2, <2>6
    <3> QED
      BY <2>2, <2>3, <2>4, <3>1 DEF TextIsHeld, Latest, Whole, Writes
  <2> QED
    BY <2>5, <2>6
<1>4. CASE UNCHANGED vars
  <2>1. UNCHANGED <<commands, disk, fd, texts, raced, cut>>
    BY <1>4 DEF vars, fileVars
  <2>2. \A q \in Command : Holds(q, f)' <=> Holds(q, f)
    BY <2>1, HoldsWhat, HoldsWhatNext DEF Noted
  <2> QED
    BY <2>1, <2>2 DEF TextIsHeld, Latest, Whole, Writes
<1> QED
  BY <1>2, <1>3, <1>4, RunKeepsText DEF Next

(* The source is never written by a command, and removed only by brew. *)
LEMMA SourceAfter ==
  ASSUME TypeOK, Steps, NEW p \in Command, Runs(p) \/ Stop(p)
  PROVE  disk'[Source] = disk[Source] \/ (commands[p].at = "rm" /\ disk'[Source] = None)
<1>1. Source \in Path /\ Source \notin Cache /\ disk \in [Path -> Value]
  BY UserFiles, PathFacts DEF TypeOK
<1>2. CASE commands[p].at = "rm"
  <2>1. CASE Stop(p)
    BY <2>1 DEF Stop
  <2>2. CASE RemoveSource(p)
    BY <1>1, <1>2, <2>2 DEF RemoveSource, Remove
  <2> QED
    BY <1>2, <2>1, <2>2, TakenAt
<1>3. CASE commands[p].at # "rm"
  <2>1. commands[p].todo \subseteq Cache
    BY PathFacts DEF TypeOK, Process
  <2>2. ~Changes(commands[p], Source)
    BY <1>1, <1>3, <2>1, PathFacts DEF Changes, WritesAt, Source, GoFile, Agents, Claude, GoMod
  <2> QED
    BY <1>1, <2>2, DiskAfter
<1> QED
  BY <1>2, <1>3

(* The source holds the text the user wrote last. *)
LEMMA SourceIsHisKept ==
  ASSUME TypeOK, Steps, SourceIsHis, [Next]_vars
  PROVE  SourceIsHis'
<1>1. ASSUME NEW p \in Command, Runs(p) \/ Stop(p) PROVE SourceIsHis'
  BY <1>1, SourceAfter, Histories DEF SourceIsHis, Whole
<1>2. ASSUME NEW p \in Command, Start(p) PROVE SourceIsHis'
  BY <1>2, StartLeaves DEF fileVars, SourceIsHis, Whole
<1>3. CASE Edit
  <2>1. PICK g \in UserFile :
          /\ texts' = [texts EXCEPT ![g] = texts[g] + 1]
          /\ disk'[g].text = texts'[g] /\ disk'[g] # None /\ disk'[g] # Torn
          /\ \A h \in Path \ {g} : disk'[h] = disk[h]
    BY <1>3, EditKeepsFiles
  <2>2. texts \in [UserFile -> Nat]
    BY DEF TypeOK
  <2> QED
    BY <2>1, <2>2, UserFiles DEF SourceIsHis, Whole
<1>4. CASE UNCHANGED vars
  BY <1>4 DEF vars, fileVars, SourceIsHis, Whole
<1> QED
  BY <1>1, <1>2, <1>3, <1>4 DEF Next

(* A command that has read the source holds that text, unless it was edited since. *)
LEMMA SourceIsHeldKept ==
  ASSUME TypeOK, Steps, SourceIsHis, SourceIsHeld, [Next]_vars
  PROVE  SourceIsHeld'
<1> SUFFICES ASSUME Source \notin raced', NEW q \in Command, commands'[q].at \in FromSource
             PROVE  commands'[q].body = texts'[Source]
  BY DEF SourceIsHeld
<1>1. ASSUME NEW p \in Command, Runs(p) \/ Stop(p) PROVE commands'[q].body = texts'[Source]
  <2>1. GoesOn(p) /\ Source \notin raced /\ UNCHANGED texts
    BY <1>1, RunGoesOn, Histories
  <2>2. CASE q # p
    BY <2>1, <2>2 DEF GoesOn, SourceIsHeld
  <2>3. CASE q = p /\ commands[p].at \in FromSource
    <3>1. commands'[p].body = commands[p].body
      BY <2>1, <2>3 DEF GoesOn, FromSource
    <3> QED
      BY <2>1, <2>3, <3>1 DEF SourceIsHeld
  <2>4. CASE q = p /\ commands[p].at = "compile"
    <3>1. ~Stop(p)
      BY <2>4, ExitsGoesOn DEF Stop, FromSource
    <3>2. Compile(p)
      BY <1>1, <2>4, <3>1, TakenAt
    <3>3. Whole(Source) /\ commands'[p].body = disk[Source].text
      BY <3>2 DEF Compile, Becomes, TypeOK, Process
    <3> QED
      BY <2>1, <2>4, <3>3 DEF SourceIsHis, Whole
  <2> QED
    BY <2>1, <2>2, <2>3, <2>4 DEF GoesOn
<1>2. ASSUME NEW p \in Command, Start(p) PROVE commands'[q].body = texts'[Source]
  BY <1>2, StartLeaves DEF fileVars, SourceIsHeld, FromSource
<1>3. CASE Edit
  <2>1. PICK g \in UserFile :
          /\ texts' = [texts EXCEPT ![g] = texts[g] + 1]
          /\ raced' = IF \E p \in Command : Holds(p, g) THEN raced \cup {g} ELSE raced
    BY <1>3, EditKeepsFiles
  <2>2. UNCHANGED commands /\ texts \in [UserFile -> Nat]
    BY <1>3 DEF Edit, TypeOK
  <2>3. g # Source
    <3>1. Holds(q, Source)
      BY <2>2, HoldsWhat
    <3>2. ASSUME g = Source PROVE FALSE
      <4>1. \E p \in Command : Holds(p, g)
        BY <3>1, <3>2
      <4> QED
        BY <2>1, <3>2, <4>1
    <3> QED
      BY <3>2
  <2>4. texts'[Source] = texts[Source] /\ Source \notin raced
    BY <2>1, <2>2, <2>3, UserFiles
  <2> QED
    BY <2>2, <2>4 DEF SourceIsHeld
<1>4. CASE UNCHANGED vars
  BY <1>4 DEF vars, fileVars, SourceIsHeld
<1> QED
  BY <1>1, <1>2, <1>3, <1>4 DEF Next

(* The Go file is written with what was compiled. *)
LEMMA FillsGo ==
  ASSUME TypeOK, Steps, OneWriter, SourceIsHeld, NEW p \in Command, Runs(p), Fills(p, GoFile),
         GoFile \notin raced, Source \notin raced
  PROVE  Whole(GoFile)' /\ disk'[GoFile].of = texts[Source]
<1>1. /\ FileIsOpen(p) /\ commands[p] \in Process /\ fd \in [Command -> Open]
      /\ disk \in [Path -> Value]
  BY DEF TypeOK, Steps, Stands
<1>2. GoFile \in Path /\ GoFile \notin Cache /\ GoFile \notin UserFile /\ GoFile \in Written /\ GoFile # None
  BY WrittenFiles, PathFacts
<1>3. fd[p].path = GoFile /\ fd[p] # NoFile
  BY <1>2 DEF Fills, Fill, NoFile
<1>4. WritesAt(commands[p], GoFile) /\ Writes(p, GoFile)
  BY <1>1, <1>2, <1>3 DEF FileIsOpen, Writes, Open
<1>5. disk[GoFile] = Torn
  BY <1>2, <1>4 DEF OneWriter
<1>6. commands[p].at = "gofile"
  <2>1. commands[p].todo \subseteq Cache /\ Stamp \in Cache
    BY <1>1, PathFacts DEF Process
  <2> QED
    BY <1>2, <1>4, <2>1, UserFiles DEF WritesAt
<1>7. Fill(p, GoFile, Generated(p))
  <2>1. ~Truncate(p, GoFile)
    BY <1>3 DEF Truncate
  <2> QED
    BY <1>6, <2>1, TakenAt DEF WriteGoFile, Write
<1>8. commands[p].body = texts[Source]
  BY <1>6 DEF SourceIsHeld, FromSource
<1>9. Generated(p) \in Content(GoFile) /\ Generated(p).of = commands[p].body
  BY <1>1, ContentFacts DEF Generated, Process
<1>10. disk'[GoFile] = Generated(p)
  BY <1>1, <1>2, <1>4, <1>5, <1>7 DEF Fill, Writes
<1> QED
  BY <1>2, <1>8, <1>9, <1>10, ContentFacts DEF Whole

(* Brew removes a source only when its text is in the Go file. *)
LEMMA SourceIsInGoKept ==
  ASSUME TypeOK, Steps, OneWriter, SourceIsHis, SourceIsHeld, SourceIsInGo, [Next]_vars
  PROVE  SourceIsInGo'
<1> SUFFICES ASSUME "write" \notin cut', Source \notin raced', GoFile \notin raced',
                    \/ disk'[Source] = None
                    \/ \E q \in Command : commands'[q].at \in {"prompt", "rm"}
             PROVE  \/ \E q \in Command : Writes(q, GoFile)'
                    \/ Whole(GoFile)' /\ disk'[GoFile].of = texts'[Source]
  BY DEF SourceIsInGo, Whole
<1>1. GoFile \in Path /\ GoFile \in Written /\ GoFile \notin UserFile
  BY WrittenFiles, PathFacts
<1>2. ASSUME NEW p \in Command, Runs(p) \/ Stop(p)
      PROVE  \/ \E q \in Command : Writes(q, GoFile)'
             \/ Whole(GoFile)' /\ disk'[GoFile].of = texts'[Source]
  <2>1. /\ UNCHANGED texts /\ "write" \notin cut /\ Source \notin raced /\ GoFile \notin raced
        /\ GoesOn(p)
    BY <1>2, Histories, RunGoesOn
  <2>2. CASE Empties(p, GoFile)
    <3>1. Writes(p, GoFile)'
      BY <2>2 DEF Empties, Truncate, Writes, TypeOK
    <3> QED
      BY <3>1
  <2>3. CASE Fills(p, GoFile) /\ Runs(p)
    BY <2>1, <2>3, FillsGo
  <2>4. CASE ~Empties(p, GoFile) /\ (~Fills(p, GoFile) \/ Stop(p))
    <3>1. \A q \in Command : Writes(q, GoFile) => Writes(q, GoFile)'
      <4>1. ~(Stop(p) /\ Writes(p, GoFile))
        BY <1>1, StopCuts
      <4> QED
        BY <1>1, <1>2, <2>4, <4>1, WritersAfter
    <3>2. disk'[GoFile] = disk[GoFile]
      BY <1>1, <1>2, <2>4, Untouched, UserFiles
    <3>3. disk[Source] = None \/ \E q \in Command : commands[q].at \in {"prompt", "rm"}
      <4>1. CASE disk'[Source] = None
        BY <1>2, <4>1, SourceAfter
      <4>2. ASSUME NEW q \in Command, commands'[q].at \in {"prompt", "rm"}, q # p
            PROVE  commands[q].at \in {"prompt", "rm"}
        BY <2>1, <4>2 DEF GoesOn
      <4>3. ASSUME commands'[p].at \in {"prompt", "rm"} PROVE commands[p].at \in {"prompt", "rm"}
        <5>1. Runs(p) /\ ~Stop(p) /\ commands \in [Command -> Process]
          BY <1>2, <4>3, ExitsGoesOn DEF Stop, Running, TypeOK
        <5>2. CASE commands[p].at = "compile"
          <6>1. Compile(p)
            BY <5>1, <5>2, TakenAt
          <6>2. commands'[p].at = Compiled(commands[p])
            BY <5>1, <6>1 DEF Compile, Becomes, Process
          <6> QED
            BY <4>3, <6>2 DEF Compiled
        <5>3. CASE commands[p].at = "compare"
          <6>1. Exits(p, 0) \/ Goes(p, "gofile")
            BY <5>1, <5>3, TakenAt DEF Compare
          <6>2. Exits(p, 0) => commands'[p].at = "idle"
            BY <5>1 DEF Exits, Becomes, Process
          <6>3. Goes(p, "gofile") => commands'[p].at = "gofile"
            BY <5>1 DEF Goes, Becomes, Process
          <6> QED
            BY <4>3, <6>1, <6>2, <6>3
        <5>4. CASE commands[p].at = "gofile"
          <6>1. UNCHANGED commands
            <7>1. WriteGoFile(p)
              BY <1>2, <5>1, <5>4, TakenAt
            <7>2. Generated(p) \in Content(GoFile)
              BY ContentFacts DEF Generated, TypeOK, Process
            <7>3. ~Fill(p, GoFile, Generated(p))
              BY <2>4, <5>1, <7>2 DEF Fills
            <7> QED
              BY <7>1, <7>3 DEF WriteGoFile, Write
          <6> QED
            BY <4>3, <6>1
        <5> QED
          BY <2>1, <4>3, <5>2, <5>3, <5>4 DEF GoesOn, FromSource
      <4> QED
        BY <4>1, <4>2, <4>3
    <3>4. \/ \E q \in Command : Writes(q, GoFile)
          \/ Whole(GoFile) /\ disk[GoFile].of = texts[Source]
      BY <2>1, <3>3 DEF SourceIsInGo
    <3> QED
      BY <2>1, <3>1, <3>2, <3>4 DEF Whole
  <2> QED
    BY <1>2, <2>2, <2>3, <2>4
<1>3. ASSUME NEW p \in Command, Start(p)
      PROVE  \/ \E q \in Command : Writes(q, GoFile)'
             \/ Whole(GoFile)' /\ disk'[GoFile].of = texts'[Source]
  <2>1. UNCHANGED <<disk, fd, texts, raced>> /\ "write" \notin cut
    BY <1>3, StartLeaves DEF fileVars
  <2>2. \A q \in Command : commands'[q].at \in {"prompt", "rm"} => commands[q].at \in {"prompt", "rm"}
    BY <1>3, StartLeaves
  <2> QED
    BY <2>1, <2>2 DEF SourceIsInGo, Writes, Whole
<1>4. ASSUME Edit
      PROVE  \/ \E q \in Command : Writes(q, GoFile)'
             \/ Whole(GoFile)' /\ disk'[GoFile].of = texts'[Source]
  <2>1. PICK g \in UserFile :
          /\ texts' = [texts EXCEPT ![g] = texts[g] + 1]
          /\ disk'[g] # None /\ Whole(g)
          /\ \A h \in Path \ {g} : disk'[h] = disk[h]
          /\ raced' = IF \E p \in Command : Holds(p, g) THEN raced \cup {g} ELSE raced
    BY <1>4, EditKeepsFiles
  <2>2. UNCHANGED <<commands, fd, cut>> /\ texts \in [UserFile -> Nat]
    BY <1>4 DEF Edit, TypeOK
  <2>3. g # Source
    <3>1. ASSUME g = Source PROVE FALSE
      <4>1. PICK q \in Command : commands[q].at \in {"prompt", "rm"}
        BY <2>1, <2>2, <3>1
      <4>2. Holds(q, Source)
        BY <4>1, HoldsWhat DEF FromSource
      <4>3. \E p \in Command : Holds(p, g)
        BY <3>1, <4>2
      <4> QED
        BY <2>1, <3>1, <4>3
    <3> QED
      BY <3>1
  <2>4. /\ texts'[Source] = texts[Source] /\ disk'[Source] = disk[Source] /\ disk'[GoFile] = disk[GoFile]
        /\ Source \notin raced /\ GoFile \notin raced
    BY <1>1, <2>1, <2>2, <2>3, UserFiles
  <2> QED
    BY <2>2, <2>4 DEF SourceIsInGo, Writes, Whole
<1>5. ASSUME UNCHANGED vars
      PROVE  \/ \E q \in Command : Writes(q, GoFile)'
             \/ Whole(GoFile)' /\ disk'[GoFile].of = texts'[Source]
  BY <1>5 DEF vars, fileVars, SourceIsInGo, Writes, Whole
<1> QED
  BY <1>2, <1>3, <1>4, <1>5 DEF Next

(* What the user wrote last is on disk, or in the Go file that was made of *)
(* his source, unless a file was raced for or a write was cut short.       *)
THEOREM TextSurvives == Spec => []UserTextSurvives
<1> DEFINE Inv == TypeOK /\ Steps /\ OneWriter /\ TextIsHeld /\ SourceIsHis /\ SourceIsHeld /\ SourceIsInGo
<1>1. Init => Inv
  <2> SUFFICES ASSUME Init
               PROVE  OneWriter /\ TextIsHeld /\ SourceIsHis /\ SourceIsHeld /\ SourceIsInGo
    BY InitTypeOK, InitSteps
  <2>1. \A p \in Command : commands[p] = Idle /\ fd[p] = NoFile
    BY DEF Init
  <2>2. \A f \in UserFile : texts[f] = 0 /\ disk[f] \in {None, [text |-> 0, added |-> None]}
    BY UserFiles, PathFacts DEF Init
  <2>3. disk[Source] = [text |-> 0, added |-> None]
    BY UserFiles DEF Init
  <2>4. \A p \in Command, f \in Written : ~Writes(p, f)
    BY <2>1, WrittenFiles, PathFacts DEF Writes, NoFile
  <2>5. \A p \in Command, f \in Noted : ~Holds(p, f)
    BY <2>1, HoldsWhat DEF Noted, Idle
  <2>6. \A f \in Noted : Latest(f)
    BY <2>2, NewMod, WrittenFiles DEF Latest, Whole
  <2>7. SourceIsHis /\ disk[Source] # None
    BY <2>2, <2>3, NewMod, UserFiles DEF SourceIsHis, Whole
  <2> QED
    BY <2>1, <2>4, <2>5, <2>6, <2>7
       DEF OneWriter, TextIsHeld, SourceIsHeld, SourceIsInGo, Idle, FromSource
<1>2. Inv /\ [Next]_vars => Inv'
  BY TypesPreserved, StepsPreserved, OneWriterKept, TextKept, SourceIsHisKept, SourceIsHeldKept,
     SourceIsInGoKept
<1>3. Inv => UserTextSurvives
  <2> SUFFICES ASSUME Inv, NEW f \in UserFile
               PROVE  \/ HasLatest(f)
                      \/ f \in raced \/ (f = Source /\ GoFile \in raced)
                      \/ "write" \in cut
                      \/ \E p \in Command : Writes(p, f) \/ (f = Source /\ Writes(p, GoFile))
    BY DEF UserTextSurvives
  <2>1. CASE f \in Noted
    BY <2>1 DEF TextIsHeld, Latest, HasLatest
  <2>2. CASE f = Source /\ disk[Source] # None
    BY <2>2 DEF SourceIsHis, HasLatest
  <2>3. CASE f = Source /\ disk[Source] = None
    BY <2>3 DEF SourceIsInGo, HasLatest
  <2> QED
    BY <2>1, <2>2, <2>3, WrittenFiles
<1> QED
  BY <1>1, <1>2, <1>3, PTL DEF Spec

-----------------------------------------------------------------------------
(* The library.                                                            *)

(* The other commands' files stay open, if not removed by p. *)
LEMMA OthersOpen ==
  ASSUME TypeOK, Steps, NEW p \in Command, Runs(p) \/ Stop(p), NEW q \in Command \ {p}
  PROVE  \/ fd'[q] = fd[q]
         \/ /\ commands[p].at = "remove" /\ fd[q].path \in Cache /\ disk'[fd[q].path] = None
            /\ fd'[q] = [path |-> fd[q].path, linked |-> FALSE]
<1>1. fd \in [Command -> Open] /\ disk \in [Path -> Value] /\ FileIsOpen(q)
  BY DEF TypeOK, Steps, Stands
<1>2. CASE Reads(p) \/ Makes(p) \/ Closes(p)
  BY <1>1, <1>2 DEF Reads, Makes, Closes
<1>3. ASSUME NEW f \in Path, Empties(p, f) \/ Fills(p, f) PROVE fd'[q] = fd[q]
  BY <1>1, <1>3 DEF Empties, Truncate, Fills, Fill
<1>4. ASSUME NEW f \in Cache \cup {Source}, Removed(p, f), fd'[q] # fd[q]
      PROVE  /\ commands[p].at = "remove" /\ fd[q].path \in Cache /\ disk'[fd[q].path] = None
             /\ fd'[q] = [path |-> fd[q].path, linked |-> FALSE]
  <2>1. fd[q].path = f /\ fd'[q] = [fd[q] EXCEPT !.linked = FALSE] /\ disk'[f] = None
    BY <1>1, <1>4, UserFiles, PathFacts DEF Removed, Remove
  <2>2. fd'[q] = [path |-> f, linked |-> FALSE]
    BY <1>1, <2>1 DEF Open
  <2>3. fd[q] # NoFile
    BY <2>1, PathFacts, UserFiles DEF NoFile
  <2>4. commands[q].todo \subseteq Cache /\ Stamp \in Cache
    BY PathFacts DEF TypeOK, Process
  <2>5. f # Source
    BY <1>1, <2>1, <2>3, <2>4, PathFacts, UserFiles
       DEF FileIsOpen, WritesAt, Source, GoFile, Agents, Claude, GoMod
  <2> QED
    BY <1>4, <2>1, <2>2, <2>5 DEF Removed
<1> QED
  BY <1>2, <1>3, <1>4, FilesAfter

(* What a command at the cache writes, and where it goes then. *)
LEMMA FillsCache ==
  ASSUME TypeOK, Steps, NEW p \in Command, Runs(p), NEW f \in Cache, Fills(p, f)
  PROVE  /\ commands[p].at = "extract" /\ Fill(p, f, commands[p].version)
         /\ \/ f \in commands[p].todo /\ Done(p, f)
            \/ f = Stamp /\ commands[p].todo = {} /\ Goes(p, "readagents")
<1>1. FileIsOpen(p) /\ f # None
  BY PathFacts DEF Steps, Stands
<1>2. fd[p].path = f /\ fd[p] # NoFile
  BY <1>1 DEF Fills, Fill, NoFile
<1>3. \A g : ~Truncate(p, g) /\ \A content : Fill(p, g, content) => g = f
  BY <1>2 DEF Truncate, Fill
<1>4. commands[p].at = "extract"
  BY <1>1, <1>2, UserFiles, PathFacts DEF FileIsOpen, WritesAt
<1>5. CASE Extract(p)
  <2>1. PICK g \in commands[p].todo : Write(p, g, commands[p].version, Done(p, g))
    BY <1>5 DEF Extract
  <2>2. Fill(p, g, commands[p].version) /\ Done(p, g)
    BY <1>3, <2>1 DEF Write
  <2> QED
    BY <1>3, <1>4, <2>2
<1>6. CASE WriteStamp(p)
  <2>1. Fill(p, Stamp, commands[p].version) /\ Goes(p, "readagents") /\ commands[p].todo = {}
    BY <1>3, <1>6 DEF WriteStamp, Write
  <2> QED
    BY <1>3, <1>4, <2>1
<1> QED
  BY <1>4, <1>5, <1>6, TakenAt

(* While no two versions meet, what is written in the cache is of the writer's version. *)
LEMMA RunKeepsVersion ==
  ASSUME TypeOK, Steps, SameVersion, NEW p \in Command, Runs(p) \/ Stop(p), "mixed" \notin cut',
         NEW q \in Command, fd'[q].path \in Cache
  PROVE  disk'[fd'[q].path] \in {None, Torn, commands'[q].version}
<1>1. /\ disk \in [Path -> Value] /\ fd \in [Command -> Open] /\ "mixed" \notin cut /\ GoesOn(p)
      /\ FileIsOpen(p) /\ FileIsOpen(q)
  BY Histories, RunGoesOn DEF TypeOK, Steps, Stands
<1>2. Cache \subseteq Path /\ None \notin Cache /\ Source \notin Cache /\ GoMod \notin Cache
  BY PathFacts, UserFiles
<1>3. commands'[q].version = commands[q].version
  BY <1>1 DEF GoesOn
<1>4. ASSUME fd'[q].path = fd[q].path PROVE disk[fd'[q].path] \in {None, Torn, commands[q].version}
  BY <1>1, <1>4 DEF SameVersion
<1>5. q # p => fd'[q].path = fd[q].path
  <2>1. ASSUME NEW r \in Command \ {p} PROVE fd'[r].path = fd[r].path
    <3>1. fd'[r] = fd[r] \/ fd'[r] = [path |-> fd[r].path, linked |-> FALSE]
      BY OthersOpen
    <3> QED
      BY <3>1
  <2> QED
    BY <2>1
<1>6. CASE Reads(p)
  BY <1>3, <1>4, <1>6 DEF Reads
<1>7. CASE Makes(p)
  BY <1>1, <1>2, <1>3, <1>4, <1>7 DEF Makes
<1>8. CASE Stop(p) /\ Closes(p)
  <2>1. q # p
    BY <1>1, <1>2, <1>8 DEF Closes, NoFile
  <2> QED
    BY <1>3, <1>4, <1>5, <1>8, <2>1 DEF Closes
<1>9. ASSUME NEW f \in Path, Empties(p, f) PROVE disk'[fd'[q].path] \in {None, Torn, commands'[q].version}
  <2>1. fd' = [fd EXCEPT ![p] = [path |-> f, linked |-> TRUE]] /\ disk' = [disk EXCEPT ![f] = Torn]
    BY <1>9 DEF Empties, Truncate
  <2>2. CASE fd'[q].path = f
    BY <1>1, <2>1, <2>2
  <2>3. CASE fd'[q].path # f
    <3>1. q # p
      BY <1>1, <2>1, <2>3
    <3> QED
      BY <1>1, <1>2, <1>3, <1>4, <1>5, <2>1, <2>3, <3>1
  <2> QED
    BY <2>2, <2>3
<1>10. ASSUME NEW f \in Path, Fills(p, f), Runs(p)
       PROVE  disk'[fd'[q].path] \in {None, Torn, commands'[q].version}
  <2>1. fd' = [fd EXCEPT ![p] = NoFile] /\ q # p /\ fd[q] # NoFile
    BY <1>1, <1>2, <1>5, <1>10 DEF Fills, Fill, NoFile
  <2>2. CASE fd'[q].path = f
    <3>1. Fill(p, f, commands[p].version) /\ commands[p].at = "extract"
      BY <1>10, <2>2, FillsCache
    <3>2. commands[q].at # "idle"
      BY <1>1, <2>1 DEF FileIsOpen, WritesAt
    <3>3. commands[p].version = commands[q].version
      BY <1>1, <3>1, <3>2 DEF SameVersion, Running
    <3>4. disk'[f] \in {disk[f], Torn, commands[p].version}
      BY <1>1, <3>1 DEF Fill
    <3> QED
      BY <1>3, <1>4, <1>5, <2>1, <2>2, <3>3, <3>4
  <2>3. CASE fd'[q].path # f
    <3>1. disk'[fd'[q].path] = disk[fd'[q].path]
      BY <1>1, <1>2, <1>10, <2>3 DEF Fills, Fill
    <3> QED
      BY <1>3, <1>4, <1>5, <2>1, <3>1
  <2> QED
    BY <2>2, <2>3
<1>11. ASSUME NEW f \in Cache \cup {Source}, Removed(p, f)
       PROVE  disk'[fd'[q].path] \in {None, Torn, commands'[q].version}
  <2>1. disk' = [disk EXCEPT ![f] = None] /\ fd'[q].path = fd[q].path
    BY <1>1, <1>5, <1>11 DEF Removed, Remove, NoFile
  <2> QED
    BY <1>1, <1>2, <1>3, <1>4, <2>1
<1> QED
  BY <1>6, <1>7, <1>8, <1>9, <1>10, <1>11, FilesAfter DEF Stop, Closes

(* So all commands that run are of one version. *)
LEMMA SameVersionKept ==
  ASSUME TypeOK, Steps, SameVersion, [Next]_vars
  PROVE  SameVersion'
<1> SUFFICES ASSUME "mixed" \notin cut'
             PROVE  /\ \A r, q \in Command : commands'[r].at # "idle" /\ commands'[q].at # "idle" =>
                         commands'[r].version = commands'[q].version
                    /\ \A q \in Command : fd'[q].path \in Cache =>
                         disk'[fd'[q].path] \in {None, Torn, commands'[q].version}
  BY DEF SameVersion, Running
<1>1. ASSUME NEW p \in Command, Runs(p) \/ Stop(p)
      PROVE  /\ \A r, q \in Command : commands'[r].at # "idle" /\ commands'[q].at # "idle" =>
                  commands'[r].version = commands'[q].version
             /\ \A q \in Command : fd'[q].path \in Cache =>
                  disk'[fd'[q].path] \in {None, Torn, commands'[q].version}
  <2>1. GoesOn(p) /\ "mixed" \notin cut
    BY <1>1, RunGoesOn, Histories
  <2>2. \A q \in Command : /\ commands'[q].at # "idle" => commands[q].at # "idle"
                           /\ commands'[q].version = commands[q].version
    BY <2>1 DEF GoesOn
  <2> QED
    BY <1>1, <2>1, <2>2, RunKeepsVersion DEF SameVersion, Running
<1>2. ASSUME NEW p \in Command, Start(p)
      PROVE  /\ \A r, q \in Command : commands'[r].at # "idle" /\ commands'[q].at # "idle" =>
                  commands'[r].version = commands'[q].version
             /\ \A q \in Command : fd'[q].path \in Cache =>
                  disk'[fd'[q].path] \in {None, Torn, commands'[q].version}
  <2>1. "mixed" \notin cut /\ UNCHANGED <<disk, fd>>
    BY <1>2, StartLeaves DEF fileVars
  <2>2. ASSUME NEW q \in Command \ {p}, commands'[q].at # "idle"
        PROVE  commands'[q].version = commands'[p].version
    BY <1>2, <2>2, StartLeaves
  <2>3. ASSUME NEW q \in Command, fd'[q].path \in Cache
        PROVE  disk'[fd'[q].path] \in {None, Torn, commands'[q].version}
    <3>1. q # p
      <4>1. FileIsOpen(p) /\ commands[p].at = "idle"
        BY <1>2, StartLeaves DEF Steps, Stands
      <4>2. fd[p] = NoFile
        BY <4>1 DEF FileIsOpen, WritesAt
      <4> QED
        BY <2>1, <2>3, <4>2, PathFacts DEF NoFile
    <3>2. commands'[q].version = commands[q].version
      BY <1>2, <3>1, StartLeaves
    <3> QED
      BY <2>1, <2>3, <3>2 DEF SameVersion
  <2> QED
    BY <2>2, <2>3
<1>3. ASSUME Edit
      PROVE  /\ \A r, q \in Command : commands'[r].at # "idle" /\ commands'[q].at # "idle" =>
                  commands'[r].version = commands'[q].version
             /\ \A q \in Command : fd'[q].path \in Cache =>
                  disk'[fd'[q].path] \in {None, Torn, commands'[q].version}
  <2>1. UNCHANGED <<commands, fd, cut>> /\ \A f \in Cache : disk'[f] = disk[f]
    BY <1>3, EditKeepsFiles, PathFacts DEF Edit
  <2> QED
    BY <2>1 DEF SameVersion, Running
<1>4. CASE UNCHANGED vars
  BY <1>4 DEF vars, fileVars, SameVersion, Running
<1> QED
  BY <1>1, <1>2, <1>3, <1>4 DEF Next

(* Nothing happens at the cache. *)
CacheSame ==
  /\ \A f \in Cache : disk'[f] = disk[f]
  /\ cut \subseteq cut'
  /\ \A q \in Command :
       /\ commands'[q].at = "remove" <=> commands[q].at = "remove"
       /\ commands'[q].at = "extract" <=> commands[q].at = "extract"
       /\ commands[q].at = "extract" =>
            /\ commands'[q].version = commands[q].version /\ commands'[q].todo = commands[q].todo
            /\ fd'[q] = fd[q]

(* A step that leaves the library and its commands alone keeps what is known of it. *)
LEMMA SameCache ==
  ASSUME LibraryHeld, CacheSame
  PROVE  LibraryHeld'
<1> USE DEF CacheSame
<1>1. Stamp \in Cache /\ LibFile \subseteq Cache
  BY PathFacts
<1>2. \A q \in Command : /\ Removes(q)' <=> Removes(q)
                         /\ AtCache(q)' <=> AtCache(q)
                         /\ BringsStamp(q)' <=> BringsStamp(q)
                         /\ \A v : Extracting(q, v)' <=> Extracting(q, v)
                         /\ \A v, f : Brings(q, v, f)' <=> Brings(q, v, f)
  BY DEF Removes, AtCache, At, BringsStamp, Extracting, Brings
<1>3. ASSUME NEW v \in Version, Vouched(v)' PROVE Vouched(v)
  BY <1>1, <1>2, <1>3 DEF Vouched
<1>4. ASSUME NEW v \in Version, NEW f \in LibFile, Held(v, f) PROVE Held(v, f)'
  <2>1. disk'[f] = disk[f]
    BY <1>1
  <2> QED
    BY <1>2, <1>4, <2>1 DEF Held
<1>5. NoStampNoFiles'
  BY <1>1, <1>2 DEF LibraryHeld, NoStampNoFiles
<1> QED
  BY <1>3, <1>4, <1>5 DEF LibraryHeld

(* A command that is not at the library is such a step. *)
LEMMA OffCache ==
  ASSUME TypeOK, Steps, NEW p \in Command, Runs(p) \/ Stop(p), commands[p].at \notin AtLibrary
  PROVE  CacheSame
<1>1. GoesOn(p) /\ cut \subseteq cut'
  BY RunGoesOn, Histories
<1>2. \A q \in Command \ {p} : commands'[q] = commands[q] /\ fd'[q] = fd[q]
  BY <1>1, OthersOpen DEF GoesOn, AtLibrary
<1>3. commands[p].at \notin {"remove", "extract"} /\ commands'[p].at \notin {"remove", "extract"}
  BY <1>1 DEF GoesOn, AtLibrary
<1>4. ASSUME NEW f \in Cache PROVE disk'[f] = disk[f]
  <2>1. ~Changes(commands[p], f)
    BY <1>3, PathFacts, UserFiles DEF Changes, WritesAt
  <2> QED
    BY <2>1, PathFacts, DiskAfter
<1> QED
  BY <1>1, <1>2, <1>3, <1>4 DEF CacheSame

(* While a command extracts, its version is the only one. *)
LEMMA OneVouched ==
  ASSUME NEW p \in Command, commands'[p].at = "extract", "mixed" \notin cut', SameVersion',
         NEW v, Vouched(v)'
  PROVE  v = commands'[p].version
<1>1. AtCache(p)' /\ Running(p)'
  BY DEF AtCache, At, Running
<1>2. PICK q \in Command : Extracting(q, v)'
  BY <1>1 DEF Vouched
<1>3. Running(q)' /\ commands'[q].version = v
  BY <1>2 DEF Extracting, Running
<1> QED
  BY <1>1, <1>3 DEF SameVersion

(* An extraction starts: all files of its version are to come, and there   *)
(* are no others but those left behind.                                    *)
LEMMA ExtractionStarts ==
  ASSUME TypeOK, Steps, SameVersion', NEW p \in Command, commands[p].at \in {"stamp", "remove"},
         Extracts(p), fd[p] = NoFile, UNCHANGED <<disk, fd>>, "mixed" \notin cut',
         \A f \in LibFile \ Stdlib[commands[p].version] :
           disk[f] = None \/ "cache" \in cut' \/ \E q \in Command \ {p} : Removes(q)
  PROVE  LibraryHeld'
<1>1. /\ GoesOn(p) /\ commands'[p].at = "extract" /\ commands'[p].todo = Stdlib[commands[p].version]
      /\ commands'[p].version = commands[p].version
  BY ExtractsGoesOn DEF GoesOn
<1>2. NoFile.path = None /\ fd'[p] = NoFile
  BY DEF NoFile
<1>3. ASSUME NEW v \in Version, Vouched(v)', NEW f \in LibFile PROVE Held(v, f)'
  <2>1. v = commands[p].version
    BY <1>1, <1>3, OneVouched
  <2>2. CASE f \in Stdlib[v]
    <3>1. fd'[p] # [path |-> f, linked |-> FALSE]
      BY <1>2, PathFacts
    <3>2. Brings(p, v, f)'
      BY <1>1, <2>1, <2>2, <3>1 DEF Brings, Extracting
    <3> QED
      BY <2>2, <3>2 DEF Held
  <2>3. CASE f \notin Stdlib[v]
    <3>1. \A q \in Command \ {p} : Removes(q) => Removes(q)'
      BY <1>1 DEF Removes, GoesOn
    <3> QED
      BY <2>1, <2>3, <3>1 DEF Held
  <2> QED
    BY <2>2, <2>3
<1>4. BringsStamp(p)'
  <2>1. fd'[p] # [path |-> Stamp, linked |-> FALSE]
    BY <1>2, PathFacts
  <2> QED
    BY <1>1, <2>1 DEF BringsStamp
<1> QED
  BY <1>3, <1>4 DEF LibraryHeld, NoStampNoFiles

(* A cache that is being removed promises nothing. *)
LEMMA RemovalPromisesNothing ==
  ASSUME NEW p \in Command, Removes(p)'
  PROVE  LibraryHeld'
BY DEF LibraryHeld, Held, NoStampNoFiles

(* Reading the stamp decides whether the library is extracted again. *)
LEMMA StampRead ==
  ASSUME TypeOK, Steps, SameVersion, SameVersion', LibraryHeld, NEW p \in Command,
         commands[p].at = "stamp", Runs(p), "mixed" \notin cut'
  PROVE  LibraryHeld'
<1>1. /\ GoesOn(p) /\ cut \subseteq cut' /\ fd[p] = NoFile /\ "mixed" \notin cut
      /\ commands[p].version \in Version /\ commands \in [Command -> Process]
  BY RunGoesOn, Histories DEF Steps, Stands, Shape, FileIsOpen, WritesAt, TypeOK
<1>2. UNCHANGED <<disk, fd>>
  BY TakenAt DEF ReadStamp, MissStamp, NoFiles
<1>3. CASE ReadStamp(p) /\ disk[Stamp] = None /\ Extracts(p)
  <2>1. ASSUME NEW f \in LibFile \ Stdlib[commands[p].version]
        PROVE  disk[f] = None \/ "cache" \in cut' \/ \E q \in Command \ {p} : Removes(q)
    <3> SUFFICES ASSUME "cache" \notin cut, \A q \in Command \ {p} : ~Removes(q)
                 PROVE  disk[f] = None
      BY <1>1
    <3>1. \A q \in Command : ~Removes(q)
      BY DEF Removes
    <3>2. CASE \A g \in LibFile : disk[g] = None
      BY <3>2
    <3>3. ASSUME NEW q \in Command, BringsStamp(q) PROVE disk[f] = None
      <4>1. Running(q) /\ Running(p)
        BY <3>3 DEF BringsStamp, Running
      <4>2. Extracting(q, commands[p].version)
        BY <1>1, <3>3, <4>1 DEF SameVersion, BringsStamp, Extracting
      <4>3. Vouched(commands[p].version)
        BY <4>2 DEF Vouched
      <4>4. Held(commands[p].version, f)
        BY <1>1, <4>3 DEF LibraryHeld
      <4> QED
        BY <3>1, <4>4 DEF Held
    <3> QED
      BY <1>3, <3>1, <3>2, <3>3 DEF LibraryHeld, NoStampNoFiles
  <2> QED
    BY <1>1, <1>2, <1>3, <2>1, ExtractionStarts
<1>4. CASE ReadStamp(p) /\ Goes(p, "readmod")
  <2>1. commands'[p].at = "readmod"
    BY <1>1, <1>4 DEF Goes, Becomes, Process
  <2>2. CacheSame
    BY <1>1, <1>2, <2>1 DEF CacheSame, GoesOn
  <2> QED
    BY <2>2, SameCache
<1>5. CASE ReadStamp(p) /\ Goes(p, "remove")
  <2>1. Removes(p)'
    BY <1>1, <1>5 DEF Goes, Becomes, Process, Removes
  <2> QED
    BY <2>1, RemovalPromisesNothing
<1>6. CASE MissStamp(p)
  <2>1. Extracts(p) /\ "cache" \in cut'
    BY <1>6 DEF MissStamp
  <2> QED
    BY <1>1, <1>2, <2>1, ExtractionStarts
<1> QED
  BY <1>3, <1>4, <1>5, <1>6, TakenAt DEF ReadStamp

(* While the library is removed nothing is claimed of its files, and when it is gone all of it is
   to be extracted. *)
LEMMA CacheRemoved ==
  ASSUME TypeOK, Steps, SameVersion', NEW p \in Command,
         commands[p].at = "remove", Runs(p), "mixed" \notin cut'
  PROVE  LibraryHeld'
<1>1. RemoveAll(p) /\ fd[p] = NoFile
  BY TakenAt DEF Steps, Stands, FileIsOpen, WritesAt
<1>2. CASE UNCHANGED commands
  <2>1. Removes(p)'
    BY <1>2 DEF Removes
  <2> QED
    BY <2>1, RemovalPromisesNothing
<1>3. CASE (\A f \in Cache : disk[f] = None) /\ Extracts(p) /\ UNCHANGED <<disk, fd>>
  BY <1>1, <1>3, PathFacts, ExtractionStarts
<1> QED
  BY <1>1, <1>2, <1>3 DEF RemoveAll

(* What a step of an extraction leaves of the other files of the library.  *)
LEMMA OthersHeld ==
  ASSUME TypeOK, Steps, NEW p \in Command, commands[p].at = "extract", Runs(p), NEW f \in Cache,
         Truncate(p, f) \/ Fill(p, f, commands[p].version),
         \A h \in commands[p].todo \ {f} :
           commands'[p].at = "extract" /\ h \in commands'[p].todo,
         NEW v, NEW g \in LibFile \ {f}, Held(v, g)
  PROVE  Held(v, g)'
<1>1. /\ GoesOn(p) /\ cut \subseteq cut' /\ g # None /\ g \in Path
      /\ disk \in [Path -> Value] /\ fd \in [Command -> Open]
  BY RunGoesOn, Histories, PathFacts DEF TypeOK
<1>2. disk'[g] = disk[g] /\ fd'[p] # [path |-> g, linked |-> FALSE]
  BY <1>1 DEF Truncate, Fill, NoFile
<1>3. \A q \in Command \ {p} : commands'[q] = commands[q] /\ fd'[q] = fd[q]
  BY <1>1, OthersOpen DEF GoesOn
<1>4. CASE \E q \in Command : Removes(q)
  BY <1>3, <1>4 DEF Removes, Held
<1>5. ASSUME NEW q \in Command, Brings(q, v, g) PROVE Brings(q, v, g)'
  <2>1. CASE q = p
    BY <1>1, <1>2, <1>5, <2>1 DEF Brings, Extracting, GoesOn
  <2>2. CASE q # p
    BY <1>3, <1>5, <2>2 DEF Brings, Extracting
  <2> QED
    BY <2>1, <2>2
<1>6. CASE g \in Stdlib[v] /\ (disk[g] = v \/ \E q \in Command : Brings(q, v, g))
  BY <1>2, <1>5, <1>6 DEF Held
<1>7. CASE g \notin Stdlib[v] /\ (disk[g] = None \/ "cache" \in cut)
  BY <1>1, <1>2, <1>7 DEF Held
<1> QED
  BY <1>4, <1>6, <1>7 DEF Held

(* Extracting a file adds it to those that are there. *)
LEMMA FileExtracted ==
  ASSUME TypeOK, Steps, SameVersion, SameVersion', LibraryHeld, NEW p \in Command,
         commands[p].at = "extract", Runs(p), "mixed" \notin cut', Extract(p)
  PROVE  LibraryHeld'
<1> PICK w \in Version : w = commands[p].version
  BY DEF Steps, Stands, Shape
<1>1. PICK f \in commands[p].todo : Write(p, f, w, Done(p, f))
  BY DEF Extract
<1>2. /\ GoesOn(p) /\ cut \subseteq cut' /\ FileIsOpen(p) /\ "mixed" \notin cut
      /\ commands[p].todo \subseteq Stdlib[w] /\ commands'[p].version = w
      /\ disk \in [Path -> Value] /\ fd \in [Command -> Open]
  BY RunGoesOn, Histories DEF Steps, Stands, Shape, TypeOK, GoesOn
<1>3. f \in LibFile /\ f \in Cache /\ f \in Path /\ f # None /\ f # Stamp /\ Stamp \in Path
  BY PathFacts, FileAssumption DEF TypeOK, Process
<1>4. \/ Truncate(p, f) /\ UNCHANGED commands
      \/ Fill(p, f, w) /\ Done(p, f)
  BY <1>1 DEF Write
<1>5. commands'[p].at = "extract" /\ commands[p].todo \ {f} \subseteq commands'[p].todo
  BY <1>4, DoneGoesOn
<1>6. /\ disk'[Stamp] = disk[Stamp] /\ fd'[p] # [path |-> Stamp, linked |-> FALSE]
      /\ fd'[p] # [path |-> f, linked |-> FALSE]
  BY <1>2, <1>3, <1>4, PathFacts DEF Truncate, Fill, NoFile
<1>7. BringsStamp(p)'
  BY <1>5, <1>6 DEF BringsStamp
<1>8. \A g \in LibFile : Held(w, g)
  BY <1>2 DEF LibraryHeld, Vouched, Extracting
<1>9. Held(w, f)'
  <2>1. CASE Truncate(p, f) /\ UNCHANGED commands
    <3>1. Brings(p, w, f)'
      BY <1>2, <1>6, <2>1 DEF Brings, Extracting
    <3> QED
      BY <1>2, <3>1 DEF Held
  <2>2. CASE Fill(p, f, w) /\ fd[p].linked
    <3>1. disk[f] \in {Torn, w}
      <4>1. disk[f] \in {None, Torn, w}
        BY <1>2, <1>3, <2>2 DEF SameVersion, Fill
      <4> QED
        BY <1>2, <2>2, <4>1 DEF FileIsOpen, Fill
    <3>2. disk'[f] = w
      BY <1>2, <1>3, <2>2, <3>1 DEF Fill
    <3> QED
      BY <1>2, <3>2 DEF Held
  <2>3. CASE Fill(p, f, w) /\ ~fd[p].linked
    <3>1. fd[p] = [path |-> f, linked |-> FALSE] /\ disk'[f] = disk[f]
      BY <1>2, <2>3 DEF Fill, Open
    <3>2. ~Brings(p, w, f)
      BY <3>1 DEF Brings
    <3>3. CASE \E q \in Command : Removes(q)
      BY <1>2, <3>3 DEF GoesOn, Removes, Held
    <3>4. ASSUME NEW q \in Command, Brings(q, w, f) PROVE Brings(q, w, f)'
      <4>1. q # p
        BY <3>2, <3>4
      <4>2. commands'[q] = commands[q] /\ fd'[q] = fd[q]
        BY <1>2, <4>1, OthersOpen DEF GoesOn
      <4> QED
        BY <3>4, <4>2 DEF Brings, Extracting
    <3> QED
      BY <1>2, <1>3, <1>8, <3>1, <3>3, <3>4 DEF Held
  <2> QED
    BY <1>4, <2>1, <2>2, <2>3
<1>10. ASSUME NEW v \in Version, Vouched(v)', NEW g \in LibFile PROVE Held(v, g)'
  <2>1. v = w
    BY <1>2, <1>5, <1>10, OneVouched
  <2>2. CASE g # f
    BY <1>3, <1>4, <1>5, <1>8, <2>1, <2>2, OthersHeld
  <2>3. CASE g = f
    BY <1>9, <2>1, <2>3
  <2> QED
    BY <2>2, <2>3
<1> QED
  BY <1>7, <1>10 DEF LibraryHeld, NoStampNoFiles

(* When every file is extracted the stamp follows, and vouches for them. *)
LEMMA StampWritten ==
  ASSUME TypeOK, Steps, SameVersion, SameVersion', LibraryHeld, NEW p \in Command,
         commands[p].at = "extract", Runs(p), "mixed" \notin cut', WriteStamp(p)
  PROVE  LibraryHeld'
<1> PICK w \in Version : w = commands[p].version
  BY DEF Steps, Stands, Shape
<1>1. commands[p].todo = {} /\ Write(p, Stamp, w, Goes(p, "readagents"))
  BY DEF WriteStamp
<1>2. /\ GoesOn(p) /\ cut \subseteq cut' /\ FileIsOpen(p) /\ "mixed" \notin cut
      /\ commands'[p].version = w
      /\ disk \in [Path -> Value] /\ fd \in [Command -> Open] /\ commands[p] \in Process
  BY RunGoesOn, Histories DEF Steps, Stands, TypeOK, GoesOn
<1>3. Stamp \in Cache /\ Stamp \in Path /\ Stamp \notin LibFile /\ None # Torn /\ Torn # w
  BY PathFacts, FileAssumption, ContentFacts, ToolchainAssumption DEF Content
<1>4. \/ Truncate(p, Stamp) /\ UNCHANGED commands
      \/ Fill(p, Stamp, w) /\ Goes(p, "readagents")
  BY <1>1 DEF Write
<1>5. \A g \in LibFile : Held(w, g)'
  <2>1. \A g \in LibFile : Held(w, g)
    BY DEF LibraryHeld, Vouched, Extracting
  <2> QED
    BY <1>1, <1>3, <1>4, <2>1, OthersHeld
<1>6. \A q \in Command \ {p} : commands'[q] = commands[q] /\ fd'[q] = fd[q]
  BY <1>2, OthersOpen DEF GoesOn
<1>7. ASSUME NEW q \in Command, commands'[q].at = "extract" PROVE commands'[q].version = w
  <2>1. commands[q].at = "extract"
    BY <1>2, <1>7 DEF GoesOn, AtLibrary
  <2>2. commands[q].version = w /\ commands'[q].version = commands[q].version
    BY <1>2, <2>1 DEF SameVersion, Running, GoesOn
  <2> QED
    BY <2>2
<1>8. CASE Truncate(p, Stamp) /\ UNCHANGED commands
  <2>1. disk'[Stamp] = Torn
    BY <1>2, <1>3, <1>8 DEF Truncate
  <2>2. ASSUME NEW v \in Version, Vouched(v)', NEW g \in LibFile PROVE Held(v, g)'
    <3>1. v = w
      BY <1>2, <1>8, <2>2, OneVouched
    <3> QED
      BY <1>5, <3>1
  <2>3. NoStampNoFiles'
    BY <1>3, <2>1 DEF NoStampNoFiles
  <2> QED
    BY <2>2, <2>3 DEF LibraryHeld
<1>9. CASE Fill(p, Stamp, w) /\ Goes(p, "readagents")
  <2>1. disk[Stamp] \in {None, Torn, w} /\ disk'[Stamp] \in {disk[Stamp], w}
    <3>1. fd[p].path = Stamp /\ disk[Stamp] \in {None, Torn, w}
      BY <1>2, <1>3, <1>9 DEF SameVersion, Fill
    <3>2. fd[p].linked => disk[Stamp] # None
      BY <1>2, <3>1 DEF FileIsOpen
    <3> QED
      BY <1>2, <1>3, <1>9, <3>1, <3>2 DEF Fill
  <2>2. ASSUME NEW v \in Version, Vouched(v)' PROVE v = w
    <3>1. v # None /\ v # Torn
      BY <1>3, ContentFacts, ToolchainAssumption DEF Content
    <3>2. CASE disk'[Stamp] = v
      BY <2>1, <3>1, <3>2
    <3>3. ASSUME NEW q \in Command, Extracting(q, v)' PROVE v = w
      BY <1>7, <3>3 DEF Extracting
    <3> QED
      BY <2>2, <3>2, <3>3 DEF Vouched
  <2>3. NoStampNoFiles'
    <3> SUFFICES ASSUME disk'[Stamp] = None, "cache" \notin cut'
                 PROVE  \E q \in Command : Removes(q)' \/ BringsStamp(q)'
      BY DEF NoStampNoFiles
    <3>1. ~fd[p].linked /\ fd[p].path = Stamp /\ disk[Stamp] = None
      BY <1>2, <1>3, <1>9, ToolchainAssumption DEF Fill, Content
    <3>2. fd[p] = [path |-> Stamp, linked |-> FALSE]
      BY <1>2, <3>1 DEF Open
    <3>3. PICK q \in Command : Removes(q) \/ BringsStamp(q)
      BY <1>2, <3>1 DEF LibraryHeld, NoStampNoFiles, AtCache, At
    <3>4. q # p
      BY <3>2, <3>3 DEF Removes, BringsStamp
    <3> QED
      BY <1>6, <3>3, <3>4 DEF Removes, BringsStamp
  <2> QED
    BY <1>5, <2>2, <2>3 DEF LibraryHeld
<1> QED
  BY <1>4, <1>8, <1>9

(* What is left at the cache by a command that stops there and was alone   *)
(* at it, without a stamp, promises nothing either.                        *)
LEMMA StoppedAtCache ==
  ASSUME TypeOK, Steps, NEW p \in Command, commands[p].at \in {"remove", "extract"}, Stop(p),
         "stamped" \notin cut'
  PROVE  LibraryHeld'
<1>1. /\ "cache" \in cut' /\ disk[Stamp] = None /\ UNCHANGED disk
      /\ \A q \in Command \ {p} : commands[q].at = "idle"
  BY DEF Stop, AtCache, At, Running
<1>2. GoesOn(p) /\ commands'[p].at = "idle"
  BY RunGoesOn, ExitsGoesOn DEF Stop
<1>3. \A q \in Command : commands'[q].at = "idle"
  BY <1>1, <1>2 DEF GoesOn
<1>4. None \notin Version
  BY PathFacts, ContentFacts
<1> QED
  BY <1>1, <1>3, <1>4 DEF LibraryHeld, Vouched, Extracting, NoStampNoFiles

(* Every step keeps what the stamp vouches for. *)
LEMMA LibraryInvKept ==
  ASSUME TypeOK, Steps, SameVersion, SameVersion', LibraryInv, [Next]_vars
  PROVE  LibraryInv'
<1> SUFFICES ASSUME "stamped" \notin cut', "mixed" \notin cut'
             PROVE  LibraryHeld'
  BY DEF LibraryInv
<1>1. ASSUME NEW p \in Command, Runs(p) \/ Stop(p) PROVE LibraryHeld'
  <2>1. LibraryHeld
    BY <1>1, Histories DEF LibraryInv
  <2>2. CASE commands[p].at \notin AtLibrary
    BY <1>1, <2>1, <2>2, OffCache, SameCache
  <2>3. CASE commands[p].at = "stamp" /\ Stop(p)
    <3>1. GoesOn(p) /\ commands'[p].at = "idle" /\ cut \subseteq cut'
      BY <1>1, <2>3, RunGoesOn, ExitsGoesOn, Histories DEF Stop
    <3>2. /\ UNCHANGED disk
          /\ \A q \in Command \ {p} : commands'[q] = commands[q] /\ fd'[q] = fd[q]
      BY <2>3, <3>1, OthersOpen DEF GoesOn, Stop
    <3>3. CacheSame
      BY <2>3, <3>1, <3>2 DEF CacheSame
    <3> QED
      BY <2>1, <3>3, SameCache
  <2>4. CASE commands[p].at \in {"remove", "extract"} /\ Stop(p)
    BY <2>4, StoppedAtCache
  <2>5. CASE Runs(p)
    BY <2>1, <2>2, <2>5, TakenAt, StampRead, CacheRemoved, FileExtracted, StampWritten
       DEF AtLibrary
  <2> QED
    BY <1>1, <2>2, <2>3, <2>4, <2>5 DEF AtLibrary
<1>2. ASSUME NEW p \in Command, Start(p) PROVE LibraryHeld'
  <2>1. CacheSame
    BY <1>2, StartLeaves DEF CacheSame, fileVars
  <2> QED
    BY <1>2, <2>1, StartLeaves, SameCache DEF LibraryInv
<1>3. ASSUME Edit PROVE LibraryHeld'
  <2>1. CacheSame /\ UNCHANGED cut
    BY <1>3, EditKeepsFiles, PathFacts DEF CacheSame, Edit
  <2> QED
    BY <2>1, SameCache DEF LibraryInv
<1>4. CASE UNCHANGED vars
  <2>1. CacheSame /\ UNCHANGED cut
    BY <1>4 DEF CacheSame, vars, fileVars
  <2> QED
    BY <2>1, SameCache DEF LibraryInv
<1> QED
  BY <1>1, <1>2, <1>3, <1>4 DEF Next

(* At the start there is no stamp. *)
LEMMA InitLibrary == Init => SameVersion /\ LibraryInv
<1> SUFFICES ASSUME Init PROVE SameVersion /\ LibraryInv
  OBVIOUS
<1>1. \A p \in Command : commands[p].at = "idle" /\ fd[p] = NoFile
  BY DEF Init, Idle
<1>2. \A f \in Cache : disk[f] = None
  BY PathFacts, UserFiles DEF Init
<1>3. None \notin Version /\ None \notin Cache
  BY PathFacts, ContentFacts
<1>4. SameVersion
  BY <1>1, <1>3 DEF SameVersion, Running, NoFile
<1>5. LibraryHeld
  BY <1>1, <1>2, <1>3, PathFacts
     DEF LibraryHeld, Vouched, Extracting, NoStampNoFiles, AtCache, At
<1> QED
  BY <1>4, <1>5 DEF LibraryInv

(* A stamp in a project vouches for every file of the library of its       *)
(* version (ensureStdlib, stdlib.go:63), however many commands of that     *)
(* version overlap, wherever they stop outside a stamped cache, and        *)
(* whichever versions came before: by induction, whatever a stamp or a     *)
(* command that will write one promises is there, or is yet to be written  *)
(* by a command into a file that has a name.                               *)
THEOREM StampsVouch == Spec => []StampVouches
<1> DEFINE Inv == TypeOK /\ Steps /\ SameVersion /\ LibraryInv
<1>1. Init => Inv
  BY InitTypeOK, InitSteps, InitLibrary
<1>2. Inv /\ [Next]_vars => Inv'
  BY TypesPreserved, StepsPreserved, SameVersionKept, LibraryInvKept
<1>3. Inv => StampVouches
  <2> SUFFICES ASSUME Inv, \A p \in Command : ~AtCache(p), disk[Stamp] \in Version,
                      "stamped" \notin cut, "mixed" \notin cut, NEW f \in LibFile
               PROVE  IF f \in Stdlib[disk[Stamp]] THEN disk[f] = disk[Stamp]
                      ELSE disk[f] = None \/ "cache" \in cut
    BY DEF StampVouches, Fits
  <2>1. Vouched(disk[Stamp])
    BY DEF Vouched
  <2>2. Held(disk[Stamp], f)
    BY <2>1 DEF LibraryInv, LibraryHeld
  <2> QED
    BY <2>2 DEF Held, Removes, Brings, Extracting, AtCache, At
<1> QED
  BY <1>1, <1>2, <1>3, PTL DEF Spec

(* What the library needs of a command that goes past it. *)
FilesFit(p) ==
  \A f \in LibFile :
    IF f \in Stdlib[commands[p].version] THEN disk'[f] = commands[p].version
    ELSE disk'[f] = None \/ "cache" \in cut'

(* A command that was alone and found its stamp finds its library, *)
LEMMA FilesFitStamp ==
  ASSUME TypeOK, Steps, LibraryHeld, NEW p \in Command, commands[p].alone, Runs(p),
         commands[p].at = "stamp", commands'[p].at \notin {"remove", "extract"}
  PROVE  FilesFit(p)
<1>1. \A q \in Command \ {p} : commands[q].at = "idle"
  BY DEF Steps, Stands, AloneIsSo
<1>2. commands[p] \in Process /\ commands \in [Command -> Process] /\ commands[p].version \in Version
  BY DEF TypeOK, Steps, Stands, Shape
<1>3. disk[Stamp] = commands[p].version /\ UNCHANGED <<disk, cut>>
  BY <1>2, TakenAt, ExtractsGoesOn
     DEF ReadStamp, MissStamp, Goes, Becomes, NoFiles, Step, Process
<1>4. \A q \in Command : ~AtCache(q)
  BY <1>1 DEF AtCache, At
<1>5. \A f \in LibFile : Held(commands[p].version, f)
  BY <1>2, <1>3, <1>4 DEF LibraryHeld, Vouched
<1> QED
  BY <1>3, <1>4, <1>5 DEF FilesFit, Held, Removes, Brings, Extracting, AtCache, At

(* and so does one that has extracted it. *)
LEMMA FilesFitExtracted ==
  ASSUME TypeOK, Steps, LibraryHeld, NEW p \in Command, commands[p].alone, Runs(p),
         commands[p].at = "extract", commands'[p].at # "extract"
  PROVE  FilesFit(p)
<1>1. \A q \in Command \ {p} : commands[q].at = "idle"
  BY DEF Steps, Stands, AloneIsSo
<1>2. commands[p].version \in Version /\ cut \subseteq cut' /\ disk \in [Path -> Value]
  BY Histories DEF TypeOK, Steps, Stands, Shape
<1>3. WriteStamp(p)
  <2>1. ASSUME Extract(p) PROVE commands'[p].at = "extract"
    <3>1. PICK f \in commands[p].todo : UNCHANGED commands \/ Done(p, f)
      BY <2>1 DEF Extract, Write
    <3> QED
      BY <3>1, DoneGoesOn
  <2> QED
    BY <2>1, TakenAt
<1>4. commands[p].todo = {} /\ \A f \in LibFile : disk'[f] = disk[f]
  BY <1>2, <1>3, PathFacts, FileAssumption DEF WriteStamp, Write, Truncate, Fill
<1>5. \A f \in LibFile : Held(commands[p].version, f)
  BY <1>2 DEF LibraryHeld, Vouched, Extracting
<1> QED
  BY <1>1, <1>2, <1>4, <1>5 DEF FilesFit, Held, Removes, Brings, Extracting

(* Where a command goes that then has seen to the library. *)
LEMMA EnsuredAfter ==
  ASSUME TypeOK, Steps, NEW p \in Command, Runs(p), Ensured(p)', ~Ensured(p)
  PROVE  commands[p].at \in {"stamp", "extract"}
<1>1. commands \in [Command -> Process] /\ Shape(commands[p]) /\ GoesOn(p)
  BY RunGoesOn DEF TypeOK, Steps, Stands
<1>2. commands'[p].verb = commands[p].verb /\ UNCHANGED scenario
  BY <1>1, Histories DEF GoesOn
<1>3. commands'[p].at \notin {"idle", "stamp", "remove", "extract"} \cup FromSource
  BY DEF Ensured, FromSource
<1>4. /\ \A place : Goes(p, place) => commands'[p].at = place
      /\ \A code : Exits(p, code) => commands'[p].at = "idle"
      /\ Extracts(p) => commands'[p].at = "extract"
  <2>1. commands[p] \in Process /\ \A c : Becomes(p, c) => commands'[p] = c
    BY <1>1 DEF Becomes
  <2>2. \A place : Goes(p, place) => commands'[p].at = place
    BY <2>1 DEF Goes, Process
  <2>3. \A code : Exits(p, code) => commands'[p].at = "idle"
    BY <2>1 DEF Exits, Process
  <2>4. Extracts(p) => commands'[p].at = "extract"
    BY <2>1 DEF Extracts, Process
  <2> QED
    BY <2>2, <2>3, <2>4
<1>5. CASE ModInit(p) \/ Compare(p) \/ Prompt(p) \/ RemoveSource(p) \/ Go(p) \/ RemoveAll(p)
  <2>1. commands'[p].at \in {"idle", "stamp", "gofile", "rm", "remove", "extract"}
    BY <1>4, <1>5 DEF ModInit, Compare, Prompt, RemoveSource, Go, RemoveAll, At
  <2> QED
    BY <1>3, <2>1 DEF FromSource
<1>6. CASE Compile(p)
  <2>1. commands'[p].at \in {"needs", "compare", "gofile"}
    BY <1>1, <1>6 DEF Compile, Compiled, Becomes, Process
  <2> QED
    BY <2>1 DEF Ensured
<1>7. CASE WriteGoFile(p)
  <2>1. UNCHANGED commands \/ Goes(p, "needs") \/ Goes(p, "prompt") \/ Exits(p, 0)
    BY <1>7 DEF WriteGoFile, Write, Generates
  <2>2. commands'[p].at \in {"gofile", "needs", "prompt", "idle"}
    BY <1>4, <1>7, <2>1 DEF WriteGoFile, At
  <2> QED
    BY <2>2 DEF Ensured
<1>8. CASE Needs(p)
  <2>1. commands'[p].at = (IF scenario.imports THEN "stamp" ELSE "go") /\ commands[p].verb # "init"
    BY <1>1, <1>4, <1>8 DEF Needs, Shape, At
  <2> QED
    BY <1>2, <2>1 DEF Ensured
<1> QED
  BY <1>5, <1>6, <1>7, <1>8
     DEF Runs, EnsureStdlib, EnsureGoMod, ReadStamp, MissStamp, Extract, WriteStamp, ReadAgents,
         WriteAgents, ReadClaude, WriteClaude, ReadGoMod, WriteGoMod, At, Ensured

(* A command that goes on to the Go tools has written go.mod, or does not  *)
(* need the library.                                                       *)
LEMMA ModAfter ==
  ASSUME TypeOK, Steps, TornIfAlone, NEW p \in Command, commands[p].alone, Runs(p), Ensured(p),
         commands'[p].at = "go"
  PROVE  disk'[GoMod] \in Content(GoMod) /\ disk'[GoMod].added = "stdlib"
<1>1. commands \in [Command -> Process] /\ disk \in [Path -> Value] /\ FileIsOpen(p)
  BY DEF TypeOK, Steps, Stands
<1>2. /\ \A place : Goes(p, place) => commands'[p].at = place
      /\ \A place, text : Takes(p, place, text) => commands'[p].at = place
      /\ \A code : Exits(p, code) => commands'[p].at = "idle"
  <2>1. commands[p] \in Process /\ \A c : Becomes(p, c) => commands'[p] = c
    BY <1>1 DEF Becomes
  <2>2. \A place : Goes(p, place) => commands'[p].at = place
    BY <2>1 DEF Goes, Process
  <2>3. \A place, text : Takes(p, place, text) => commands'[p].at = place
    BY <2>1 DEF Takes, Process
  <2>4. \A code : Exits(p, code) => commands'[p].at = "idle"
    BY <2>1 DEF Exits, Process
  <2> QED
    BY <2>2, <2>3, <2>4
<1>3. ~ReadAgents(p) /\ ~WriteAgents(p) /\ ~ReadClaude(p) /\ ~WriteClaude(p) /\ ~ReadGoMod(p) /\ ~Go(p)
  BY <1>2 DEF ReadAgents, WriteAgents, ReadClaude, WriteClaude, ReadGoMod, Go, Write, At
<1>4. WriteGoMod(p)
  BY <1>3, TakenAt DEF Ensured
<1>5. commands[p].at = "gomod" /\ commands[p].held \in Int
  BY <1>4 DEF WriteGoMod, At, TypeOK, Process, Steps, Stands, Shape
<1> DEFINE mod == [text |-> commands[p].held, added |-> "stdlib"]
<1>6. Fill(p, GoMod, mod)
  BY <1>4, <1>5 DEF WriteGoMod, Write
<1>7. mod \in Content(GoMod) /\ mod.added = "stdlib"
  BY <1>5, UserFiles, ContentFacts DEF Added
<1> HIDE DEF mod
<1>8. fd[p].path = GoMod /\ fd[p].linked
  BY <1>1, <1>6, UserFiles, PathFacts DEF Fill, FileIsOpen, NoFile
<1>9. disk[GoMod] = Torn
  BY <1>8 DEF TornIfAlone
<1>10. disk'[GoMod] = mod
  BY <1>1, <1>6, <1>8, <1>9, UserFiles DEF Fill
<1> QED
  BY <1>7, <1>10

(* The library fits as long as the command stays alone. *)
LEMMA FitsInvKept ==
  ASSUME TypeOK, Steps, TornIfAlone, LibraryInv, FitsInv, [Next]_vars
  PROVE  FitsInv'
<1> SUFFICES ASSUME NEW p \in Command, Ensured(p)', commands'[p].alone, "stamped" \notin cut',
                    "mixed" \notin cut'
             PROVE  /\ Fits(commands[p].version)'
                    /\ commands'[p].at = "go" => Whole(GoMod)' /\ disk'[GoMod].added = "stdlib"
  BY DEF FitsInv
<1>1. commands'[p].at # "idle"
  BY DEF Ensured
<1>2. ASSUME NEW q \in Command, Runs(q) \/ Stop(q)
      PROVE  /\ Fits(commands[p].version)'
             /\ commands'[p].at = "go" => Whole(GoMod)' /\ disk'[GoMod].added = "stdlib"
  <2>1. GoesOn(q) /\ cut \subseteq cut'
    BY <1>2, RunGoesOn, Histories
  <2>2. p = q
    <3>1. CASE commands'[p] = commands[p]
      BY <1>1, <2>1, <3>1, OneRuns DEF GoesOn
    <3> QED
      BY <2>1, <3>1 DEF GoesOn
  <2>3. commands[p].alone /\ commands'[p].version = commands[p].version
    BY <2>1, <2>2 DEF GoesOn
  <2>4. Runs(p)
    BY <1>1, <1>2, <2>1, <2>2, ExitsGoesOn DEF Stop, GoesOn
  <2>5. LibraryHeld /\ "stamped" \notin cut /\ "mixed" \notin cut
    BY <2>1 DEF LibraryInv
  <2>6. FilesFit(p)
    <3>1. CASE Ensured(p)
      <4>1. Fits(commands[p].version)
        BY <2>3, <2>5, <3>1 DEF FitsInv
      <4>2. commands[p].at \notin AtLibrary
        BY <3>1 DEF Ensured, AtLibrary
      <4>3. \A f \in LibFile : disk'[f] = disk[f]
        BY <2>4, <4>2, OffCache, PathFacts DEF CacheSame
      <4> QED
        BY <2>1, <4>1, <4>3 DEF Fits, FilesFit
    <3>2. CASE ~Ensured(p)
      <4>1. commands[p].at \in {"stamp", "extract"}
        BY <2>4, <3>2, EnsuredAfter
      <4>2. commands'[p].at \notin {"remove", "extract"}
        BY DEF Ensured
      <4> QED
        BY <2>3, <2>4, <2>5, <4>1, <4>2, FilesFitStamp, FilesFitExtracted
    <3> QED
      BY <3>1, <3>2
  <2>7. Fits(commands[p].version)'
    BY <2>3, <2>6 DEF FilesFit, Fits
  <2>8. ASSUME commands'[p].at = "go" PROVE Whole(GoMod)' /\ disk'[GoMod].added = "stdlib"
    <3>1. Ensured(p)
      <4>1. commands[p].at \notin {"stamp", "extract"}
        <5>1. commands[p].at = "stamp" => ReadStamp(p) \/ MissStamp(p)
          BY <2>4, TakenAt
        <5>2. commands[p].at = "extract" => Extract(p) \/ WriteStamp(p)
          BY <2>4, TakenAt
        <5>3. /\ \A place : Goes(p, place) => commands'[p].at = place
              /\ \A c : Becomes(p, c) => commands'[p] = c
          BY DEF Goes, Becomes, TypeOK, Process
        <5> QED
          BY <2>8, <5>1, <5>2, <5>3, ExtractsGoesOn, DoneGoesOn
             DEF ReadStamp, MissStamp, Extract, WriteStamp, Write, At
      <4> QED
        BY <2>4, <4>1, EnsuredAfter
    <3>2. disk'[GoMod] \in Content(GoMod) /\ disk'[GoMod].added = "stdlib"
      BY <2>3, <2>4, <2>8, <3>1, ModAfter
    <3> QED
      BY <3>2, UserFiles, ContentFacts DEF Whole
  <2> QED
    BY <2>7, <2>8
<1>3. ASSUME NEW q \in Command, Start(q)
      PROVE  FALSE
  BY <1>3, StartLeaves DEF Ensured
<1>4. ASSUME Edit
      PROVE  /\ Fits(commands[p].version)'
             /\ commands'[p].at = "go" => Whole(GoMod)' /\ disk'[GoMod].added = "stdlib"
  <2>1. UNCHANGED <<commands, cut, scenario>> /\ Ensured(p)
    BY <1>4 DEF Edit, Ensured
  <2>2. /\ \A f \in LibFile : disk'[f] = disk[f]
        /\ \/ disk'[GoMod] = disk[GoMod]
           \/ /\ disk'[GoMod] \notin {None, Torn} /\ disk'[GoMod].added = disk[GoMod].added
    BY <1>4, EditKeepsFiles, PathFacts, UserFiles
  <2>3. Fits(commands[p].version) /\ (commands[p].at = "go" => Whole(GoMod) /\ disk[GoMod].added = "stdlib")
    BY <2>1 DEF FitsInv
  <2>4. Fits(commands[p].version)'
    BY <2>1, <2>2, <2>3 DEF Fits
  <2> QED
    BY <2>1, <2>2, <2>3, <2>4 DEF Whole
<1>5. CASE UNCHANGED vars
  BY <1>5 DEF vars, fileVars, FitsInv, Fits, Ensured, Whole
<1> QED
  BY <1>2, <1>3, <1>4, <1>5 DEF Next

(* The Go tools find the library of the version that generated the code,   *)
(* and go.mod points to it (ensureStdlib and ensureGoMod return only with  *)
(* that done), whatever commands came before and wherever they stopped.    *)
THEOREM LibraryIsThere == Spec => []LibraryFits
<1> DEFINE Inv == TypeOK /\ Steps /\ TornIfAlone /\ SameVersion /\ LibraryInv /\ FitsInv
<1>1. Init => Inv
  <2> SUFFICES ASSUME Init PROVE TornIfAlone /\ SameVersion /\ LibraryInv /\ FitsInv
    BY InitTypeOK, InitSteps
  <2>1. \A p \in Command : commands[p].at = "idle" /\ fd[p] = NoFile
    BY DEF Init, Idle
  <2>2. TornIfAlone /\ FitsInv
    BY <2>1 DEF TornIfAlone, FitsInv, Ensured, NoFile
  <2> QED
    BY <2>2, InitLibrary
<1>2. Inv /\ [Next]_vars => Inv'
  BY TypesPreserved, StepsPreserved, TornKept, SameVersionKept, LibraryInvKept, FitsInvKept
<1>3. Inv => LibraryFits
  BY DEF FitsInv, LibraryFits, Ensured, At
<1> QED
  BY <1>1, <1>2, <1>3, PTL DEF Spec

=============================================================================
