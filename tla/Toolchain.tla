------------------------------ MODULE Toolchain ------------------------------
(***************************************************************************)
(* The commands of cmd/kukicha that change a project: init, build, run and *)
(* brew.  Each compiles the source, writes Go code, extracts the standard  *)
(* library of its own version into the project unless the stamp there says *)
(* that was done, adds it to go.mod, and calls the Go tools.               *)
(*                                                                         *)
(* Commands may overlap, be of different versions, fail at any access to a *)
(* file and be interrupted at any point; the user edits his files.         *)
(***************************************************************************)
EXTENDS ProjectFiles

CONSTANTS
  Command,      (* the processes                                           *)
  Version,      (* of the tool                                             *)
  Stdlib,       (* the library files of each version                       *)
  Scenarios     (* which commands, how many, with or without overlap, and  *)
                (* which files the user edits how often                    *)

Verbs == {"init", "build", "run", "brew"}
Flags == {"--if-changed", "--skip-build", "--remove-kuki"}
FlagsOf(verb) ==
  CASE verb = "build" -> {"--if-changed", "--skip-build"}
    [] verb = "brew"  -> {"--remove-kuki"}
    [] OTHER          -> {}

(* What a file holds when it is whole. *)
Added == Version \cup {None, "stdlib", Agents}
Content(f) ==
  IF f \in Cache THEN Version
  ELSE IF f = GoFile THEN [of : Int, by : Verbs]
  ELSE [text : Int, added : Added]

ASSUME ToolchainAssumption ==
  /\ None \notin Int
  /\ \A f \in Path : None \notin Content(f) /\ Torn \notin Content(f)
  /\ Stdlib \in [Version -> SUBSET LibFile]
  /\ Scenarios \subseteq
       [verbs : SUBSET Verbs, flags : SUBSET Flags, versions : SUBSET Version, overlap : BOOLEAN,
        imports : BOOLEAN, commands : Nat, edits : Nat, edited : SUBSET UserFile]

VARIABLES
  scenario,
  commands,
  binary,        (* the source text the binary was built of                *)
  started, edits,
  cut            (* history: the "cache" was left half changed, also while *)
                 (* it had a stamp or another command was running          *)
                 (* ("stamped"), a write of a file of the user, or of the  *)
                 (* Go file, was cut short ("write"), or commands of       *)
                 (* different versions ran at once ("mixed")               *)

vars == <<scenario, commands, binary, started, edits, cut, fileVars>>

(* todo: library files to extract; held: what it read of a file to change; *)
(* body: the source it compiled; alone: no other command has run since it  *)
(* was started, nor when it was.                                           *)
Idle == [at |-> "idle", verb |-> "init", flags |-> {}, version |-> None, body |-> 0,
         todo |-> {}, held |-> None, alone |-> TRUE, exit |-> None]

Init ==
  /\ scenario \in Scenarios
  /\ commands = [p \in Command |-> Idle]
  /\ binary = None
  /\ started = 0 /\ edits = 0 /\ cut = {}
  /\ disk \in {[f \in Path |-> IF f = Source \/ f \in present THEN [text |-> 0, added |-> None] ELSE None] :
                 present \in {{}, {GoMod, Agents, Claude}}}
  /\ fd = [p \in Command |-> NoFile]
  /\ texts = [f \in UserFile |-> 0]
  /\ raced = {}

Running(p) == commands[p].at # "idle"
At(p, place) == commands[p].at = place
Becomes(p, c) == commands' = [commands EXCEPT ![p] = c]
Goes(p, place) == Becomes(p, [commands[p] EXCEPT !.at = place])
Exits(p, code) ==
  Becomes(p, [commands[p] EXCEPT !.at = "idle", !.exit = code, !.todo = {}, !.held = None])

(* With the text of a file, and when it was written back. *)
Takes(p, place, text) == Becomes(p, [commands[p] EXCEPT !.at = place, !.held = text])

Bounds == UNCHANGED <<scenario, started, edits, texts>>
Step == Bounds /\ UNCHANGED <<binary, cut>>
NoFiles == Step /\ UNCHANGED <<disk, fd, raced>>

(* A whole os.WriteFile, in two steps; then the command goes on. *)
Write(p, f, content, then) ==
  /\ \/ Truncate(p, f) /\ UNCHANGED commands
     \/ Fill(p, f, content) /\ then
  /\ Step

-----------------------------------------------------------------------------
(* The commands.                                                           *)

Started(verb, flags, v, alone) ==
  [Idle EXCEPT !.verb = verb, !.flags = flags, !.version = v, !.alone = alone,
               !.at = IF verb = "init" THEN "modinit" ELSE "compile"]

Start(p) ==
  LET others == {q \in Command \ {p} : Running(q)}
  IN /\ ~Running(p) /\ started < scenario.commands
     /\ others # {} => scenario.overlap
     /\ started' = started + 1
     /\ \E verb \in scenario.verbs, v \in scenario.versions :
        \E flags \in SUBSET (scenario.flags \cap FlagsOf(verb)) :
          /\ commands' = [q \in Command |->
               IF q # p THEN [commands[q] EXCEPT !.alone = FALSE]
               ELSE Started(verb, flags, v, others = {})]
          /\ cut' = cut \cup {c \in {"mixed"} : \E q \in others : commands[q].version # v}
     /\ UNCHANGED <<scenario, edits, binary, fileVars>>

(* initCommand: go mod init if there is no go.mod. *)
ModInit(p) ==
  /\ At(p, "modinit")
  /\ disk' = IF disk[GoMod] = None THEN [disk EXCEPT ![GoMod] = [text |-> 0, added |-> None]] ELSE disk
  /\ Goes(p, "stamp")
  /\ Step /\ UNCHANGED <<fd, raced>>

(* What follows the compilation. *)
Compiled(c) ==
  IF c.verb = "run" THEN "needs" ELSE IF "--if-changed" \in c.flags THEN "compare" ELSE "gofile"

(* compile, of a source that has no errors. *)
Compile(p) ==
  /\ At(p, "compile")
  /\ Whole(Source)
  /\ Becomes(p, [commands[p] EXCEPT !.body = disk[Source].text, !.at = Compiled(commands[p])])
  /\ NoFiles

Generated(p) == [of |-> commands[p].body, by |-> commands[p].verb]

(* build --if-changed ends when the Go file would not change. *)
Compare(p) ==
  /\ At(p, "compare")
  /\ IF disk[GoFile] = Generated(p) THEN Exits(p, 0) ELSE Goes(p, "gofile")
  /\ NoFiles

(* Mutant: the source is removed before the Go file is written. *)
WriteGoFileLate(p) ==
  /\ At(p, "gofile")
  /\ IF "--remove-kuki" \in commands[p].flags /\ disk[Source] # None
     THEN Remove(Source) /\ Step /\ UNCHANGED <<commands, raced>>
     ELSE Write(p, GoFile, Generated(p),
                IF commands[p].verb = "build" THEN Goes(p, "needs") ELSE Exits(p, 0))

(* The Go code is written over what is there; brew ends with it. *)
Generates(p) ==
  LET asks == "--remove-kuki" \in commands[p].flags
  IN \/ commands[p].verb = "build" /\ Goes(p, "needs")
     \/ commands[p].verb # "build" /\ asks /\ Goes(p, "prompt")
     \/ commands[p].verb # "build" /\ ~asks /\ Exits(p, 0)

WriteGoFile(p) == At(p, "gofile") /\ Write(p, GoFile, Generated(p), Generates(p))

(* brew --remove-kuki: the user says no, or the source is removed. *)
Prompt(p) ==
  /\ At(p, "prompt")
  /\ Exits(p, 0) \/ Goes(p, "rm")
  /\ NoFiles

RemoveSource(p) ==
  /\ At(p, "rm")
  /\ Remove(Source) \/ UNCHANGED <<disk, fd>>
  /\ Exits(p, 0)
  /\ Step /\ UNCHANGED raced

(* needsStdlib: the Go code imports the library, and this is not its own   *)
(* repository.                                                             *)
Needs(p) ==
  /\ At(p, "needs")
  /\ Goes(p, IF scenario.imports THEN "stamp" ELSE "go")
  /\ NoFiles

-----------------------------------------------------------------------------
(* ensureStdlib.                                                           *)

Extracts(p) ==
  Becomes(p, [commands[p] EXCEPT !.at = "extract", !.todo = Stdlib[commands[p].version]])

(* File f is extracted, or passed over. *)
Done(p, f) == Becomes(p, [commands[p] EXCEPT !.todo = @ \ {f}])

(* Mutant: the version in the stamp is not looked at. *)
ReadStampUnchecked(p) ==
  /\ At(p, "stamp")
  /\ \/ disk[Stamp] = None /\ Extracts(p)
     \/ disk[Stamp] # None /\ Goes(p, "readmod")
  /\ NoFiles

(* A stamp that matches ends it; one that does not, or is empty, has the   *)
(* cache removed.                                                          *)
ReadStamp(p) ==
  /\ At(p, "stamp")
  /\ \/ disk[Stamp] = None /\ Extracts(p)
     \/ disk[Stamp] = commands[p].version /\ Goes(p, "readmod")
     \/ disk[Stamp] \notin {None, commands[p].version} /\ Goes(p, "remove")
  /\ NoFiles

(* One that cannot be read is taken for none: the files are written over   *)
(* those that are there.                                                   *)
MissStamp(p) ==
  /\ At(p, "stamp") /\ disk[Stamp] # None
  /\ Extracts(p)
  /\ cut' = cut \cup {"cache"}
  /\ Bounds /\ UNCHANGED <<binary, disk, fd, raced>>

(* os.RemoveAll takes the files in any order. *)
RemoveAll(p) ==
  /\ At(p, "remove")
  /\ \/ /\ \E f \in Cache : Remove(f)
        /\ UNCHANGED commands
     \/ /\ \A f \in Cache : disk[f] = None
        /\ Extracts(p)
        /\ UNCHANGED <<disk, fd>>
  /\ Step /\ UNCHANGED raced

(* Mutant: a file that cannot be written is passed over. *)
ExtractUnchecked(p) ==
  /\ At(p, "extract")
  /\ \E f \in commands[p].todo :
       \/ Write(p, f, commands[p].version, Done(p, f))
       \/ fd[p] = NoFile /\ Done(p, f) /\ NoFiles

(* extractStdlib: the files ... *)
Extract(p) ==
  /\ At(p, "extract")
  /\ \E f \in commands[p].todo :
       Write(p, f, commands[p].version, Done(p, f))

(* ... and the stamp. *)
WriteStamp(p) ==
  /\ At(p, "extract") /\ commands[p].todo = {}
  /\ Write(p, Stamp, commands[p].version, Goes(p, "readagents"))

(* upsertSkillSection reads AGENTS.md if it is there, and writes it. *)
ReadAgents(p) ==
  /\ At(p, "readagents")
  /\ Meets(p, Agents)
  /\ Takes(p, "agents", IF disk[Agents] = None THEN 0 ELSE Read(Agents).text)
  /\ Step /\ UNCHANGED <<disk, fd>>

WriteAgents(p) ==
  /\ At(p, "agents")
  /\ Write(p, Agents, [text |-> commands[p].held, added |-> commands[p].version],
           Takes(p, "readclaude", None))

(* appendIfMissing, if there is a CLAUDE.md. *)
ReadClaude(p) ==
  /\ At(p, "readclaude")
  /\ IF disk[Claude] = None \/ Read(Claude).added # None
     THEN Goes(p, "readmod") /\ UNCHANGED raced
     ELSE Takes(p, "claude", Read(Claude).text) /\ Meets(p, Claude)
  /\ Step /\ UNCHANGED <<disk, fd>>

WriteClaude(p) ==
  /\ At(p, "claude")
  /\ Write(p, Claude, [text |-> commands[p].held, added |-> Agents],
           Takes(p, "readmod", None))

-----------------------------------------------------------------------------
(* ensureGoMod.                                                            *)

(* go.mod is made if there is none, and read. *)
ReadGoMod(p) ==
  /\ At(p, "readmod")
  /\ IF disk[GoMod] = None
     THEN /\ disk' = [disk EXCEPT ![GoMod] = [text |-> 0, added |-> None]]
          /\ UNCHANGED <<commands, raced>>
     ELSE /\ Takes(p, "gomod", Read(GoMod).text)
          /\ Meets(p, GoMod)
          /\ UNCHANGED disk
  /\ Step /\ UNCHANGED fd

(* It is written with the two directives, also when it had them. *)
WriteGoMod(p) ==
  /\ At(p, "gomod")
  /\ Write(p, GoMod, [text |-> commands[p].held, added |-> "stdlib"],
           Takes(p, "go", None))

-----------------------------------------------------------------------------
(* The Go tools, errors and interrupts, and the user.                      *)

Skips(p) == commands[p].verb = "build" /\ "--skip-build" \in commands[p].flags

(* Mutant: an error of the Go tools is not looked at. *)
GoUnchecked(p) ==
  /\ At(p, "go")
  /\ binary' \in {binary, IF Whole(GoFile) THEN disk[GoFile].of ELSE None}
  /\ Exits(p, 0)
  /\ Bounds /\ UNCHANGED <<cut, disk, fd, raced>>

(* go build, go run, or go mod download, whose failure is only a warning. *)
Go(p) ==
  /\ At(p, "go")
  /\ binary' = IF commands[p].verb = "build" /\ ~Skips(p)
               THEN IF Whole(GoFile) THEN disk[GoFile].of ELSE None
               ELSE binary
  /\ Exits(p, 0)
  /\ Bounds /\ UNCHANGED <<cut, disk, fd, raced>>

AtCache(p) == At(p, "remove") \/ At(p, "extract")

(* An error, of the source, a file or the Go tools, or an interrupt. *)
Stop(p) ==
  /\ Running(p)
  /\ Exits(p, 1)
  /\ fd' = [fd EXCEPT ![p] = NoFile]
  /\ cut' = cut
       \cup {c \in {"cache"} : AtCache(p)}
       \cup {c \in {"stamped"} : AtCache(p) /\ (disk[Stamp] # None \/ \E q \in Command \ {p} : Running(q))}
       \cup {c \in {"write"} : \E f \in UserFile \cup {GoFile} : Writes(p, f)}
  /\ Bounds /\ UNCHANGED <<binary, disk, raced>>

(* A command has the text of f and will write it back, or remove it. *)
Holds(p, f) ==
  CASE f = Source -> At(p, "compare") \/ At(p, "gofile") \/ At(p, "prompt") \/ At(p, "rm")
    [] f = GoMod  -> At(p, "gomod")
    [] f = Agents -> At(p, "agents")
    [] f = Claude -> At(p, "claude")

(* The user, or his editor, or go get, saves a file. *)
Edit ==
  /\ edits < scenario.edits /\ edits' = edits + 1
  /\ \E f \in scenario.edited :
       /\ Whole(f)
       /\ texts' = [texts EXCEPT ![f] = texts[f] + 1]
       /\ disk' = [disk EXCEPT ![f].text = texts[f] + 1]
       /\ raced' = IF \E p \in Command : Holds(p, f) THEN raced \cup {f} ELSE raced
  /\ UNCHANGED <<scenario, commands, binary, started, cut, fd>>

EnsureStdlib(p) ==
  \/ ReadStamp(p) \/ MissStamp(p) \/ RemoveAll(p) \/ Extract(p) \/ WriteStamp(p)
  \/ ReadAgents(p) \/ WriteAgents(p) \/ ReadClaude(p) \/ WriteClaude(p)

EnsureGoMod(p) == ReadGoMod(p) \/ WriteGoMod(p)

Runs(p) ==
  \/ ModInit(p) \/ Compile(p) \/ Compare(p) \/ WriteGoFile(p) \/ Prompt(p) \/ RemoveSource(p)
  \/ Needs(p) \/ EnsureStdlib(p) \/ EnsureGoMod(p) \/ Go(p)

Next == Edit \/ \E p \in Command : Start(p) \/ Runs(p) \/ Stop(p)

Spec == Init /\ [][Next]_vars

-----------------------------------------------------------------------------
(* Properties.                                                             *)

Places == {"idle", "modinit", "compile", "compare", "gofile", "prompt", "rm", "needs", "stamp",
           "remove", "extract", "readagents", "agents", "readclaude", "claude", "readmod", "gomod", "go"}

Value == Version \cup {None, Torn} \cup [of : Int, by : Verbs] \cup [text : Int, added : Added]

Process ==
  [at : Places, verb : Verbs, flags : SUBSET Flags, version : Version \cup {None}, body : Int,
   todo : SUBSET LibFile, held : Int \cup {None}, alone : BOOLEAN, exit : {None, 0, 1}]

Open == [path : Path \cup {None}, linked : BOOLEAN]

TypeOK ==
  /\ scenario \in Scenarios
  /\ commands \in [Command -> Process]
  /\ binary \in Int \cup {None} /\ started \in Nat /\ edits \in Nat
  /\ cut \subseteq {"cache", "stamped", "write", "mixed"}
  /\ disk \in [Path -> Value] /\ \A f \in Path : disk[f] \in Content(f) \cup {None, Torn}
  /\ fd \in [Command -> Open]
  /\ texts \in [UserFile -> Nat]
  /\ raced \subseteq Path

(* The library is that of version v, and nothing else unless files were    *)
(* left behind that an extraction, finding no stamp, has written over.     *)
Fits(v) ==
  \A f \in LibFile :
    IF f \in Stdlib[v] THEN disk[f] = v ELSE disk[f] = None \/ "cache" \in cut

(* "only skip extraction if cache exists AND matches current version"      *)
(* (stdlib.go:63): when nobody is at the cache, a stamp vouches for all    *)
(* files of its version, also after commands that overlapped or were cut   *)
(* short, other than while they removed or replaced a stamped cache, or    *)
(* were of different versions and overlapped.                              *)
StampVouches ==
  /\ \A p \in Command : ~AtCache(p)
  /\ "stamped" \notin cut /\ "mixed" \notin cut
  /\ disk[Stamp] \in Version
  => Fits(disk[Stamp])

(* The Go tools find the library of the version that generated the code,   *)
(* and go.mod points to it, whichever versions ran before and wherever     *)
(* they were cut short: ensureStdlib and ensureGoMod, called first, leave  *)
(* nothing half done behind them if they return.                           *)
LibraryFits ==
  \A p \in Command :
    /\ At(p, "go") /\ commands[p].alone
    /\ scenario.imports \/ commands[p].verb = "init"
    /\ "stamped" \notin cut /\ "mixed" \notin cut
    => Fits(commands[p].version) /\ disk[GoMod].added = "stdlib"

(* No text of the user is lost: what he last wrote in the source, go.mod,  *)
(* AGENTS.md and CLAUDE.md is on disk, or in the Go file that brew made of *)
(* the source it removed.  What may lose it are changes, his or another    *)
(* command's, between the reading and the writing of a file, and writes    *)
(* that are cut short.                                                     *)
UserTextSurvives ==
  \A f \in UserFile :
    \/ HasLatest(f)
    \/ f \in raced \/ (f = Source /\ GoFile \in raced)
    \/ "write" \in cut
    \/ \E p \in Command : Writes(p, f) \/ (f = Source /\ Writes(p, GoFile))

(* A build that succeeds leaves the Go code and, unless told otherwise,    *)
(* the binary of the source it has read, whatever was left by the commands *)
(* before it.                                                              *)
SuccessMeansBuilt ==
  \A p \in Command :
    LET c == commands[p]
    IN ~Running(p) /\ c.verb = "build" /\ c.exit = 0 /\ c.alone =>
         /\ disk[GoFile] = Generated(p)
         /\ c.flags = {} => binary = c.body
=============================================================================
