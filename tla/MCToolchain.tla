---------------------------- MODULE MCToolchain ----------------------------
(* Toolchain for TLC. *)
EXTENDS Toolchain, TLC

CONSTANTS old, new, p1, p2

(* The new version has dropped a file of the old one. *)
Files == {"a.go", "b.go"}
FilesOf == old :> Files @@ new :> {"a.go"}

S(verbs, flags, versions, overlap, imports, most, changes, edited) ==
  [verbs |-> verbs, flags |-> flags, versions |-> versions, overlap |-> overlap,
   imports |-> imports, commands |-> most, edits |-> changes, edited |-> edited]

(* One command after the other, of both versions; commands of one version  *)
(* that overlap, on the library and on go.mod; those that write, or        *)
(* replace, the source's Go file; and two of both versions at once.        *)
Sequential == S({"init", "run"}, {}, {old, new}, FALSE, TRUE, 3, 0, {})
Overlapping == S({"run"}, {}, {new}, TRUE, TRUE, 3, 1, {GoMod, Agents})
Building == S({"build", "brew"}, Flags, {new}, TRUE, FALSE, 3, 1, {Source})
Mixed == S({"run"}, {}, {old, new}, TRUE, TRUE, 2, 0, {})

AllScenarios == {Sequential, Overlapping, Building, Mixed}

Symmetric == Permutations(Command)
=============================================================================
