------------------------------ MODULE MCProxy ------------------------------
(* Proxy for TLC. *)
EXTENDS Proxy, TLC

CONSTANTS v1, v2, r1, r2, i1, i2, i3, i4

S(mode, vulncheck, trusted, versions, kinds, arrivals) ==
  [mode |-> mode, vulncheck |-> vulncheck, trusted |-> trusted,
   versions |-> versions, kinds |-> kinds, arrivals |-> arrivals]

(* Lists of several versions; requests that ask the vulnerability          *)
(* database, of the hosted store; those that go through the disk cache;    *)
(* and those of a trusted module.                                          *)
AllScenarios ==
  {S("local", FALSE, FALSE, {v1, v2}, {"list"}, 2),
   S("hosted", TRUE, FALSE, {v1}, {"latest", "info"}, 3),
   S("local", FALSE, FALSE, {v1}, {"file"}, 3),
   S("hosted", FALSE, TRUE, {v1}, {"list", "latest", "info"}, 3)}

Symmetric == Permutations(Request) \cup Permutations(Inode)
=============================================================================
