---------------------------- MODULE MCLspServer ----------------------------
(* LspServer for TLC: a few documents and timers. *)
EXTENDS LspServer

CONSTANTS u1, u2, t1, t2, t3

Documents == {u1, u2}
Timers == {t1, t2, t3}
=============================================================================
