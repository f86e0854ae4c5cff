------------------------------ MODULE MCOnErr ------------------------------
(* OnErrLowering for TLC: every chain of up to three steps. *)
EXTENDS OnErrLowering

AllChains == UNION {Chain(n) : n \in 0 .. 3}
=============================================================================
