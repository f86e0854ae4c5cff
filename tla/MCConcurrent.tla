---------------------------- MODULE MCConcurrent ----------------------------
(* Concurrent for TLC: calls without a limit, and with every limit from 0  *)
(* (which blocks) to one that is never reached.                            *)
EXTENDS Concurrent

AllLimits == {Unlimited} \cup 0 .. N + 1
=============================================================================
