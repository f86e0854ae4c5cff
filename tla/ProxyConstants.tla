--------------------------- MODULE ProxyConstants ---------------------------
(* What the parts of cmd/kukicha-proxy share. *)
EXTENDS Integers

CONSTANTS
  Version,    (* the versions of the module that is looked at *)
  Request,    (* the goroutines of net/http *)
  None

(* None stands for no version, no request and no time. *)
ASSUME NoneAssumption == None \notin Version \cup Request \cup Nat
=============================================================================
