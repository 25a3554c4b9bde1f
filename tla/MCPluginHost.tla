---------------------------- MODULE MCPluginHost ----------------------------
(* Small instances of PluginHost. *)
EXTENDS PluginHost

CONSTANTS f1, f2, f3, k1, k2

(* f2's plugin injects the service under k1. *)
MCNeeds == [f \in Fibers |-> IF f = f2 THEN {k1} ELSE {}]
=============================================================================
