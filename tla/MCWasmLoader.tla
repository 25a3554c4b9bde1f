---------------------------- MODULE MCWasmLoader ----------------------------
(* Small instances of WasmLoader: a plugin whose next generation may       *)
(* declare fewer tools or others, and one with a single tool.              *)
EXTENDS WasmLoader, TLC

CONSTANTS alpha, beta, read, write, echo, c1, c2

MCDeclares == [id \in Ids |-> IF id = alpha THEN {{read, write}, {read}} ELSE {{echo}}]

CallersAlike == Permutations(Callers)
=============================================================================
