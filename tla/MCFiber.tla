------------------------------ MODULE MCFiber ------------------------------
(* Small instances of Fiber. *)
EXTENDS Fiber

CONSTANTS t1, t2
=============================================================================
