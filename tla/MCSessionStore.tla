--------------------------- MODULE MCSessionStore ---------------------------
(* Small instances of SessionStore. *)
EXTENDS SessionStore, TLC

CONSTANTS p1, p2, p3

Symmetry == Permutations(Procs)
=============================================================================
