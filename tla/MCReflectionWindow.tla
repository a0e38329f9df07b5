------------------------- MODULE MCReflectionWindow -------------------------
(* Instances of ReflectionWindow for TLC. *)
EXTENDS ReflectionWindow, TLC

\* Handlers and task slots are interchangeable (not used with liveness).
Symmetry == Permutations(Handlers) \cup Permutations(Tasks)
=============================================================================
