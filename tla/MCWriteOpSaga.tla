--------------------------- MODULE MCWriteOpSaga ---------------------------
(* Small instances of WriteOpSaga for TLC.                                 *)
EXTENDS WriteOpSaga, TLC

\* Memories, atoms and rows are interchangeable: no property names one.
Symmetry == Permutations(Mems) \cup Permutations(Atoms) \cup Permutations(Ops)
=============================================================================
