----------------------------- MODULE MCQmdMemory -----------------------------
(* QmdMemory for TLC.  Callers are interchangeable.                          *)
EXTENDS QmdMemory

Symmetry == Permutations(Procs)
=============================================================================
