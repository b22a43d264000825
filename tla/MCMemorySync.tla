----------------------------- MODULE MCMemorySync -----------------------------
(* MemorySync for TLC: two peers. *)
EXTENDS MemorySync

CONSTANTS a, b, x

MCRank == [p \in Peers |-> IF p = a THEN 1 ELSE 2]
=============================================================================
