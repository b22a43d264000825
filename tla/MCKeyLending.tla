----------------------------- MODULE MCKeyLending -----------------------------
(* KeyLending for TLC: every caller uses the server's engine. *)
EXTENDS KeyLending

CONSTANT server

OneEngine == [p \in Callers |-> server]
=============================================================================
