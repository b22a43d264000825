---------------------------- MODULE MCLeaseEvents ----------------------------
(* LeaseEvents for TLC: every caller uses the server's engine. *)
EXTENDS LeaseEvents

CONSTANT server

OneEngine == [p \in Callers |-> server]
=============================================================================
