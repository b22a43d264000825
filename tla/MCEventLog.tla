------------------------------ MODULE MCEventLog ------------------------------
(* EventLog for TLC: a client that replays everything and one that filters. *)
EXTENDS EventLog

CONSTANTS replay, list

MCLimit == [r \in Readers |-> IF r = replay THEN 0 ELSE 2]
MCWanted == [r \in Readers |-> IF r = replay THEN 1..MaxEvents ELSE {1, 3}]
=============================================================================
