---------------------------- MODULE LeaseContract ----------------------------
(***************************************************************************)
(* What the key lending engine promises about tokens, whatever fails and   *)
(* however its callers interleave: a token is granted once, to one agent,  *)
(* and when it has ended it does not come back.  A restart may end several *)
(* tokens at once.                                                         *)
(***************************************************************************)
CONSTANTS Tokens, Agents

VARIABLES
    held,  \* the tokens that are in somebody's hands, with their agents
    used   \* the tokens that were ever granted

Init == held = {} /\ used = {}

Grant(t, a) ==
    /\ t \notin used
    /\ used' = used \cup {t}
    /\ held' = held \cup {<<t, a>>}

End ==
    /\ held' \subseteq held
    /\ UNCHANGED used

Next == End \/ \E t \in Tokens, a \in Agents : Grant(t, a)

Spec == Init /\ [][Next]_<<held, used>>

(* A token is in the hands of one agent at most (lend mints a fresh one). *)
OneHolder == \A g, h \in held : g[1] = h[1] => g = h

(* A token that has ended does not come back (revoke, cleanup_expired). *)
EndedIsFinal ==
    [][\A t \in used : t \notin {h[1] : h \in held} => t \notin {h[1] : h \in held'}]_<<held, used>>
=============================================================================
