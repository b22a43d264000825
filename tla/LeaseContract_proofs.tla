------------------------- MODULE LeaseContract_proofs -------------------------
(***************************************************************************)
(* What the contract of key lending is worth, for any tokens and agents.   *)
(***************************************************************************)
EXTENDS LeaseContract, TLAPS

(* Who holds a token was granted it. *)
HeldIsUsed == \A h \in held : h[1] \in used

Granted == OneHolder /\ HeldIsUsed

LEMMA GrantedStep == Granted /\ [Next]_<<held, used>> => Granted'
  <1> SUFFICES ASSUME Granted, [Next]_<<held, used>> PROVE Granted'
    OBVIOUS
  <1> USE DEF Granted, OneHolder, HeldIsUsed
  <1>1. CASE End
    BY <1>1 DEF End
  <1>2. ASSUME NEW t \in Tokens, NEW a \in Agents, Grant(t, a) PROVE Granted'
    BY <1>2 DEF Grant
  <1>3. CASE UNCHANGED <<held, used>>
    BY <1>3
  <1>4. QED
    BY <1>1, <1>2, <1>3 DEF Next

LEMMA GrantedHolds == Spec => []Granted
  <1>1. Init => Granted
    BY DEF Init, Granted, OneHolder, HeldIsUsed
  <1>2. QED
    BY <1>1, GrantedStep, PTL DEF Spec

(* Whatever keeps the contract never has one token in the hands of two agents *)
(* (lend mints a fresh token; renew, backoff and the restore keep its agent). *)
THEOREM OneHolderAlways == Spec => []OneHolder
  <1>1. Granted => OneHolder
    BY DEF Granted
  <1>2. QED
    BY <1>1, GrantedHolds, PTL

(* ... and never has a token come back that has ended (revoke_for_agent,      *)
(* cleanup_expired, restore_leases).                                          *)
THEOREM EndedStaysEnded == Spec => EndedIsFinal
  <1>1. [Next]_<<held, used>> =>
          [\A t \in used : t \notin {h[1] : h \in held} =>
                              t \notin {h[1] : h \in held'}]_<<held, used>>
    BY DEF Next, End, Grant
  <1>2. QED
    BY <1>1, PTL DEF Spec, EndedIsFinal
=============================================================================
