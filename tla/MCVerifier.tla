----------------------------- MODULE MCVerifier -----------------------------
(* Small instances of CommandVerifier: two tabs of one browser. *)
EXTENDS CommandVerifier

CONSTANTS c1, p1, p2

MCClientOf == [p \in Pages |-> c1]
=============================================================================
