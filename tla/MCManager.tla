----------------------------- MODULE MCManager ------------------------------
(* Small instances of SessionManager: two calls at once. *)
EXTENDS SessionManager

CONSTANTS o1, o2
=============================================================================
