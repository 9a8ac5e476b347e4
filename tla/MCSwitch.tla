------------------------------ MODULE MCSwitch ------------------------------
(* Two sessions, three bindings, two turns, one tool call. *)
EXTENDS SessionSwitch
=============================================================================
