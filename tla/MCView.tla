-------------------------------- MODULE MCView --------------------------------
(* Two pages and two sessions that the daemon found on disk.               *)
EXTENDS SessionView
=============================================================================
