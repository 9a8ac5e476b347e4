------------------------------- MODULE MCRelay -------------------------------
(* One device: a daemon that reconnects, and a browser of its owner. *)
EXTENDS RelayServer

CONSTANTS d1, d2, b1, pc, alice

MCRoleOf == [c \in Conns |-> IF c = b1 THEN "browser" ELSE "daemon"]
MCDeviceOf == [c \in Conns |-> pc]
MCUserOf == [c \in Conns |-> alice]
MCOwnerOf == [d \in Devices |-> alice]
=============================================================================
