----------------------------- MODULE MCDelivery -----------------------------
(* Small instances of EventDelivery: one browser. *)
EXTENDS EventDelivery

CONSTANT b1
=============================================================================
