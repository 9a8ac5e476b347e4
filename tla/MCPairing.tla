----------------------------- MODULE MCPairing -----------------------------
(* Two browsers, two codes, three attempts, one crash. *)
EXTENDS Pairing, TLC

Symmetry == Permutations(Browsers) \cup Permutations(Codes)
=============================================================================
