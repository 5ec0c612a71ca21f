--------------------------- MODULE MCLogRotation ---------------------------
(* The server and two invocations of mmo-log.mjs on one log.               *)
EXTENDS LogRotation, TLC

Symmetry == Permutations(Writers)
============================================================================
