---------------------------- MODULE MCProvenance ----------------------------
(* Two files whose names escape to one backup name.                          *)
EXTENDS Provenance, TLC

CONSTANT slashes

MCEscape == [f \in Files |-> slashes]

Symmetry == Permutations(Files)
==============================================================================
