---------------------------- MODULE MCConfigCache ----------------------------
(* ConfigCache with two configurations and three readers. *)
EXTENDS ConfigCache, TLC

CONSTANTS on, off, r1, r2, r3

Symmetry == Permutations(Readers) \cup Permutations(Values)
=============================================================================
