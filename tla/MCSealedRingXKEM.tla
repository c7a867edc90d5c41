-------------------------- MODULE MCSealedRingXKEM --------------------------
(* Model of SealedRingXKEM for TLC.                                        *)
EXTENDS SealedRingXKEM, TLC

Symmetry == Permutations(Party)
=============================================================================
