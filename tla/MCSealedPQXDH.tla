--------------------------- MODULE MCSealedPQXDH ---------------------------
(* Model of SealedPQXDH for TLC.                                           *)
EXTENDS SealedPQXDH, TLC

Symmetry == Permutations(Party)
=============================================================================
