--------------------------- MODULE MCSealedSender ---------------------------
(* Model of SealedSender for TLC.                                          *)
EXTENDS SealedSender, TLC

Symmetry == Permutations(Party)
=============================================================================
