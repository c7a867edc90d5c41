---------------------------- MODULE MCSenderKeys ----------------------------
(* SenderKeys for TLC: members are interchangeable.                        *)
EXTENDS SenderKeys, TLC

Symmetry == Permutations(Member)
=============================================================================
