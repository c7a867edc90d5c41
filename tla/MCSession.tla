------------------------------ MODULE MCSession ------------------------------
(* Session for TLC: the devices are interchangeable.                       *)
EXTENDS Session, TLC

Symmetry == Permutations(Party)
=============================================================================
