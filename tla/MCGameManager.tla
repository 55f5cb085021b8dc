---------------------------- MODULE MCGameManager ----------------------------
(* Instances of GameManager for TLC.                                       *)
EXTENDS GameManager, TLC

Symmetry == Permutations(Requests)
=============================================================================
