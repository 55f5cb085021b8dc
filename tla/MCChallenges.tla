---------------------------- MODULE MCChallenges ----------------------------
(* Instances of Challenges for TLC.                                        *)
EXTENDS Challenges, TLC

Symmetry == Permutations(Requests) \cup Permutations(Ids) \cup Permutations(Dids)
=============================================================================
