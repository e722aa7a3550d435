---------------------------- MODULE MCWecomAuth ----------------------------
(* Instances of WecomAuth for TLC.                                         *)
EXTENDS WecomAuth, TLC

CONSTANTS w1, w2, u1, m1, m2, c1, f1, f2

Symmetry ==
  Permutations(Workers) \cup Permutations(Users) \cup Permutations(Members) \cup Permutations(Flows)
=============================================================================
