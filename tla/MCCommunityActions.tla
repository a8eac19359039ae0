------------------------- MODULE MCCommunityActions -------------------------
(* Instances of CommunityActions for TLC.                                  *)
EXTENDS CommunityActions, TLC

CONSTANTS a, b, c3, cam1, cam2, cam3

Unowned == [x \in Cameras |-> NoOne]
\* Level 1 each: three of them reach a weighted sum of 3.
Level1 == [x \in Contributors |-> 1]
\* Level 2 each: one of them alone reaches a weighted sum of 2.
Level2 == [x \in Contributors |-> 5]
\* One new account among two of level 2.
Mixed == [x \in Contributors |-> IF x = a THEN 0 ELSE 5]
\* a reported the first record, b the others.
Owned == [x \in Cameras |-> IF x = cam1 THEN a ELSE b]
AllActive == [x \in Cameras |-> "active"]

RequestSymmetry == Permutations(Requests)
Symmetry == Permutations(Requests) \cup Permutations(Contributors)
=============================================================================
