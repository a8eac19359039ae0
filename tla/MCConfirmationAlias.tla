------------------------ MODULE MCConfirmationAlias ------------------------
(* Instances of ConfirmationAlias for TLC.                                 *)
EXTENDS ConfirmationAlias, MCCommunityActions

\* Everything falls due for review after time 0.
DueAtStart == [x \in Cameras |-> 0]

=============================================================================
