-------------------------- MODULE MCCameraLifecycle --------------------------
(* Instances of CameraLifecycle for TLC.                                   *)
EXTENDS CameraLifecycle, MCCommunityActions

CONSTANTS rosa, sara

Staff == (rosa :> "record_reviewer") @@ (sara :> "senior_moderator")
StaffRole == [w \in Reviewers |-> Staff[w]]
Submitted == [x \in Cameras |-> "pending"]

LifecycleSymmetry == Permutations(Contributors) \cup Permutations(DecisionSlots)
=============================================================================
