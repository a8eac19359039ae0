----------------------------- MODULE MCRetention -----------------------------
(* Instances of Retention for TLC.                                         *)
EXTENDS Retention, TLC

CONSTANTS rec1, rosa, sara, sven, ada

\* A record reviewer, two senior moderators, the administrator.
Staff == (rosa :> "record_reviewer") @@ (sara :> "senior_moderator")
           @@ (sven :> "senior_moderator") @@ (ada :> "administrator")
StaffRole == [w \in Reviewers |-> Staff[w]]
Reported == [rec \in Records |-> "pending"]
Published == [rec \in Records |-> "active"]

RetentionSymmetry == Permutations(Requests) \cup Permutations(Slots)
=============================================================================
