----------------------- MODULE MCContributorRequests -----------------------
(* Instances of ContributorRequests for TLC.                               *)
EXTENDS ContributorRequests, TLC

CONSTANTS rec1, rec2, rosa, sara, ivo, cai, dee

\* A record reviewer, a senior moderator, an intake reviewer.
Staff == (rosa :> "record_reviewer") @@ (sara :> "senior_moderator")
           @@ (ivo :> "intake_reviewer")
StaffRole == [w \in Reviewers |-> Staff[w]]

\* The first record is published, the second still pending; cai reported both.
Mixed == (rec1 :> "active") @@ (rec2 :> "pending")
Statuses0 == [rec \in Records |-> Mixed[rec]]
OwnedByCai == [rec \in Records |-> cai]
Plain == [rec \in Records |-> [title |-> "old", kind |-> "fixed", bearing |-> "east"]]

\* dee reported the first record, and cai sent an edit of it.
ReportAndEdit == <<NewItem("correction", rec1, dee, <<>>),
                   NewItem("camera_edit", rec1, cai, [kind |-> Dome])>>

\* The edit page always sends the stamp it saw; other clients need not.
Sent(patch) == [patch |-> patch, guarded |-> TRUE]
DomeOrBearing == {Sent([kind |-> Dome]), Sent([bearing |-> "west"])}

Decision(action, outcome, link) ==
    [action |-> action, outcome |-> outcome, link |-> link, recused |-> FALSE, asked |-> FALSE]
Approve == Decision("approve", "none", NoRecord)
Reject == Decision("reject", "none", NoRecord)
WithSecond == [Approve EXCEPT !.asked = TRUE]
Recusal == [Reject EXCEPT !.recused = TRUE]
Escalation == Decision("escalate", "none", NoRecord)
Verdicts0 == {Approve, Reject, WithSecond, Decision("approve", "removed", NoRecord)}
AllPayloads == Verdicts0 \cup {Recusal, Escalation,
    Decision("associate", "none", rec1),
    Decision("approve", "marked-stale", NoRecord), Decision("approve", "corrected", NoRecord)}
ApproveOrReject == {Approve, Reject}

DeskSymmetry == Permutations(Requests) \cup Permutations(Desks)
=============================================================================
