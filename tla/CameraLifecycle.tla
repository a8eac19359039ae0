--------------------------- MODULE CameraLifecycle ---------------------------
(***************************************************************************)
(* The two lanes that write cameras.status at run time: the weighted votes *)
(* of CommunityActions and the reviewers of ReviewQueue.  Neither locks     *)
(* the record: both read its status, look at tables of their own for        *)
(* several calls, and write with UPDATE ... WHERE status = <status read>.   *)
(*                                                                         *)
(* Simplification: the row a community transition appends to                *)
(* moderation_events names no reviewer, so no moderation request reads it;  *)
(* timeline stands for it, and events holds the rows of reviewers.          *)
(***************************************************************************)
EXTENDS CommunityActions

CONSTANTS
    Reviewers, Role, NoReviewer,   \* as in ReviewQueue
    Decisions,        \* the actions reviewers use
    DecisionSlots,    \* slots for moderation requests in flight together
    MaxDecisions      \* moderation requests begun at most

VARIABLES
    queue, events,    \* moderation_queue, moderation_events
    decision,         \* locals of the moderation request in each slot
    decided           \* moderation requests begun so far (bound)

Review == INSTANCE ReviewQueue WITH
    Records <- Cameras, Offered <- Decisions, Requests <- DecisionSlots,
    MaxRequests <- MaxDecisions, req <- decision, started <- decided

reviewVars == <<queue, events, decision, decided>>
lifecycleVars == <<vars, reviewVars>>

ASSUME LifecycleAssumption ==
    /\ Cameras # {}
    /\ NoReviewer \notin Reviewers
    /\ Role \in [Reviewers -> Review!Roles]
    /\ Decisions \subseteq Review!CameraActions
    /\ MaxDecisions \in Nat

LifecycleTypeOK == TypeOK /\ Review!TypeOK

LifecycleInit == Init /\ Review!Init

\* approve and reverify, the only decisions that publish, date the verification.
Verified(cam) == status'[cam] = "active" /\ status[cam] # "active"

Moderate ==
    /\ Review!Next
    /\ lastVerified' = [cam \in Cameras |-> IF Verified(cam) THEN clock ELSE lastVerified[cam]]
    /\ UNCHANGED <<owner, rows, nextId, timeline, req, erased, clock, started, cast>>

LifecycleNext ==
    \/ Next /\ UNCHANGED reviewVars
    \/ Moderate

LifecycleSpec == LifecycleInit /\ [][LifecycleNext]_lifecycleVars
-----------------------------------------------------------------------------
(* What holds whichever lane is faster.                                    *)

\* Decisions on file that moved the record there.
Decided(cam, to) == {i \in DOMAIN events :
    events[i].rec = cam /\ events[i].to = to /\ events[i].from # to}

Quorum(cam, t, n) == Cardinality(Ever(cam, t)) >= n

\* "No single account - human or not - controls publication" and nobody leaves
\* no trace (ADR 0021 6.1, 8.2): behind the status of every record stand a
\* decision on file or enough distinct voters for the rule that leads there.
StatusHasCause == \A cam \in Cameras : status[cam] # InitialStatus[cam] =>
    \/ Decided(cam, status[cam]) # {}
    \/ status[cam] = "removed" /\ Quorum(cam, "gone", GoneMinDistinct)
    \/ status[cam] = "hidden" /\ \/ Quorum(cam, "privacy", PrivacyMin)
                                 \/ Quorum(cam, "problem", ProblemMinDistinct)
    \/ status[cam] = "active" /\ \/ Quorum(cam, "confirm", RestoreHiddenMinDistinct)
                                 \/ Quorum(cam, "confirm", RestoreRemovedMinDistinct)

\* "Reversal is always contrary consensus, never a single-user undo and never an
\* admin restore" (ADR 0021 6.2): out of a withdrawal lead only the confirms of
\* enough people, and neither lane touches a rejected record.
RestoreMin(from) == IF from = "hidden" THEN RestoreHiddenMinDistinct
                    ELSE RestoreRemovedMinDistinct
ReversedByConsensus == [][\A cam \in Cameras : status'[cam] # status[cam] =>
    /\ status[cam] # "rejected"
    /\ status[cam] = "hidden" => status'[cam] \in {"active", "removed"}
    /\ status[cam] = "removed" => status'[cam] = "active"
    /\ status[cam] \in {"hidden", "removed"} /\ status'[cam] = "active" =>
         Quorum(cam, "confirm", RestoreMin(status[cam]))]_lifecycleVars

\* ReviewQueue's rule on two-person rows, next to a lane that knows no such rows.
NoHastyDecision == Review!NoHastyDecision
-----------------------------------------------------------------------------
(* What the documentation says and some interleaving refutes.              *)

\* "stable until new consensus forms" (ADR 0021 2.3): a record that is taken down
\* does not already have the votes that restore it.
StandsUntilNewConsensus == [][\A cam \in Cameras :
    status[cam] # "removed" /\ status'[cam] = "removed" =>
      FirstMet("removed", rows'[cam]) = {}]_lifecycleVars

\* "It only lands when the UPDATE above actually applied" (moderation.ts:902): a
\* new event that names a change is about a change this step made.
EventMeansChange == [][\A i \in DOMAIN events' \ DOMAIN events :
    events'[i].from # events'[i].to =>
      status[events'[i].rec] # status'[events'[i].rec]]_lifecycleVars

\* "Every state transition writes a public camera_lifecycle_events row" (ADR 0021
\* 6.1): the public history of a record nobody is working on explains its status.
PublicHistoryExplains == \A cam \in Cameras :
    /\ Quiet(cam)
    /\ status[cam] \in {"hidden", "removed"}
    => \E i \in DOMAIN timeline[cam] : Rules[timeline[cam][i].rule].to = status[cam]
=============================================================================
