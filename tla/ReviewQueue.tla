----------------------------- MODULE ReviewQueue -----------------------------
(***************************************************************************)
(* Human moderation of camera records (moderateCamera in db/moderation.ts  *)
(* behind PATCH app/api/moderation): reviewers with roles decide on a       *)
(* record through its open row of moderation_queue, sensitive rows need two *)
(* people, and every decision is appended to moderation_events.             *)
(*                                                                         *)
(* As in CommunityActions every action is one database statement or batch  *)
(* and req[s] holds what a request in flight has read.                     *)
(*                                                                         *)
(* Simplifications:                                                        *)
(*  - reviewers keep their role while the model runs, and inactive or       *)
(*    unknown ones never get past the first check;                          *)
(*  - "verified", the legacy name of "active", is not modelled;             *)
(*  - dates, notes, published metadata and assignees decide nothing here;   *)
(*  - a request that is refused before it writes anything takes no step.    *)
(* A definition whose comment begins with "Mutant" is no part of the model. *)
(***************************************************************************)
EXTENDS Integers, Sequences, FiniteSets

CONSTANTS
    Records,          \* cameras under moderation
    Reviewers,        \* active rows of the reviewers table
    Role,             \* the role of each reviewer
    NoReviewer,       \* moderation_events.reviewer_id IS NULL
    Requests,         \* slots for moderation requests in flight together
    InitialStatus,    \* status of each record at the start
    Offered,          \* the actions reviewers use
    MaxRequests,      \* requests begun at most, over a behaviour
    CallsCanFail      \* may a database call fail or the isolate be evicted

Roles == {"intake_reviewer", "record_reviewer", "senior_moderator",
          "privacy_safety_lead", "administrator"}
CameraActions == {"approve", "reject", "hide", "mark-stale", "reverify", "escalate"}
\* "deleted" stands for a record whose row is gone (the retention sweep).
Statuses == {"pending", "active", "hidden", "needs_review", "stale", "removed", "rejected", "demo",
             "deleted"}
QueueStates == {"queued", "second_review", "escalated", "closed"}

ASSUME ReviewersAssumption ==
    /\ NoReviewer \notin Reviewers
    /\ Role \in [Reviewers -> Roles]
ASSUME InitialAssumption ==
    /\ Records # {}
    /\ InitialStatus \in [Records -> Statuses]
ASSUME BoundsAssumption ==
    /\ Offered \subseteq CameraActions
    /\ MaxRequests \in Nat
    /\ CallsCanFail \in BOOLEAN

VARIABLES
    status,           \* cameras.status
    queue,            \* moderation_queue, by row id
    events,           \* moderation_events, by row id
    req,              \* locals of the request in each slot
    started           \* requests begun so far (bound)

vars == <<status, queue, events, req, started>>
-----------------------------------------------------------------------------
(* Who may do what, and where it leads.                                    *)

AllowedActions ==
    [intake_reviewer     |-> {"reject", "hide", "escalate"},
     record_reviewer     |-> {"approve", "reject", "hide", "mark-stale", "reverify", "escalate"},
     senior_moderator    |-> {"approve", "reject", "hide", "mark-stale", "reverify", "escalate"},
     privacy_safety_lead |-> {"hide", "escalate"},
     administrator       |-> {"escalate"}]
RoleAllows(w, action) == action \in AllowedActions[Role[w]]

Resolvers == {w \in Reviewers : Role[w] \in {"senior_moderator", "privacy_safety_lead"}}
SecondReviewActions == {"approve", "reject", "reverify"}

HideTarget == "removed"

\* getCameraTransition: the status an action leads to, or a set with none.
Outcome(from, action) ==
    CASE action = "approve"    -> IF from = "pending" THEN {"active"} ELSE {}
      [] action = "reject"     -> IF from = "pending" THEN {"rejected"} ELSE {}
      [] action = "hide"       -> IF from \in {"pending", "active", "needs_review", "stale"}
                                    THEN {HideTarget} ELSE {}
      [] action = "mark-stale" -> IF from = "active" THEN {"needs_review"} ELSE {}
      [] action = "reverify"   -> IF from \in {"needs_review", "stale"} THEN {"active"} ELSE {}
      [] OTHER                 -> {}
-----------------------------------------------------------------------------
(* Queue rows, events, requests.                                           *)

\* two stands for requires_second_review = 1 or a sensitivity beyond standard.
QueueRow == [rec : Records, state : QueueStates, two : BOOLEAN]
NewRow(rec, two) == [rec |-> rec, state |-> "queued", two |-> two]
OpenRows(rec) == {q \in DOMAIN queue : queue[q].rec = rec /\ queue[q].state # "closed"}

\* UPDATE moderation_queue SET state ... WHERE id = ? AND state != 'closed'
QueueAfter(q, state) ==
    IF queue[q].state = "closed" THEN queue ELSE [queue EXCEPT ![q].state = state]

\* What a moderator who accepts a correction may do to the camera it is about.
OutcomeActions == {"marked-stale", "removed", "corrected"}
\* "archived" stands for an event that has left the table for its archive.
EventActions == CameraActions \cup OutcomeActions \cup
    {"appeal-filed", "appeal-uphold", "appeal-dismiss", "appeal-escalate", "edit_applied",
     "legal-hold", "legal-hold-release", "archived"}
\* appeal is moderation_events.appeal_id, 0 when it is NULL.
Event == [rec : Records, from : Statuses, to : Statuses, action : EventActions,
          who : Reviewers \cup {NoReviewer}, recused : BOOLEAN, appeal : Nat]
EventOf(s, to, recused) ==
    [rec |-> req[s].rec, from |-> req[s].from, to |-> to, action |-> req[s].action,
     who |-> req[s].who, recused |-> recused, appeal |-> 0]

PCs == {"idle", "find", "open", "recuse", "escalate", "intent", "lookup", "decide"}
\* q is the id of the queue row and two its flag; asked is what the payload says
\* for a row that must be created.
Request == [pc : PCs, who : Reviewers \cup {NoReviewer}, rec : Records, action : CameraActions,
            recused : BOOLEAN, asked : BOOLEAN, from : Statuses, q : Nat, two : BOOLEAN]
Idle == [pc |-> "idle", who |-> NoReviewer, rec |-> CHOOSE rec \in Records : TRUE,
         action |-> "escalate", recused |-> FALSE, asked |-> FALSE, from |-> "pending",
         q |-> 0, two |-> FALSE]

TypeOK ==
    /\ status \in [Records -> Statuses]
    /\ queue \in Seq(QueueRow)
    /\ events \in Seq(Event)
    /\ req \in [Requests -> Request]
    /\ \A s \in Requests :
         /\ req[s].pc # "idle" => req[s].who \in Reviewers
         /\ req[s].pc \notin {"idle", "find", "open"} => req[s].q \in DOMAIN queue
    /\ started \in Nat

Init ==
    /\ status = InitialStatus
    /\ queue = <<>>
    /\ events = <<>>
    /\ req = [s \in Requests |-> Idle]
    /\ started = 0

At(s, pc) == req[s].pc = pc
Finish(s) == req' = [req EXCEPT ![s] = Idle]
-----------------------------------------------------------------------------
(* moderateCamera.                                                         *)

Begin(s, w, rec, action, recused, asked) ==
    /\ At(s, "idle") /\ started < MaxRequests
    /\ RoleAllows(w, action)
    /\ status[rec] # "deleted"
    /\ req' = [req EXCEPT ![s] = [Idle EXCEPT !.pc = "find", !.who = w, !.rec = rec,
                 !.action = action, !.recused = recused, !.asked = asked, !.from = status[rec]]]
    /\ started' = started + 1
    /\ UNCHANGED <<status, queue, events>>

NeedsSecondReview(action, two) == two /\ action \in SecondReviewActions

\* Mutant of IntentRecorded: any row somebody has touched counts as a second review.
AnyProgress(state) == state # "queued"
IntentRecorded(state) == state = "second_review"

\* The synchronous code after the queue row is known: what the request does next.
NextPC(s, row) ==
    LET r == req[s] IN
    IF row.state = "escalated" /\ r.action # "escalate" /\ r.who \notin Resolvers THEN "idle"
    ELSE IF r.recused THEN "recuse"
    ELSE IF r.action = "escalate" THEN "escalate"
    ELSE IF Outcome(r.from, r.action) = {} THEN "idle"
    ELSE IF ~NeedsSecondReview(r.action, row.two) THEN "decide"
    ELSE IF IntentRecorded(row.state) THEN "lookup" ELSE "intent"

Proceed(s, q, row) ==
    IF NextPC(s, row) = "idle" THEN Finish(s)
    ELSE req' = [req EXCEPT ![s].pc = NextPC(s, row), ![s].q = q, ![s].two = row.two]

\* findOpenQueueItem
FindQueueItem(s) ==
    /\ At(s, "find")
    /\ \/ \E q \in OpenRows(req[s].rec) : Proceed(s, q, queue[q])
       \/ OpenRows(req[s].rec) = {} /\ req' = [req EXCEPT ![s].pc = "open"]
    /\ UNCHANGED <<status, queue, events, started>>

\* moderation_queue_open_unique
RowAdmitted(rec) == OpenRows(rec) = {}

\* The INSERT of getOrCreateQueueItem; the partial unique index makes it throw
\* when another request has opened a row meanwhile.
OpenQueueItem(s) ==
    /\ At(s, "open")
    /\ IF RowAdmitted(req[s].rec)
         THEN LET row == NewRow(req[s].rec, req[s].asked) IN
              /\ queue' = Append(queue, row)
              /\ Proceed(s, Len(queue) + 1, row)
         ELSE Finish(s) /\ UNCHANGED queue
    /\ UNCHANGED <<status, events, started>>

Recuse(s) ==
    /\ At(s, "recuse")
    /\ events' = Append(events, EventOf(s, req[s].from, TRUE))
    /\ Finish(s)
    /\ UNCHANGED <<status, queue, started>>

Escalate(s) ==
    /\ At(s, "escalate")
    /\ queue' = QueueAfter(req[s].q, "escalated")
    /\ events' = Append(events, EventOf(s, req[s].from, FALSE))
    /\ Finish(s)
    /\ UNCHANGED <<status, started>>

\* The first reviewer of two: an event without a transition.
RecordIntent(s) ==
    /\ At(s, "intent")
    /\ events' = Append(events, EventOf(s, req[s].from, FALSE))
    /\ queue' = QueueAfter(req[s].q, "second_review")
    /\ Finish(s)
    /\ UNCHANGED <<status, started>>

\* The last event of the same action on the record names the first reviewer.
SameAction(s) == {i \in DOMAIN events : /\ events[i].rec = req[s].rec
                                        /\ events[i].action = req[s].action
                                        /\ events[i].who # NoReviewer}
LastSameAction(s) == {i \in SameAction(s) : \A j \in SameAction(s) : j <= i}

LookUpFirstReviewer(s) ==
    /\ At(s, "lookup")
    /\ IF \E i \in LastSameAction(s) : events[i].who = req[s].who
         THEN Finish(s)
         ELSE req' = [req EXCEPT ![s].pc = "decide"]
    /\ UNCHANGED <<status, queue, events, started>>

\* Mutant of StatusAsRead: the UPDATE is not conditional.
AnyStatus(s) == TRUE
StatusAsRead(s) == status[req[s].rec] = req[s].from

\* INSERT ... WHERE EXISTS (SELECT 1 FROM cameras WHERE id = ? AND status = <to>)
EventLands(s, to) == status'[req[s].rec] = to

\* The final batch: conditional UPDATE, guarded event, queue row closed.
Decide(s) ==
    /\ At(s, "decide")
    /\ \E to \in Outcome(req[s].from, req[s].action) :
         /\ status' = IF StatusAsRead(s) THEN [status EXCEPT ![req[s].rec] = to] ELSE status
         /\ events' = IF EventLands(s, to) THEN Append(events, EventOf(s, to, FALSE)) ELSE events
    /\ queue' = QueueAfter(req[s].q, "closed")
    /\ Finish(s)
    /\ UNCHANGED started

\* The next database call throws, or the isolate is evicted.
FailRequest(s) ==
    /\ CallsCanFail
    /\ ~At(s, "idle")
    /\ Finish(s)
    /\ UNCHANGED <<status, queue, events, started>>

Step(s) ==
    \/ FindQueueItem(s) \/ OpenQueueItem(s)
    \/ Recuse(s) \/ Escalate(s) \/ RecordIntent(s)
    \/ LookUpFirstReviewer(s) \/ Decide(s)

Next == \E s \in Requests :
    \/ \E w \in Reviewers, rec \in Records, action \in Offered, recused, asked \in BOOLEAN :
         Begin(s, w, rec, action, recused, asked)
    \/ Step(s)
    \/ FailRequest(s)

Spec == Init /\ [][Next]_vars
-----------------------------------------------------------------------------
(* What holds under every interleaving.                                    *)

\* Events that say what became of the record: decisions that changed it, outcomes of
\* corrections, and upheld appeals, which send it back even from "pending" itself.
Claims(rec) == {i \in DOMAIN events : /\ events[i].rec = rec
                                      /\ \/ events[i].action = "appeal-uphold"
                                         \/ /\ events[i].action \in CameraActions \cup OutcomeActions
                                            /\ events[i].from # events[i].to}

\* However many requests find a record without a queue row at once, it gets one: the
\* two people of a two-person review work on the same row.
OneOpenRow == \A p, q \in DOMAIN queue :
    /\ queue[p].rec = queue[q].rec
    /\ queue[p].state # "closed" /\ queue[q].state # "closed"
    => p = q

\* The audit trail never disagrees with the record: whatever requests raced, the
\* last event that claims one names the status the record has.
StatusIsLastClaim == \A rec \in Records :
    /\ Claims(rec) = {} => status[rec] = InitialStatus[rec]
    /\ \A i \in Claims(rec) : (\A j \in Claims(rec) : j <= i) => status[rec] = events[i].to

\* ADR 0009 4: nobody is about to complete an approval, rejection or
\* re-verification of a two-person row before an earlier request put such an
\* intent for the record on file.
IntentsOn(rec) == {i \in DOMAIN events : /\ events[i].rec = rec
                                         /\ events[i].from = events[i].to
                                         /\ ~events[i].recused
                                         /\ events[i].action \in SecondReviewActions}
NoHastyDecision == \A s \in Requests :
    /\ At(s, "lookup") \/ At(s, "decide")
    /\ NeedsSecondReview(req[s].action, req[s].two)
    => IntentsOn(req[s].rec) # {}

\* A takedown or a rejection is final for moderators: no request that read the
\* record before it brings the record back (only an upheld appeal does, to pending),
\* and at most the outcome of a correction takes a rejected record down as well.
TakedownStands == [][\A rec \in Records : status[rec] \in {"removed", "rejected"} =>
    status'[rec] \in {status[rec], "removed", "pending"}]_vars
-----------------------------------------------------------------------------
(* What the documentation says and some sequence of requests refutes.      *)

\* "the status changes only when a different reviewer completes the decision": on a
\* two-person row somebody else has put the same decision on file before.
SecondReviewerDecides == [][\A s \in Requests :
    /\ Decide(s) /\ status' # status
    /\ NeedsSecondReview(req[s].action, req[s].two)
    => \E i \in IntentsOn(req[s].rec) :
         events[i].action = req[s].action /\ events[i].who # req[s].who]_vars
=============================================================================
