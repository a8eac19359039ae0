------------------------------ MODULE Retention ------------------------------
(***************************************************************************)
(* The daily retention sweep (runRetentionSweep in db/retention.ts, started *)
(* by the cron of worker/index.ts): it deletes pending and rejected records *)
(* after their windows and moves old moderation events to an archive, while *)
(* moderators decide, contributors appeal and operators put records on legal *)
(* hold.                                                                    *)
(*                                                                         *)
(* An archived event stays in events as a tombstone, so that the other      *)
(* events keep their ids; nothing the tables hold is left in it.            *)
(*                                                                         *)
(* Simplifications:                                                        *)
(*  - time passes in units of a retention window, and only while nobody is   *)
(*    in the middle of a request or of a sweep, which last seconds;          *)
(*  - the rules without a race of their own (R7, R15 to R18, R21 delete the  *)
(*    dead rows of one table in one statement), R12 (demo records) and R4    *)
(*    (corrections) are left out.                                           *)
(***************************************************************************)
EXTENDS Appeals

CONSTANTS
    PendingAge,       \* PENDING_RETENTION_DAYS
    RejectedAge,      \* REJECTED_RETENTION_DAYS
    ArchiveAge,       \* MODERATION_EVENT_ARCHIVE_DAYS
    ChunkSize,        \* D1_MAX_BOUND_PARAMS
    MaxTime,          \* time units a behaviour lasts
    MaxHolds          \* events operators write at most

ASSUME WindowsAssumption ==
    /\ {PendingAge, RejectedAge, ArchiveAge, MaxTime, MaxHolds} \subseteq Nat
    /\ ChunkSize \in Nat \ {0}

VARIABLES
    now,
    born,             \* moderation_events.created_at, by row id
    sweep,            \* locals of the sweep
    holds             \* events written by operators so far (bound)

retentionVars == <<appealVars, now, born, sweep, holds>>

SweepPCs == {"idle", "pending", "rejected", "events", "archive"}
\* cameras are those still to be purged, chunk the events of this round; seen tells how
\* many events there were when the cameras were selected (history, no guard reads it).
Sweep == [pc : SweepPCs, cameras : SUBSET Records, chunk : SUBSET Nat, seen : Nat]
NoSweep == [pc |-> "idle", cameras |-> {}, chunk |-> {}, seen |-> 0]

RetentionTypeOK ==
    /\ AppealTypeOK
    /\ now \in Nat
    /\ born \in Seq(Nat) /\ Len(born) = Len(events)
    /\ sweep \in Sweep /\ sweep.chunk \subseteq DOMAIN events
    /\ holds \in Nat

RetentionInit ==
    /\ AppealInit
    /\ now = 0 /\ born = <<>> /\ sweep = NoSweep /\ holds = 0

Resting == sweep.pc = "idle" /\ (\A s \in Requests : At(s, "idle"))
                             /\ (\A s \in Slots : AtAppeal(s, "idle"))
Tick ==
    /\ now < MaxTime /\ Resting
    /\ now' = now + 1
    /\ UNCHANGED <<appealVars, born, sweep, holds>>

\* Whoever appends an event stamps it.
Serve ==
    /\ AppealNext
    /\ born' = IF Len(events') > Len(events) THEN Append(born, now) ELSE born
    /\ UNCHANGED <<now, sweep, holds>>

-----------------------------------------------------------------------------
(* R1 and R2: pending and rejected records.                                *)

Of(rec, action) == {i \in DOMAIN events : events[i].rec = rec /\ events[i].action = action}

\* Mutant of UnderAppeal: an escalated appeal no longer counts as open.
PendingAppeal(rec) == \E a \in DOMAIN appeals : appeals[a].rec = rec /\ appeals[a].status = "pending"
UnderAppeal(rec) == \E a \in DOMAIN appeals : appeals[a].rec = rec /\ appeals[a].status \in Decidable

\* A hold with no later release, of those the log still has.
OnHold(rec) == \E h \in Of(rec, "legal-hold") : \A r \in Of(rec, "legal-hold-release") : r < h

\* Operators raise and release holds by events of their own on the log.
HoldEvent(rec, action) ==
    /\ holds < MaxHolds
    /\ status[rec] # "deleted"
    /\ OnHold(rec) <=> action = "legal-hold-release"
    /\ events' = Append(events, [rec |-> rec, from |-> status[rec], to |-> status[rec],
                   action |-> action, who |-> NoReviewer, recused |-> FALSE, appeal |-> 0])
    /\ born' = Append(born, now)
    /\ holds' = holds + 1
    /\ UNCHANGED <<status, queue, req, started, appeals, areq, astarted, now, sweep>>
Excluded(rec) == UnderAppeal(rec) \/ OnHold(rec)

\* Records are created at time 0.
PendingDue == {rec \in Records : status[rec] = "pending" /\ now > PendingAge /\ ~Excluded(rec)}

\* The latest event of a rejection, an intent or a recusal included, else the creation.
DecidedAt(rec) ==
    LET rejects == Of(rec, "reject") IN
    IF rejects = {} THEN 0 ELSE born[CHOOSE i \in rejects : \A j \in rejects : j <= i]
RejectedDue == {rec \in Records :
    status[rec] = "rejected" /\ now > DecidedAt(rec) + RejectedAge /\ ~Excluded(rec)}

SelectPending ==
    /\ sweep.pc = "idle"
    /\ sweep' = [NoSweep EXCEPT !.pc = "pending", !.cameras = PendingDue, !.seen = Len(events)]
    /\ UNCHANGED <<appealVars, now, born, holds>>

RowsClosed(rec) == [q \in DOMAIN queue |->
    IF queue[q].rec = rec THEN [queue[q] EXCEPT !.state = "closed"] ELSE queue[q]]

\* purgeCameraRecord, one batch, with no second look at the record; one that fails is
\* counted and skipped.
Purge(rec) ==
    /\ sweep.pc \in {"pending", "rejected"} /\ rec \in sweep.cameras
    /\ \/ status' = [status EXCEPT ![rec] = "deleted"] /\ queue' = RowsClosed(rec)
       \/ CallsCanFail /\ UNCHANGED <<status, queue>>
    /\ sweep' = [sweep EXCEPT !.cameras = @ \ {rec}]
    /\ UNCHANGED <<events, req, started, appeals, areq, astarted, now, born, holds>>

SelectRejected ==
    /\ sweep.pc = "pending" /\ sweep.cameras = {}
    /\ sweep' = [NoSweep EXCEPT !.pc = "rejected", !.cameras = RejectedDue, !.seen = Len(events)]
    /\ UNCHANGED <<appealVars, now, born, holds>>
-----------------------------------------------------------------------------
(* R5: moderation events.                                                  *)

Tombstone(e) == [e EXCEPT !.from = "deleted", !.to = "deleted", !.action = "archived",
                          !.who = NoReviewer, !.recused = FALSE, !.appeal = 0]
StaleEvents == {i \in DOMAIN events : events[i].action # "archived" /\ now > born[i] + ArchiveAge}

\* The query has a LIMIT and no ORDER BY: any chunk of that size.
SelectEvents ==
    /\ sweep.pc = "events" \/ (sweep.pc = "rejected" /\ sweep.cameras = {})
    /\ \E chunk \in SUBSET StaleEvents :
         /\ Cardinality(chunk) = ChunkSize \/ (chunk = StaleEvents /\ Cardinality(chunk) < ChunkSize)
         /\ sweep' = IF chunk = {} THEN NoSweep ELSE [NoSweep EXCEPT !.pc = "archive", !.chunk = chunk]
    /\ UNCHANGED <<appealVars, now, born, holds>>

\* Mutant of Unreferenced: the foreign key does not refuse to delete an appealed event.
AnyChunk(chunk) == TRUE
\* decision_event_id REFERENCES moderation_events(id) ON DELETE NO ACTION
Unreferenced(chunk) == \A a \in DOMAIN appeals : appeals[a].decision \notin chunk

\* Copied, marked and deleted in one batch; when it throws, the sweep stops here.
Archive ==
    /\ sweep.pc = "archive"
    /\ \/ /\ Unreferenced(sweep.chunk)
          /\ events' = [i \in DOMAIN events |->
                          IF i \in sweep.chunk THEN Tombstone(events[i]) ELSE events[i]]
          /\ sweep' = [NoSweep EXCEPT !.pc = "events"]
       \/ /\ ~Unreferenced(sweep.chunk) \/ CallsCanFail
          /\ sweep' = NoSweep /\ UNCHANGED events
    /\ UNCHANGED <<status, queue, req, started, appeals, areq, astarted, now, born, holds>>

\* A SELECT throws, or the isolate is evicted: nothing more is done today.
SweepFails ==
    /\ CallsCanFail /\ sweep.pc # "idle"
    /\ sweep' = NoSweep
    /\ UNCHANGED <<appealVars, now, born, holds>>

SweepStep ==
    \/ SelectPending \/ SelectRejected \/ SelectEvents \/ Archive
    \/ \E rec \in Records : Purge(rec)

RetentionNext ==
    \/ Serve
    \/ Tick
    \/ \E rec \in Records, action \in {"legal-hold", "legal-hold-release"} : HoldEvent(rec, action)
    \/ SweepStep
    \/ SweepFails

RetentionSpec == RetentionInit /\ [][RetentionNext]_retentionVars

\* The cron runs every day and a sweep that has begun goes on.
FairSweeps == RetentionSpec /\ WF_retentionVars(SweepStep)
-----------------------------------------------------------------------------
(* What holds under every interleaving.                                    *)

\* "a hard delete can never destroy data that the law still protects", of appeals and
\* holds on the log when the sweep chose its records: however they race, none that was
\* open then and still is loses its record, unless the sweep had archived the hold.
FiledBefore(a, n) == \E i \in 1..n : events[i].action = "appeal-filed" /\ events[i].appeal = a
Gone(rec) == status[rec] # "deleted" /\ status'[rec] = "deleted"
ProtectedBeforeSweep == [][\A rec \in Records : Gone(rec) =>
    /\ \A a \in DOMAIN appeals :
         appeals[a].rec = rec /\ FiledBefore(a, sweep.seen) => appeals[a].status \notin Decidable
    /\ \A h \in Of(rec, "legal-hold") :
         h <= sweep.seen => \E r \in Of(rec, "legal-hold-release") : r > h]_retentionVars

\* A decision somebody contests is not archived, whether the appeal or the sweep was
\* first, so a decider always finds who made it.
ContestedStays == \A a \in DOMAIN appeals : events[appeals[a].decision].action # "archived"

\* A purged record stays purged, whatever requests still hold of it, and no decision
\* on it enters the log afterwards.
PurgeIsFinal == [][\A rec \in Records : status[rec] = "deleted" =>
    /\ status'[rec] = "deleted"
    /\ \A i \in DOMAIN events' \ DOMAIN events :
         events'[i].rec = rec /\ events'[i].action \in CameraActions =>
           events'[i].from = events'[i].to]_retentionVars

\* The log agrees with every record that is left, unless what came after the last
\* claim of a change has been archived.
TrailOfTheRest == \A rec \in Records : \A i \in Claims(rec) :
    /\ status[rec] # "deleted"
    /\ \A j \in Claims(rec) \cup Of(rec, "archived") : j <= i
    => status[rec] = events[i].to

\* The step that purges a record closes every review of it.
PurgeClosesReviews == [][\A rec \in Records : Gone(rec) => OpenRows(rec)' = {}]_retentionVars
-----------------------------------------------------------------------------
(* What the documentation says and some sequence of requests refutes.      *)

\* "one bad row can never abort the whole sweep and block it forever": an event past
\* its window that no appeal contests is archived in the end.
Due(i) == i \in StaleEvents /\ \A a \in DOMAIN appeals : appeals[a].decision # i
ArchivalGoesOn == \A i \in 1..(MaxRequests + MaxAppealRequests) :
    [](i \in DOMAIN events /\ Due(i) => <>~Due(i))

\* "suspends the relevant deletions until the matter is closed": with the whole history
\* of holds, not only what the log still has.
HoldsOutlast == [][\A i \in DOMAIN events : \A rec \in Records :
    /\ events[i].action = "legal-hold" /\ events'[i].action = "archived" /\ events[i].rec = rec
    => \E r \in Of(rec, "legal-hold-release") : r > i]_retentionVars

\* "`active` record: no automatic deletion": what the sweep deletes is not published.
PublishedIsKept == [][\A rec \in Records : Gone(rec) => status[rec] # "active"]_retentionVars

\* "the entity returns to the moderation queue for a different reviewer to re-decide":
\* a record that an appeal sent back is not deleted before somebody has decided again.
ReopenedIsDecided == [][\A rec \in Records : Gone(rec) /\ Claims(rec) # {} =>
    events[CHOOSE i \in Claims(rec) : \A j \in Claims(rec) : j <= i].action
      # "appeal-uphold"]_retentionVars
=============================================================================
