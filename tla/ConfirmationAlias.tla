------------------------- MODULE ConfirmationAlias -------------------------
(***************************************************************************)
(* The older verification toggle (db/confirmations.ts behind               *)
(* app/api/cameras/[id]/confirmation), kept as an alias of the confirm      *)
(* action.  Both write camera_community_actions; the toggle has a level     *)
(* gate and quotas of its own, counts confirm rows only, and neither        *)
(* refreshes last_verified_at nor evaluates a threshold.                    *)
(***************************************************************************)
EXTENDS CommunityActions

CONSTANTS
    Toggles,                  \* slots for toggle requests in flight together
    LevelGateMin,             \* CONFIRMATIONS_LEVEL_GATE_MIN
    ConfirmationsPerDay,      \* CONFIRMATIONS_DAILY_MAX_TRUSTED
    ConfirmationsPerRecord,   \* CONFIRMATIONS_PER_RECORD_DAILY_MAX
    ReviewDueAt               \* review_due_at of each record

ASSUME AliasAssumption ==
    /\ {LevelGateMin, ConfirmationsPerDay, ConfirmationsPerRecord} \subseteq Nat \ {0}
    /\ ReviewDueAt \in [Cameras -> Nat]

VARIABLE toggle               \* locals of setConfirmation, or its last answer

aliasVars == <<vars, toggle>>

Answers == {"none", "ok", "not_public", "self_verify", "level_gate", "duplicate",
            "daily_quota_exceeded", "per_record_cap_exceeded", "unavailable"}
ToggleRequest == [pc : {"idle", "public", "count", "write"},
                  who : Contributors \cup {NoOne}, cam : Cameras \cup {NoOne},
                  own : BOOLEAN, now : Nat, weight : Weights, answer : Answers]
IdleToggle == [pc |-> "idle", who |-> NoOne, cam |-> NoOne, own |-> FALSE,
               now |-> 0, weight |-> 1, answer |-> "none"]

AliasTypeOK == TypeOK /\ toggle \in [Toggles -> ToggleRequest]

AliasInit == Init /\ toggle = [s \in Toggles |-> IdleToggle]

Answer(s, kind) == toggle' = [toggle EXCEPT ![s] = [IdleToggle EXCEPT !.answer = kind]]

OwnRecord(c, cam) == owner[cam] = c

\* The camera lookup; whether it is the caller's own is decided from this read.
BeginToggle(s, c, cam) ==
    /\ toggle[s].pc = "idle" /\ started < MaxRequests
    /\ c \notin erased
    /\ toggle' = [toggle EXCEPT ![s] = [IdleToggle EXCEPT !.pc = "public", !.who = c,
                    !.cam = cam, !.own = OwnRecord(c, cam), !.now = clock]]
    /\ started' = started + 1
    /\ UNCHANGED <<status, owner, lastVerified, rows, nextId, timeline, req, erased, clock, cast>>

\* PUBLIC_CAMERA_STATUSES outside development is the status active alone.
CheckPublic(s) ==
    LET t == toggle[s] IN
    /\ t.pc = "public"
    /\ IF status[t.cam] # "active" \/ ReviewDueAt[t.cam] < t.now THEN Answer(s, "not_public")
       ELSE IF t.own THEN Answer(s, "self_verify")
       ELSE toggle' = [toggle EXCEPT ![s].pc = "count"]
    /\ UNCHANGED vars

CheckLevel(s) ==
    LET t == toggle[s]
        n == ActiveContributions(t.who) IN
    /\ t.pc = "count"
    /\ IF n < LevelGateMin THEN Answer(s, "level_gate")
       ELSE toggle' = [toggle EXCEPT ![s].pc = "write", ![s].weight = Weight(n)]
    /\ UNCHANGED vars

RecentConfirmsOf(c, now) == {cam \in RecentOf(c, now) : rows[cam][c].type = "confirm"}
UnderToggleQuota(c, now) == Cardinality(RecentConfirmsOf(c, now)) < ConfirmationsPerDay
\* Mutant of UnderToggleCap: one row too many.
UpToToggleCap(cam, now) == Cardinality(RecentOn(cam, "confirm", now)) <= ConfirmationsPerRecord
UnderToggleCap(cam, now) == Cardinality(RecentOn(cam, "confirm", now)) < ConfirmationsPerRecord

\* The INSERT with its quotas, and the probes that name a refusal, in one batch.
ToggleOn(s) ==
    LET t == toggle[s] IN
    /\ t.pc = "write"
    /\ rows[t.cam][t.who] = NoRow
    /\ AccountExists(t.who)
    /\ UnderToggleQuota(t.who, t.now) /\ UnderToggleCap(t.cam, t.now)
    /\ rows' = [rows EXCEPT ![t.cam][t.who] =
                  [id |-> nextId, type |-> "confirm", weight |-> t.weight,
                   created |-> t.now, updated |-> t.now]]
    /\ nextId' = nextId + 1
    /\ cast' = [cast EXCEPT ![t.cam] = @ \cup {<<t.who, "confirm">>}]
    /\ Answer(s, "ok")
    /\ UNCHANGED <<status, owner, lastVerified, timeline, req, erased, clock, started>>

RefuseToggle(s) ==
    LET t == toggle[s]
        row == rows[t.cam][t.who]
        fits == UnderToggleQuota(t.who, t.now) /\ UnderToggleCap(t.cam, t.now) IN
    /\ t.pc = "write"
    /\ row # NoRow \/ ~fits \/ ~AccountExists(t.who)
    /\ IF row # NoRow /\ row.type = "confirm" THEN Answer(s, "duplicate")
       ELSE IF row = NoRow /\ fits THEN Answer(s, "unavailable")
       ELSE IF ~UnderToggleQuota(t.who, t.now) THEN Answer(s, "daily_quota_exceeded")
       ELSE IF ~UnderToggleCap(t.cam, t.now) THEN Answer(s, "per_record_cap_exceeded")
       ELSE Answer(s, "daily_quota_exceeded")
    /\ UNCHANGED vars

\* removeConfirmation: one DELETE of a confirm row.
ToggleOff(s, c, cam) ==
    /\ toggle[s].pc = "idle" /\ started < MaxRequests
    /\ rows[cam][c] # NoRow /\ rows[cam][c].type = "confirm"
    /\ rows' = [rows EXCEPT ![cam][c] = NoRow]
    /\ started' = started + 1
    /\ Answer(s, "ok")
    /\ UNCHANGED <<status, owner, lastVerified, nextId, timeline, req, erased, clock, cast>>

ToggleStep(s) == CheckPublic(s) \/ CheckLevel(s) \/ ToggleOn(s) \/ RefuseToggle(s)

AliasNext ==
    \/ Next /\ UNCHANGED toggle
    \/ \E s \in Toggles :
         \/ ToggleStep(s)
         \/ \E c \in Contributors, cam \in Cameras : BeginToggle(s, c, cam) \/ ToggleOff(s, c, cam)

AliasSpec == AliasInit /\ [][AliasNext]_aliasVars
-----------------------------------------------------------------------------
\* The counts inside the statements leave no window for a race (ADR 0021 11.4): no
\* interleaving of inserts, switches and toggles puts more actions of one type on a
\* record within 24 h than its cap, which for confirms is the more generous of the
\* caps of the two lanes that write them.
SharedCapHolds == \A cam \in Cameras, t \in Actions :
    \/ Cardinality(RecentOn(cam, t, clock)) <= PerRecordPerDay
    \/ t = "confirm" /\ Cardinality(RecentOn(cam, t, clock)) <= ConfirmationsPerRecord
=============================================================================
