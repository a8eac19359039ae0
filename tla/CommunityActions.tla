-------------------------- MODULE CommunityActions --------------------------
(***************************************************************************)
(* The community-action write path of the public camera directory          *)
(* (db/community-actions.ts behind app/api/cameras/[id]/actions): a        *)
(* verified contributor likes, confirms or flags a record, and the weighted *)
(* votes standing on a record move its public status without a moderator.  *)
(*                                                                         *)
(* The database executes one statement, or one batch, at a time; requests  *)
(* interleave between them.  Every action below is therefore one statement *)
(* (or one batch) of the handler together with the synchronous code up to  *)
(* the next await, and req[r] holds the handler's locals in between.       *)
(*                                                                         *)
(* Simplifications:                                                        *)
(*  - weights are counted in quarters, so the weight 0.25 of level 0 is 1  *)
(*    and thresholds on weighted sums are multiplied by 4;                 *)
(*  - a clock tick is the grain at which two timestamps differ;            *)
(*  - a transition's public event, its audit row and its action-consumed   *)
(*    event are written by one batch: one timeline entry stands for them;  *)
(*  - the aggregate liked / confirmed / gone-flagged events and the        *)
(*    action-changed audit row decide nothing and are left out;            *)
(*  - a request that is refused before it writes takes no step;            *)
(*  - settings do not change while the model runs.                         *)
(* A definition whose comment begins with "Mutant" is no part of the model: *)
(* it is a plausible bug that some property must catch.                     *)
(***************************************************************************)
EXTENDS Integers, Sequences, FiniteSets, FiniteSetsExt

CONSTANTS
    Cameras,          \* records of the directory
    Contributors,     \* verified accounts
    Requests,         \* slots for requests that may be in flight together
    NoOne,            \* cameras.contributor_id IS NULL
    NoRow,            \* no camera_community_actions row for the pair
    InitialOwner,     \* who reported each record
    InitialStatus,    \* status of each record at the start
    OtherActive       \* active records a contributor has besides Cameras

CONSTANTS             \* community_settings, see DEFAULT_COMMUNITY_SETTINGS
    GoneSum, GoneMinDistinct,
    ProblemSum, ProblemMinDistinct,
    PrivacyMin,
    RestoreHiddenSum, RestoreHiddenMinDistinct,
    RestoreRemovedSum, RestoreRemovedMinDistinct,
    PrivacyCooldown,
    ActionsPerDay, ActionsPerDayTrusted, PerRecordPerDay,
    Day               \* the 24 h window of every quota, in ticks

CONSTANTS             \* bounds and switches of the model
    Offered,          \* the action types contributors use
    MaxRequests,      \* requests begun at most, over a behaviour
    MaxClock,         \* the clock stops here
    CallsCanFail      \* may a database call fail or the isolate be evicted

\* COMMUNITY_ACTION_TYPES, and the statuses a record of this model can have.
Actions == {"like", "confirm", "gone", "problem", "privacy"}
Statuses == {"active", "hidden", "removed", "pending", "demo",
             "needs_review", "stale", "rejected"}

ASSUME ContributorsAssumption ==
    /\ IsFiniteSet(Contributors)
    /\ NoOne \notin Contributors
ASSUME RecordsAssumption ==
    /\ InitialOwner \in [Cameras -> Contributors \cup {NoOne}]
    /\ InitialStatus \in [Cameras -> {"active", "pending", "demo"}]
    /\ OtherActive \in [Contributors -> Nat]
    /\ IsFiniteSet(Cameras)
ASSUME SettingsAssumption ==
    /\ {GoneSum, ProblemSum, RestoreHiddenSum, RestoreRemovedSum} \subseteq Nat \ {0}
    /\ {GoneMinDistinct, ProblemMinDistinct, PrivacyMin, RestoreHiddenMinDistinct,
          RestoreRemovedMinDistinct} \subseteq Nat \ {0}
    /\ {PrivacyCooldown, ActionsPerDay, ActionsPerDayTrusted, PerRecordPerDay}
          \subseteq Nat \ {0}
    /\ Day \in Nat \ {0}
ASSUME BoundsAssumption ==
    /\ IsFiniteSet(Requests)
    /\ Offered \subseteq Actions
    /\ MaxRequests \in Nat
    /\ MaxClock \in Nat
    /\ CallsCanFail \in BOOLEAN

VARIABLES
    status,           \* cameras.status
    owner,            \* cameras.contributor_id
    lastVerified,     \* cameras.last_verified_at
    rows,             \* camera_community_actions: rows[cam][c] is the unique row
    nextId,           \* AUTOINCREMENT of camera_community_actions
    timeline,         \* transition events of each record, in insertion order
    req,              \* locals of the request in each slot
    erased,           \* accounts deleted by eraseContributor
    clock,            \* the time of day
    started,          \* requests begun so far (bound)
    cast              \* history: <<c, t>> ever stored on each record

vars == <<status, owner, lastVerified, rows, nextId, timeline, req, erased,
          clock, started, cast>>
-----------------------------------------------------------------------------
(* Trust levels and weights.                                               *)

LevelThreshold == <<1, 5, 20, 50>>
DeriveLevel(count) == Cardinality({k \in 1..4 : count >= LevelThreshold[k]})

WeightByLevel == <<1, 4, 8, 12, 20>>
Weight(count) == WeightByLevel[DeriveLevel(count) + 1]
Weights == {1, 4, 8, 12, 20}

\* verifiedContributionCount
ActiveContributions(c) ==
    OtherActive[c]
      + Cardinality({cam \in Cameras : owner[cam] = c /\ status[cam] = "active"})
-----------------------------------------------------------------------------
(* The votes standing on a record.  A table maps each contributor to its   *)
(* row, or to NoRow; rows[cam] is one, and so is what a request has read.  *)

Row == [id : Nat, type : Actions, weight : Weights, created : Nat, updated : Nat]
Table == [Contributors -> Row \cup {NoRow}]
NoVotes == [c \in Contributors |-> NoRow]

ASSUME NoRowAssumption ==
    /\ NoRow \notin Row
    /\ NoRow \notin [type : Actions, weight : Weights]

Voters(table, t) == {c \in Contributors : table[c] # NoRow /\ table[c].type = t}
Distinct(table, t) == Cardinality(Voters(table, t))
Sum(table, t) == SumFunction([c \in Voters(table, t) |-> table[c].weight])
OnlyVotes(table, t) == [c \in Contributors |-> IF c \in Voters(table, t) THEN table[c] ELSE NoRow]
WithoutVotes(table, t) == [c \in Contributors |-> IF c \in Voters(table, t) THEN NoRow ELSE table[c]]

(* The transition matrix, in the order evaluateCommunityThresholds tries   *)
(* it.  Privacy is not weighted: any sum does.                             *)
Rule(from, trigger, to, sum, distinct) ==
    [from |-> from, trigger |-> trigger, to |-> to, sum |-> sum, distinct |-> distinct]

\* Mutant of PrivacyRule: privacy votes are weighted like the others.
WeightedPrivacyRule == Rule("active", "privacy", "hidden", ProblemSum, PrivacyMin)
PrivacyRule == Rule("active", "privacy", "hidden", 0, PrivacyMin)

Rules == <<
    PrivacyRule,
    Rule("active",  "gone",    "removed", GoneSum,           GoneMinDistinct),
    Rule("active",  "problem", "hidden",  ProblemSum,        ProblemMinDistinct),
    Rule("hidden",  "gone",    "removed", GoneSum,           GoneMinDistinct),
    Rule("hidden",  "confirm", "active",  RestoreHiddenSum,  RestoreHiddenMinDistinct),
    Rule("removed", "confirm", "active",  RestoreRemovedSum, RestoreRemovedMinDistinct) >>

\* Mutant of Met: the floor on distinct contributors is not checked.
MetBySum(i, from, table) ==
    /\ Rules[i].from = from
    /\ Sum(table, Rules[i].trigger) >= Rules[i].sum
    /\ Distinct(table, Rules[i].trigger) > 0
Met(i, from, table) ==
    /\ Rules[i].from = from
    /\ Sum(table, Rules[i].trigger) >= Rules[i].sum
    /\ Distinct(table, Rules[i].trigger) >= Rules[i].distinct

\* The first rule whose threshold is met: a set of at most one.
FirstMet(from, table) ==
    {i \in 1..6 : Met(i, from, table) /\ \A j \in 1..(i - 1) : ~Met(j, from, table)}

Event == [rule : 1..6, counted : Table, at : Nat]

\* ORDER BY created_at DESC, id DESC LIMIT 1 over the record's hidden events.
HiddenEvents(cam) == {i \in DOMAIN timeline[cam] : Rules[timeline[cam][i].rule].to = "hidden"}
IsLatestHidden(cam, i) ==
    /\ i \in HiddenEvents(cam)
    /\ \A j \in HiddenEvents(cam) :
         \/ timeline[cam][j].at < timeline[cam][i].at
         \/ timeline[cam][j].at = timeline[cam][i].at /\ j <= i

\* Mutant of CoolingDown: the reason in the event's detail is never recognised.
NeverCoolingDown(cam, now) == FALSE
CoolingDown(cam, now) ==
    \E i \in DOMAIN timeline[cam] :
      /\ IsLatestHidden(cam, i)
      /\ Rules[timeline[cam][i].rule].trigger = "privacy"
      /\ now - timeline[cam][i].at < PrivacyCooldown
-----------------------------------------------------------------------------
(* Quotas: rows created in the 24 h before the request's own time.         *)

Recent(row, now) == row # NoRow /\ row.created >= now - Day
RecentOf(c, now) == {cam \in Cameras : Recent(rows[cam][c], now)}
RecentOn(cam, t, now) == {c \in Voters(rows[cam], t) : Recent(rows[cam][c], now)}

DailyLimit(trusted) == IF trusted THEN ActionsPerDayTrusted ELSE ActionsPerDay
UnderDailyLimit(c, now, trusted) == Cardinality(RecentOf(c, now)) < DailyLimit(trusted)
UnderRecordCap(cam, t, now) == Cardinality(RecentOn(cam, t, now)) < PerRecordPerDay
-----------------------------------------------------------------------------
(* Requests.                                                               *)

PCs == {"idle", "count", "write", "switch", "refresh", "status", "stats",
        "cooldown", "cas", "record"}
Request == [pc : PCs, who : Contributors \cup {NoOne}, cam : Cameras \cup {NoOne},
            type : Actions, now : Nat, weight : Weights, trusted : BOOLEAN,
            from : Statuses, rule : 1..6, counted : Table]

Locals(pc, c, cam, t, now) ==
    [pc |-> pc, who |-> c, cam |-> cam, type |-> t, now |-> now, weight |-> 1,
     trusted |-> FALSE, from |-> "active", rule |-> 1, counted |-> NoVotes]

\* A slot without a request.
Idle == Locals("idle", NoOne, NoOne, "like", 0)

TypeOK ==
    /\ status \in [Cameras -> Statuses]
    /\ owner \in [Cameras -> Contributors \cup {NoOne}]
    /\ lastVerified \in [Cameras -> Nat]
    /\ rows \in [Cameras -> Table]
    /\ nextId \in Nat
    /\ timeline \in [Cameras -> Seq(Event)]
    /\ req \in [Requests -> Request]
    /\ \A r \in Requests : req[r].pc # "idle" => req[r].who # NoOne /\ req[r].cam \in Cameras
    /\ erased \subseteq Contributors
    /\ clock \in Nat
    /\ started \in Nat
    /\ cast \in [Cameras -> SUBSET (Contributors \X Actions)]

Init ==
    /\ status = InitialStatus
    /\ owner = InitialOwner
    /\ lastVerified = [cam \in Cameras |-> 0]
    /\ rows = [cam \in Cameras |-> NoVotes]
    /\ nextId = 0
    /\ timeline = [cam \in Cameras |-> <<>>]
    /\ req = [r \in Requests |-> Idle]
    /\ erased = {}
    /\ clock = 0
    /\ started = 0
    /\ cast = [cam \in Cameras |-> {}]

At(r, pc) == req[r].pc = pc
Goto(r, pc) == req' = [req EXCEPT ![r].pc = pc]
Finish(r) == req' = [req EXCEPT ![r] = Idle]

SelfAction(c, cam, t) == owner[cam] = c /\ t \in {"like", "confirm"}

AccountExists(c) == c \notin erased

\* setCommunityAction up to the camera lookup: the record exists, is not a demo,
\* and is not liked or confirmed by the contributor who reported it.
Begin(r, c, cam, t) ==
    /\ At(r, "idle") /\ started < MaxRequests
    /\ c \notin erased
    /\ status[cam] # "demo"
    /\ ~SelfAction(c, cam, t)
    /\ req' = [req EXCEPT ![r] = Locals("count", c, cam, t, clock)]
    /\ started' = started + 1
    /\ UNCHANGED <<status, owner, lastVerified, rows, nextId, timeline, erased, clock, cast>>

\* The weight and the daily limit are derived from the caller's active records.
CountContributions(r) ==
    /\ At(r, "count")
    /\ LET n == ActiveContributions(req[r].who) IN
         req' = [req EXCEPT ![r].pc = "write", ![r].weight = Weight(n), ![r].trusted = n >= 1]
    /\ UNCHANGED <<status, owner, lastVerified, rows, nextId, timeline, erased,
                   clock, started, cast>>

AfterWrite(t) == IF t = "confirm" THEN "refresh" ELSE "status"

Standing(r) == rows[req[r].cam][req[r].who]

\* Store the request's vote; its row keeps the id and creation time it had.
Store(r, id, created) ==
    /\ rows' = [rows EXCEPT ![req[r].cam][req[r].who] =
                  [id |-> id, type |-> req[r].type, weight |-> req[r].weight,
                   created |-> created, updated |-> req[r].now]]
    /\ cast' = [cast EXCEPT ![req[r].cam] = @ \cup {<<req[r].who, req[r].type>>}]
    /\ Goto(r, AfterWrite(req[r].type))

\* INSERT ... SELECT ... WHERE <quotas> ON CONFLICT DO NOTHING, and its three
\* classifying probes, in one batch.  An erased account fails its foreign key.
InsertAction(r) ==
    /\ At(r, "write")
    /\ Standing(r) = NoRow
    /\ AccountExists(req[r].who)
    /\ UnderDailyLimit(req[r].who, req[r].now, req[r].trusted)
    /\ UnderRecordCap(req[r].cam, req[r].type, req[r].now)
    /\ Store(r, nextId, req[r].now)
    /\ nextId' = nextId + 1
    /\ UNCHANGED <<status, owner, lastVerified, timeline, erased, clock, started>>

FoundOtherAction(r) ==
    /\ At(r, "write")
    /\ Standing(r) # NoRow /\ Standing(r).type # req[r].type
    /\ Goto(r, "switch")
    /\ UNCHANGED <<status, owner, lastVerified, rows, nextId, timeline, erased,
                   clock, started, cast>>

RefuseInsert(r) ==
    /\ At(r, "write")
    /\ IF Standing(r) # NoRow
         THEN Standing(r).type = req[r].type
         ELSE \/ ~AccountExists(req[r].who)
              \/ ~UnderDailyLimit(req[r].who, req[r].now, req[r].trusted)
              \/ ~UnderRecordCap(req[r].cam, req[r].type, req[r].now)
    /\ Finish(r)
    /\ UNCHANGED <<status, owner, lastVerified, rows, nextId, timeline, erased,
                   clock, started, cast>>

SwitchFits(r) == UnderRecordCap(req[r].cam, req[r].type, req[r].now)

\* The guarded UPDATE of the switch branch, and its refusal when no row matched.
SwitchAction(r) ==
    /\ At(r, "switch")
    /\ Standing(r) # NoRow
    /\ SwitchFits(r)
    /\ Store(r, Standing(r).id, Standing(r).created)
    /\ UNCHANGED <<status, owner, lastVerified, nextId, timeline, erased, clock, started>>

RefuseSwitch(r) ==
    /\ At(r, "switch")
    /\ Standing(r) = NoRow \/ ~SwitchFits(r)
    /\ Finish(r)
    /\ UNCHANGED <<status, owner, lastVerified, rows, nextId, timeline, erased,
                   clock, started, cast>>

RefreshVerified(r) ==
    /\ At(r, "refresh")
    /\ lastVerified' = [lastVerified EXCEPT ![req[r].cam] = req[r].now]
    /\ Goto(r, "status")
    /\ UNCHANGED <<status, owner, rows, nextId, timeline, erased, clock, started, cast>>
-----------------------------------------------------------------------------
(* evaluateCommunityThresholds.                                            *)

ReadStatus(r) ==
    /\ At(r, "status")
    /\ req' = [req EXCEPT ![r].pc = "stats", ![r].from = status[req[r].cam]]
    /\ UNCHANGED <<status, owner, lastVerified, rows, nextId, timeline, erased,
                   clock, started, cast>>

\* cameraActionStats, and the candidate transition computed from it.
ReadStats(r) ==
    /\ At(r, "stats")
    /\ \/ \E i \in FirstMet(req[r].from, rows[req[r].cam]) :
            req' = [req EXCEPT ![r].pc = IF Rules[i].from = "hidden" /\ Rules[i].to = "active"
                                           THEN "cooldown" ELSE "cas",
                               ![r].rule = i,
                               ![r].counted = OnlyVotes(rows[req[r].cam], Rules[i].trigger)]
       \/ FirstMet(req[r].from, rows[req[r].cam]) = {} /\ Finish(r)
    /\ UNCHANGED <<status, owner, lastVerified, rows, nextId, timeline, erased,
                   clock, started, cast>>

\* The restore of a hidden record looks up the last hidden event.
CheckCooldown(r) ==
    /\ At(r, "cooldown")
    /\ IF CoolingDown(req[r].cam, req[r].now) THEN Finish(r) ELSE Goto(r, "cas")
    /\ UNCHANGED <<status, owner, lastVerified, rows, nextId, timeline, erased,
                   clock, started, cast>>

\* Mutant of StatusAsRead: the UPDATE is not conditional.
AnyStatus(r) == TRUE
StatusAsRead(r) == status[req[r].cam] = req[r].from

\* UPDATE cameras SET status = ? WHERE id = ? AND status = <status read>
CompareAndSwap(r) ==
    /\ At(r, "cas")
    /\ StatusAsRead(r)
    /\ status' = [status EXCEPT ![req[r].cam] = Rules[req[r].rule].to]
    /\ Goto(r, "record")
    /\ UNCHANGED <<owner, lastVerified, rows, nextId, timeline, erased, clock, started, cast>>

LoseSwap(r) ==
    /\ At(r, "cas")
    /\ ~StatusAsRead(r)
    /\ Finish(r)
    /\ UNCHANGED <<status, owner, lastVerified, rows, nextId, timeline, erased,
                   clock, started, cast>>

\* The winner's batch: events, and every vote of the triggering type deleted.
RecordTransition(r) ==
    /\ At(r, "record")
    /\ timeline' = [timeline EXCEPT ![req[r].cam] =
                      Append(@, [rule |-> req[r].rule, counted |-> req[r].counted,
                                 at |-> req[r].now])]
    /\ rows' = [rows EXCEPT ![req[r].cam] = WithoutVotes(@, Rules[req[r].rule].trigger)]
    /\ Finish(r)
    /\ UNCHANGED <<status, owner, lastVerified, nextId, erased, clock, started, cast>>
-----------------------------------------------------------------------------
(* Requests that are one batch, failures, time.                            *)

\* removeCommunityAction: one DELETE, and no evaluation.
Withdraw(r, c, cam) ==
    /\ At(r, "idle") /\ started < MaxRequests
    /\ rows[cam][c] # NoRow
    /\ rows' = [rows EXCEPT ![cam][c] = NoRow]
    /\ started' = started + 1
    /\ UNCHANGED <<status, owner, lastVerified, nextId, timeline, req, erased, clock, cast>>

\* eraseContributor: the parts of its batch this model knows.
EraseContributor(r, c) ==
    /\ At(r, "idle") /\ started < MaxRequests
    /\ c \notin erased
    /\ rows' = [cam \in Cameras |-> [rows[cam] EXCEPT ![c] = NoRow]]
    /\ owner' = [cam \in Cameras |-> IF owner[cam] = c THEN NoOne ELSE owner[cam]]
    /\ erased' = erased \cup {c}
    /\ started' = started + 1
    /\ UNCHANGED <<status, lastVerified, nextId, timeline, req, clock, cast>>

\* The next database call of the request throws, or its isolate is evicted:
\* what was committed stays, the rest of the handler does not run.
FailRequest(r) ==
    /\ ~At(r, "idle")
    /\ Finish(r)
    /\ UNCHANGED <<status, owner, lastVerified, rows, nextId, timeline, erased,
                   clock, started, cast>>

Tick ==
    /\ clock < MaxClock
    /\ clock' = clock + 1
    /\ UNCHANGED <<status, owner, lastVerified, rows, nextId, timeline, req, erased,
                   started, cast>>

Step(r) ==
    \/ CountContributions(r)
    \/ InsertAction(r) \/ FoundOtherAction(r) \/ RefuseInsert(r)
    \/ SwitchAction(r) \/ RefuseSwitch(r)
    \/ RefreshVerified(r)
    \/ ReadStatus(r) \/ ReadStats(r) \/ CheckCooldown(r)
    \/ CompareAndSwap(r) \/ LoseSwap(r) \/ RecordTransition(r)

\* Requests whose calls can fail.
Unreliable == IF CallsCanFail THEN Requests ELSE {}

Next ==
    \/ \E r \in Requests :
         \/ \E c \in Contributors, cam \in Cameras, t \in Offered : Begin(r, c, cam, t)
         \/ Step(r)
         \/ \E c \in Contributors, cam \in Cameras : Withdraw(r, c, cam)
         \/ \E c \in Contributors : EraseContributor(r, c)
    \/ \E r \in Unreliable : FailRequest(r)
    \/ Tick

Spec == Init /\ [][Next]_vars

\* A request that was begun is driven to its end by the runtime.
FairSpec == Spec /\ \A r \in Requests : WF_vars(Step(r))
-----------------------------------------------------------------------------
(* What holds under every interleaving.                                    *)

Ever(cam, t) == {c \in Contributors : <<c, t>> \in cast[cam]}

\* "A single powerful account can never remove a record alone" (ADR 0021 4.1):
\* whatever the interleaving of evaluators, a removed or hidden record has been
\* flagged by as many distinct people as evaluateCommunityThresholds asks for.
StatusHasQuorum == \A cam \in Cameras :
    /\ status[cam] = "removed" => Cardinality(Ever(cam, "gone")) >= GoneMinDistinct
    /\ status[cam] = "hidden" =>
         \/ Cardinality(Ever(cam, "privacy")) >= PrivacyMin
         \/ Cardinality(Ever(cam, "problem")) >= ProblemMinDistinct

\* Why it does, in a form every step preserves: a standing vote was cast, and a
\* request on its way to change a status has counted enough votes that were.
Counted(table) == {c \in Contributors : table[c] # NoRow}
VotesWereCast == \A cam \in Cameras, c \in Contributors :
    rows[cam][c] # NoRow => <<c, rows[cam][c].type>> \in cast[cam]
CandidatesHaveQuorum == \A r \in Requests :
    req[r].pc \in {"cooldown", "cas", "record"} =>
      /\ Counted(req[r].counted) \subseteq Ever(req[r].cam, Rules[req[r].rule].trigger)
      /\ Cardinality(Counted(req[r].counted)) >= Rules[req[r].rule].distinct
QuorumInv == VotesWereCast /\ CandidatesHaveQuorum /\ StatusHasQuorum

\* The compare-and-swap decides one winner per transition and only a winner
\* records: whatever order the winners' batches land in, the recorded and the
\* still unrecorded transitions of a record lead from its first status to its
\* current one, each status being entered as often as it is left.
Winners(cam) == {r \in Requests : At(r, "record") /\ req[r].cam = cam}
Into(cam, s) ==
    Cardinality({i \in DOMAIN timeline[cam] : Rules[timeline[cam][i].rule].to = s})
      + Cardinality({r \in Winners(cam) : Rules[req[r].rule].to = s})
OutOf(cam, s) ==
    Cardinality({i \in DOMAIN timeline[cam] : Rules[timeline[cam][i].rule].from = s})
      + Cardinality({r \in Winners(cam) : Rules[req[r].rule].from = s})
One(b) == IF b THEN 1 ELSE 0

AuditBalances == \A cam \in Cameras, s \in Statuses :
    One(InitialStatus[cam] = s) + Into(cam, s) = OutOf(cam, s) + One(status[cam] = s)

\* "privacy -> hidden: 1 action" (ADR 0021 4.3): a privacy vote that is about to
\* be evaluated gets the record out of the public view, or is withdrawn, whatever
\* the other evaluators of the record do meanwhile.
PrivacyTakesEffect == \A cam \in Cameras, r \in Requests :
    (At(r, "status") /\ req[r].cam = cam /\ req[r].type = "privacy")
      ~> (status[cam] # "active" \/ Distinct(rows[cam], "privacy") < PrivacyMin)
-----------------------------------------------------------------------------
(* What the documentation says and some interleaving, failure or order of  *)
(* calls refutes.                                                          *)

Quiet(cam) == \A r \in Requests : req[r].cam # cam

\* "the transition is a single atomic D1 write": once no request is under way the
\* last recorded transition leads to the record's status.
TimelineExplainsStatus == \A cam \in Cameras : Quiet(cam) =>
    status[cam] = IF timeline[cam] = <<>> THEN InitialStatus[cam]
                  ELSE Rules[timeline[cam][Len(timeline[cam])].rule].to

\* "privacy hides also require cooldown elapsed": a record withdrawn for privacy
\* stays out of the public view for the length of the cooldown.
PrivacyHides(cam) == {r \in Requests : At(r, "record") /\ req[r].cam = cam /\ req[r].rule = 1}
CooldownRespected == [][\A cam \in Cameras :
    status[cam] = "hidden" /\ status'[cam] = "active" =>
      /\ ~CoolingDown(cam, clock)
      /\ \A r \in PrivacyHides(cam) : clock - req[r].now >= PrivacyCooldown]_vars
-----------------------------------------------------------------------------
(* The handler implements RecordConsensus when requests do not overlap and  *)
(* no call fails.  A transition happens at the compare-and-swap; from then  *)
(* until its batch has run, the votes it consumes no longer count and its   *)
(* hidden event is taken from the request.                                  *)

Consuming(cam) == {Rules[req[r].rule].trigger : r \in Winners(cam)}

\* One vote of an abstract record, or NoRow.
VoteOf(cam, c) ==
    LET row == rows[cam][c] IN
    IF row = NoRow THEN NoRow
    ELSE IF row.type \in Consuming(cam) THEN NoRow
    ELSE [type |-> row.type, weight |-> row.weight]

\* When the record was last hidden for privacy, or -1.
WithdrawnAt(cam) ==
    LET hiding == {r \in Winners(cam) : Rules[req[r].rule].to = "hidden"}
        latest == {i \in DOMAIN timeline[cam] : IsLatestHidden(cam, i)}
        date(rule, at) == IF Rules[rule].trigger = "privacy" THEN at ELSE -1
    IN  IF hiding # {}
          THEN LET r == CHOOSE r \in hiding : TRUE IN date(req[r].rule, req[r].now)
        ELSE IF latest # {}
          THEN LET i == CHOOSE i \in latest : TRUE
               IN  date(timeline[cam][i].rule, timeline[cam][i].at)
        ELSE -1

Promise == INSTANCE RecordConsensus WITH
    NoVote <- NoRow, Start <- InitialStatus, Matrix <- Rules,
    Cooldown <- PrivacyCooldown, Never <- -1,
    votes <- [cam \in Cameras |-> [c \in Contributors |-> VoteOf(cam, c)]],
    withdrawnAt <- [cam \in Cameras |-> WithdrawnAt(cam)],
    now <- clock

\* One request at a time keeps every promise of ADR 0021 sections 2 and 4.
KeepsPromise == Promise!Spec
=============================================================================
