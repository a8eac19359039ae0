------------------------ MODULE CameraLifecycleProofs ------------------------
(***************************************************************************)
(* Proofs about CommunityActions, for any number of records, contributors   *)
(* and concurrent requests, any thresholds and any failures; about its      *)
(* composition with the reviewers of ReviewQueue, whose lemmas are used;    *)
(* about the quotas it shares with the toggle of ConfirmationAlias; and     *)
(* that it implements RecordConsensus when requests do not overlap.         *)
(***************************************************************************)
EXTENDS CameraLifecycle, ConfirmationAlias, FiniteSetTheorems, TLAPS

-----------------------------------------------------------------------------
(* Facts about the operators of the model.                                 *)

\* The six rules of evaluateCommunityThresholds are well-formed.
LEMMA RuleType ==
    ASSUME NEW i \in 1..6
    PROVE  /\ Rules[i].from \in Statuses
           /\ Rules[i].to \in {"active", "hidden", "removed"}
           /\ Rules[i].trigger \in Actions
<1>1. i = 1 \/ i = 2 \/ i = 3 \/ i = 4 \/ i = 5 \/ i = 6
  OBVIOUS
<1> QED
  BY <1>1 DEF Rules, Rule, PrivacyRule, Statuses, Actions

\* deriveLevel returns one of L0..L4, so the weight is one of the five.
LEMMA WeightType ==
    ASSUME NEW n \in Nat
    PROVE  Weight(n) \in Weights
<1> DEFINE reached == {k \in 1..4 : n >= LevelThreshold[k]}
<1>1. IsFiniteSet(1..4) /\ Cardinality(1..4) = 4
  <2>1. 1 \in Int /\ 4 \in Int /\ ~(1 > 4) /\ 4 - 1 + 1 = 4
    OBVIOUS
  <2> QED
    BY <2>1, FS_Interval, Zenon
<1>2. reached \subseteq 1..4
  OBVIOUS
<1>3. IsFiniteSet(reached) /\ Cardinality(reached) <= 4
  BY <1>1, <1>2, FS_Subset
<1>4. Cardinality(reached) \in Nat
  BY <1>3, FS_CardinalityType
<1>5. DeriveLevel(n) \in 0..4
  BY <1>3, <1>4 DEF DeriveLevel
<1> QED
  BY <1>5 DEF Weight, WeightByLevel, Weights

LEMMA ActiveContributionsType ==
    ASSUME NEW c \in Contributors
    PROVE  ActiveContributions(c) \in Nat
<1> DEFINE mine == {cam \in Cameras : owner[cam] = c /\ status[cam] = "active"}
<1>1. IsFiniteSet(mine)
  BY RecordsAssumption, FS_Subset
<1>2. Cardinality(mine) \in Nat
  BY <1>1, FS_CardinalityType
<1> QED
  BY <1>2, RecordsAssumption DEF ActiveContributions

\* Consuming a type of votes, or keeping only one, leaves a table.
LEMMA TableType ==
    ASSUME NEW table \in Table, NEW t \in Actions
    PROVE  OnlyVotes(table, t) \in Table /\ WithoutVotes(table, t) \in Table
BY DEF Table, OnlyVotes, WithoutVotes

LEMMA NoVotesType == NoVotes \in Table
BY DEF Table, NoVotes

LEMMA IdleType == Idle \in Request
BY NoVotesType DEF Idle, Locals, Request, PCs, Actions, Weights, Statuses
-----------------------------------------------------------------------------
(* Type correctness.                                                       *)

LEMMA TypeInit == Init => TypeOK
BY NoVotesType, IdleType, RecordsAssumption DEF Init, TypeOK, Idle, Locals, Statuses

\* The locals keep their types when a request moves on or ends.
LEMMA GotoType ==
    ASSUME TypeOK, NEW r \in Requests, NEW pc \in PCs \ {"idle"}, ~At(r, "idle"), Goto(r, pc)
    PROVE  /\ req' \in [Requests -> Request]
           /\ \A s \in Requests : req'[s].pc # "idle" => req'[s].who # NoOne /\ req'[s].cam \in Cameras
<1> DEFINE moved == [req[r] EXCEPT !.pc = pc]
<1>1. req[r] \in Request /\ req[r].who # NoOne /\ req[r].cam \in Cameras
  BY DEF TypeOK, At
<1>2. moved \in Request /\ moved.who = req[r].who /\ moved.cam = req[r].cam
  BY <1>1 DEF Request
<1>3. req' = [req EXCEPT ![r] = moved]
  BY DEF Goto
<1> HIDE DEF moved
<1> QED
  BY <1>1, <1>2, <1>3 DEF TypeOK

LEMMA FinishType ==
    ASSUME TypeOK, NEW r \in Requests, Finish(r)
    PROVE  /\ req' \in [Requests -> Request]
           /\ \A s \in Requests : req'[s].pc # "idle" => req'[s].who # NoOne /\ req'[s].cam \in Cameras
BY IdleType DEF TypeOK, Finish, Idle, Locals

\* Storing the vote of a request, by insertion or by switching.
LEMMA StoreType ==
    ASSUME TypeOK, NEW r \in Requests, ~At(r, "idle"), NEW id \in Nat, NEW created \in Nat,
           Store(r, id, created)
    PROVE  /\ rows' \in [Cameras -> Table]
           /\ cast' \in [Cameras -> SUBSET (Contributors \X Actions)]
           /\ req' \in [Requests -> Request]
           /\ \A s \in Requests : req'[s].pc # "idle" => req'[s].who # NoOne /\ req'[s].cam \in Cameras
<1>1. req[r] \in Request /\ req[r].who \in Contributors /\ req[r].cam \in Cameras
  BY DEF TypeOK, At, Request
<1> DEFINE row == [id |-> id, type |-> req[r].type, weight |-> req[r].weight,
                   created |-> created, updated |-> req[r].now]
<1>2. row \in Row
  BY <1>1 DEF Row, Request
<1>3. rows' = [rows EXCEPT ![req[r].cam][req[r].who] = row]
  BY DEF Store
<1>4. rows' \in [Cameras -> Table]
  <2>1. rows[req[r].cam] \in Table
    BY <1>1 DEF TypeOK
  <2>2. [rows[req[r].cam] EXCEPT ![req[r].who] = row] \in Table
    BY <1>2, <2>1 DEF Table
  <2> QED
    BY <1>1, <1>3, <2>2 DEF TypeOK
<1>5. cast' \in [Cameras -> SUBSET (Contributors \X Actions)]
  BY <1>1 DEF Store, TypeOK, Request
<1>6. AfterWrite(req[r].type) \in PCs \ {"idle"}
  BY DEF AfterWrite, PCs
<1> QED
  BY <1>4, <1>5, <1>6, GotoType DEF Store

LEMMA TypeNext == TypeOK /\ [Next]_vars => TypeOK'
<1> SUFFICES ASSUME TypeOK, [Next]_vars PROVE TypeOK'
  OBVIOUS
<1>1. CASE UNCHANGED vars
  BY <1>1 DEF vars, TypeOK
<1>2. ASSUME NEW r \in Requests, NEW c \in Contributors, NEW cam \in Cameras, NEW t \in Offered,
             Begin(r, c, cam, t)
      PROVE  TypeOK'
  <2> DEFINE begun == Locals("count", c, cam, t, clock)
  <2>1. t \in Actions
    BY BoundsAssumption
  <2>2. begun \in Request
    BY <2>1, NoVotesType DEF Locals, Request, PCs, Weights, Statuses, TypeOK
  <2>3. begun.who # NoOne /\ begun.cam \in Cameras
    BY ContributorsAssumption DEF Locals
  <2>4. req' = [req EXCEPT ![r] = begun]
    BY <1>2 DEF Begin
  <2>5. /\ req' \in [Requests -> Request]
        /\ \A s \in Requests : req'[s].pc # "idle" => req'[s].who # NoOne /\ req'[s].cam \in Cameras
    <3> HIDE DEF begun
    <3> QED
      BY <2>2, <2>3, <2>4 DEF TypeOK
  <2> QED
    BY <1>2, <2>5 DEF Begin, TypeOK
<1>3. ASSUME NEW r \in Requests, CountContributions(r) PROVE TypeOK'
  <2>1. req[r] \in Request /\ req[r].who \in Contributors
    BY <1>3 DEF CountContributions, TypeOK, At, Request
  <2> DEFINE n == ActiveContributions(req[r].who)
  <2>2. Weight(n) \in Weights /\ (n >= 1) \in BOOLEAN
    BY <2>1, ActiveContributionsType, WeightType
  <2>3. /\ req' = [req EXCEPT ![r].pc = "write", ![r].weight = Weight(n), ![r].trusted = (n >= 1)]
        /\ req[r].pc # "idle"
    BY <1>3 DEF CountContributions, At
  <2>4. /\ req' \in [Requests -> Request]
        /\ \A s \in Requests : req'[s].pc # "idle" => req'[s].who # NoOne /\ req'[s].cam \in Cameras
    <3> HIDE DEF n
    <3> QED
      BY <2>1, <2>2, <2>3 DEF TypeOK, Request, PCs
  <2> QED
    BY <1>3, <2>4 DEF CountContributions, TypeOK
<1>4. ASSUME NEW r \in Requests, InsertAction(r) PROVE TypeOK'
  <2>1. ~At(r, "idle") /\ nextId \in Nat /\ req[r].now \in Nat
    BY <1>4 DEF InsertAction, At, TypeOK, Request
  <2>2. Store(r, nextId, req[r].now)
    BY <1>4 DEF InsertAction
  <2> QED
    BY <1>4, <2>1, <2>2, StoreType DEF InsertAction, TypeOK
<1>5. ASSUME NEW r \in Requests, SwitchAction(r) PROVE TypeOK'
  <2>1. ~At(r, "idle") /\ req[r].who \in Contributors /\ req[r].cam \in Cameras
    BY <1>5 DEF SwitchAction, At, TypeOK, Request
  <2>2. Standing(r) \in Row
    BY <1>5, <2>1 DEF SwitchAction, Standing, TypeOK, Table
  <2>3. Standing(r).id \in Nat /\ Standing(r).created \in Nat
    BY <2>2 DEF Row
  <2>4. Store(r, Standing(r).id, Standing(r).created)
    BY <1>5 DEF SwitchAction
  <2> QED
    BY <1>5, <2>1, <2>3, <2>4, StoreType DEF SwitchAction, TypeOK
<1>6. ASSUME NEW r \in Requests,
             FoundOtherAction(r) \/ RefuseInsert(r) \/ RefuseSwitch(r) \/ LoseSwap(r)
               \/ CheckCooldown(r) \/ FailRequest(r)
      PROVE  TypeOK'
  <2>1. Finish(r) \/ (~At(r, "idle") /\ \E pc \in PCs \ {"idle"} : Goto(r, pc))
    BY <1>6 DEF FoundOtherAction, RefuseInsert, RefuseSwitch, LoseSwap, CheckCooldown, FailRequest,
                PCs, At
  <2>2. /\ req' \in [Requests -> Request]
        /\ \A s \in Requests : req'[s].pc # "idle" => req'[s].who # NoOne /\ req'[s].cam \in Cameras
    BY <2>1, FinishType, GotoType
  <2> QED
    BY <1>6, <2>2 DEF TypeOK, FoundOtherAction, RefuseInsert, RefuseSwitch, LoseSwap, CheckCooldown,
                      FailRequest
<1>7. ASSUME NEW r \in Requests, RefreshVerified(r) PROVE TypeOK'
  <2>1. ~At(r, "idle") /\ "status" \in PCs \ {"idle"} /\ req[r].now \in Nat
    BY <1>7 DEF RefreshVerified, At, PCs, TypeOK, Request
  <2>2. Goto(r, "status")
    BY <1>7 DEF RefreshVerified
  <2> QED
    BY <1>7, <2>1, <2>2, GotoType DEF RefreshVerified, TypeOK
<1>8. ASSUME NEW r \in Requests, ReadStatus(r) PROVE TypeOK'
  <2>1. /\ req[r] \in Request /\ req[r].cam \in Cameras /\ status[req[r].cam] \in Statuses
        /\ req[r].pc # "idle"
    BY <1>8 DEF ReadStatus, At, TypeOK
  <2> QED
    BY <1>8, <2>1 DEF ReadStatus, TypeOK, Request, PCs
<1>9. ASSUME NEW r \in Requests, ReadStats(r) PROVE TypeOK'
  <2>1. /\ req[r] \in Request /\ req[r].cam \in Cameras /\ rows[req[r].cam] \in Table
        /\ req[r].pc # "idle"
    BY <1>9 DEF ReadStats, At, TypeOK
  <2>2. CASE Finish(r)
    BY <1>9, <2>2, FinishType DEF ReadStats, TypeOK
  <2>3. CASE ~Finish(r)
    <3>1. PICK i \in 1..6 :
            req' = [req EXCEPT ![r].pc = IF Rules[i].from = "hidden" /\ Rules[i].to = "active"
                                           THEN "cooldown" ELSE "cas",
                               ![r].rule = i,
                               ![r].counted = OnlyVotes(rows[req[r].cam], Rules[i].trigger)]
      BY <1>9, <2>3 DEF ReadStats, FirstMet
    <3>2. OnlyVotes(rows[req[r].cam], Rules[i].trigger) \in Table
      BY <2>1, RuleType, TableType
    <3>3. /\ req' \in [Requests -> Request]
          /\ \A s \in Requests : req'[s].pc # "idle" => req'[s].who # NoOne /\ req'[s].cam \in Cameras
      BY <2>1, <3>1, <3>2 DEF TypeOK, Request, PCs
    <3> QED
      BY <1>9, <3>3 DEF ReadStats, TypeOK
  <2> QED
    BY <2>2, <2>3
<1>10. ASSUME NEW r \in Requests, CompareAndSwap(r) PROVE TypeOK'
  <2>1. ~At(r, "idle") /\ "record" \in PCs \ {"idle"} /\ req[r].rule \in 1..6
    BY <1>10 DEF CompareAndSwap, At, PCs, TypeOK, Request
  <2>2. Rules[req[r].rule].to \in Statuses
    BY <2>1, RuleType DEF Statuses
  <2>3. Goto(r, "record")
    BY <1>10 DEF CompareAndSwap
  <2> QED
    BY <1>10, <2>1, <2>2, <2>3, GotoType DEF CompareAndSwap, TypeOK
<1>11. ASSUME NEW r \in Requests, RecordTransition(r) PROVE TypeOK'
  <2>1. /\ req[r] \in Request /\ req[r].cam \in Cameras /\ req[r].rule \in 1..6
        /\ rows[req[r].cam] \in Table
    BY <1>11 DEF RecordTransition, At, TypeOK, Request
  <2>2. WithoutVotes(rows[req[r].cam], Rules[req[r].rule].trigger) \in Table
    BY <2>1, RuleType, TableType
  <2>3. rows' \in [Cameras -> Table]
    BY <1>11, <2>2 DEF RecordTransition, TypeOK
  <2> DEFINE event == [rule |-> req[r].rule, counted |-> req[r].counted, at |-> req[r].now]
  <2>4. event \in Event
    BY <2>1 DEF Event, Request
  <2>5. timeline' = [timeline EXCEPT ![req[r].cam] = Append(@, event)]
    BY <1>11 DEF RecordTransition
  <2>6. timeline' \in [Cameras -> Seq(Event)]
    <3> HIDE DEF event
    <3>1. Append(timeline[req[r].cam], event) \in Seq(Event)
      BY <2>1, <2>4 DEF TypeOK
    <3> QED
      BY <2>5, <3>1 DEF TypeOK
  <2>7. Finish(r)
    BY <1>11 DEF RecordTransition
  <2> QED
    BY <1>11, <2>3, <2>6, <2>7, FinishType DEF RecordTransition, TypeOK
<1>12. ASSUME NEW r \in Requests, NEW c \in Contributors, NEW cam \in Cameras, Withdraw(r, c, cam)
       PROVE  TypeOK'
  <2>1. [rows[cam] EXCEPT ![c] = NoRow] \in Table
    BY DEF TypeOK, Table
  <2>2. rows' = [rows EXCEPT ![cam] = [rows[cam] EXCEPT ![c] = NoRow]]
    BY <1>12 DEF Withdraw
  <2>3. rows' \in [Cameras -> Table]
    BY <2>1, <2>2 DEF TypeOK
  <2> QED
    BY <1>12, <2>3 DEF Withdraw, TypeOK
<1>13. ASSUME NEW r \in Requests, NEW c \in Contributors, EraseContributor(r, c) PROVE TypeOK'
  <2>1. \A cam \in Cameras : [rows[cam] EXCEPT ![c] = NoRow] \in Table
    BY DEF TypeOK, Table
  <2>2. rows' \in [Cameras -> Table]
    BY <1>13, <2>1 DEF EraseContributor
  <2>3. owner' \in [Cameras -> Contributors \cup {NoOne}]
    BY <1>13 DEF EraseContributor, TypeOK
  <2> QED
    BY <1>13, <2>2, <2>3 DEF EraseContributor, TypeOK
<1>14. ASSUME Tick PROVE TypeOK'
  BY <1>14 DEF Tick, TypeOK
<1> QED
  BY <1>1, <1>2, <1>3, <1>4, <1>5, <1>6, <1>7, <1>8, <1>9, <1>10, <1>11, <1>12, <1>13, <1>14
  DEF Next, Unreliable, Step

\* Every variable keeps its type, whatever the settings and however many requests
\* run together.
THEOREM TypeCorrect == Spec => []TypeOK
<1>1. Init => TypeOK
  BY TypeInit
<1>2. TypeOK /\ [Next]_vars => TypeOK'
  BY TypeNext
<1> QED
  BY <1>1, <1>2, PTL DEF Spec
-----------------------------------------------------------------------------
(* No removal and no hiding without a quorum.                              *)

\* Which votes the rules that withdraw a record ask for.
LEMMA RuleQuorum ==
    ASSUME NEW i \in 1..6
    PROVE  /\ Rules[i].distinct \in Nat
           /\ Rules[i].to = "removed" =>
                Rules[i].trigger = "gone" /\ Rules[i].distinct = GoneMinDistinct
           /\ Rules[i].to = "hidden" =>
                \/ Rules[i].trigger = "privacy" /\ Rules[i].distinct = PrivacyMin
                \/ Rules[i].trigger = "problem" /\ Rules[i].distinct = ProblemMinDistinct
<1>1. i = 1 \/ i = 2 \/ i = 3 \/ i = 4 \/ i = 5 \/ i = 6
  OBVIOUS
<1> QED
  BY <1>1, SettingsAssumption DEF Rules, Rule, PrivacyRule

\* Sets of contributors are finite, so their sizes compare as the sets do.
LEMMA ContributorCount ==
    ASSUME NEW S \in SUBSET Contributors, NEW T \in SUBSET S
    PROVE  /\ Cardinality(S) \in Nat /\ Cardinality(T) \in Nat
           /\ Cardinality(T) <= Cardinality(S)
<1>1. IsFiniteSet(S)
  BY ContributorsAssumption, FS_Subset
<1>2. IsFiniteSet(T) /\ Cardinality(T) <= Cardinality(S)
  BY <1>1, FS_Subset
<1> QED
  BY <1>1, <1>2, FS_CardinalityType

\* The history only grows.
LEMMA CastGrows ==
    ASSUME TypeOK, [Next]_vars
    PROVE  \A cam \in Cameras : cast[cam] \subseteq cast'[cam]
<1>1. CASE cast' = cast
  BY <1>1
<1>2. ASSUME NEW r \in Requests, InsertAction(r) \/ SwitchAction(r)
      PROVE  \A cam \in Cameras : cast[cam] \subseteq cast'[cam]
  <2>1. cast' = [cast EXCEPT ![req[r].cam] = @ \cup {<<req[r].who, req[r].type>>}]
    BY <1>2 DEF InsertAction, SwitchAction, Store
  <2> QED
    BY <2>1 DEF TypeOK
<1>3. CASE UNCHANGED vars
  BY <1>3 DEF vars
<1>4. ASSUME Next, cast' # cast
      PROVE  \E r \in Requests : InsertAction(r) \/ SwitchAction(r)
  BY <1>4 DEF Next, Unreliable, Step, Begin, CountContributions, FoundOtherAction, RefuseInsert, RefuseSwitch,
      RefreshVerified, ReadStatus, ReadStats, CheckCooldown, CompareAndSwap, LoseSwap,
      RecordTransition, Withdraw, EraseContributor, FailRequest, Tick
<1> QED
  BY <1>1, <1>2, <1>3, <1>4

\* Ever after the step, for a record and a type named before it.
EverNext(cam, t) == {c \in Contributors : <<c, t>> \in cast'[cam]}

\* Once a quorum has cast its votes, it has cast them for good.
LEMMA EverGrows ==
    ASSUME TypeOK, [Next]_vars, NEW cam \in Cameras, NEW t \in Actions
    PROVE  /\ Ever(cam, t) \subseteq EverNext(cam, t)
           /\ Cardinality(Ever(cam, t)) \in Nat /\ Cardinality(EverNext(cam, t)) \in Nat
           /\ Cardinality(Ever(cam, t)) <= Cardinality(EverNext(cam, t))
<1>1. Ever(cam, t) \subseteq EverNext(cam, t) /\ EverNext(cam, t) \subseteq Contributors
  BY CastGrows DEF Ever, EverNext
<1> QED
  BY <1>1, ContributorCount

\* What a request kept from its read of the votes is what it read.
LEMMA CountedOnlyVotes ==
    ASSUME NEW table \in Table, NEW t \in Actions
    PROVE  Counted(OnlyVotes(table, t)) = Voters(table, t)
BY DEF Counted, OnlyVotes, Voters

\* Only the compare-and-swap changes a status.
LEMMA StatusChange ==
    ASSUME Next, status' # status
    PROVE  \E r \in Requests : CompareAndSwap(r)
BY DEF Next, Unreliable, Step, Begin, CountContributions, InsertAction, FoundOtherAction, RefuseInsert,
       SwitchAction, RefuseSwitch, RefreshVerified, ReadStatus, ReadStats, CheckCooldown, LoseSwap,
       RecordTransition, Withdraw, EraseContributor, FailRequest, Tick

LEMMA VotesWereCastNext ==
    ASSUME TypeOK, VotesWereCast, [Next]_vars
    PROVE  VotesWereCast'
<1> SUFFICES ASSUME NEW cam \in Cameras, NEW c \in Contributors, rows'[cam][c] # NoRow
             PROVE  <<c, rows'[cam][c].type>> \in cast'[cam]
  BY DEF VotesWereCast
<1>1. CASE rows'[cam][c] = rows[cam][c]
  BY <1>1, CastGrows DEF VotesWereCast
<1>2. ASSUME NEW r \in Requests, InsertAction(r) \/ SwitchAction(r)
      PROVE  <<c, rows'[cam][c].type>> \in cast'[cam]
  <2>1. req[r].who \in Contributors /\ req[r].cam \in Cameras /\ rows[req[r].cam] \in Table
    BY <1>2 DEF InsertAction, SwitchAction, At, TypeOK, Request
  <2>2. PICK id, created : Store(r, id, created)
    BY <1>2 DEF InsertAction, SwitchAction
  <2>3. CASE cam = req[r].cam /\ c = req[r].who
    <3>1. rows'[cam][c].type = req[r].type
      BY <2>1, <2>2, <2>3 DEF Store, TypeOK, Table
    <3> QED
      BY <2>1, <2>2, <2>3, <3>1 DEF Store, TypeOK
  <2>4. CASE ~(cam = req[r].cam /\ c = req[r].who)
    <3>1. rows'[cam][c] = rows[cam][c]
      BY <2>1, <2>2, <2>4 DEF Store, TypeOK, Table
    <3> QED
      BY <1>1, <3>1
  <2> QED
    BY <2>3, <2>4
<1>3. ASSUME NEW r \in Requests, RecordTransition(r)
      PROVE  rows'[cam][c] = rows[cam][c]
  <2>1. req[r].cam \in Cameras /\ rows[cam] \in Table
    BY <1>3 DEF RecordTransition, At, TypeOK
  <2>2. CASE cam = req[r].cam
    <3>1. rows'[cam] = WithoutVotes(rows[cam], Rules[req[r].rule].trigger)
      BY <1>3, <2>1, <2>2 DEF RecordTransition, TypeOK
    <3> QED
      BY <3>1 DEF WithoutVotes
  <2>3. CASE cam # req[r].cam
    BY <1>3, <2>3 DEF RecordTransition, TypeOK
  <2> QED
    BY <2>2, <2>3
<1>4. ASSUME NEW r \in Requests, NEW d \in Contributors, NEW k \in Cameras, Withdraw(r, d, k)
      PROVE  rows'[cam][c] = rows[cam][c]
  BY <1>4 DEF Withdraw, TypeOK, Table
<1>5. ASSUME NEW r \in Requests, NEW d \in Contributors, EraseContributor(r, d)
      PROVE  rows'[cam][c] = rows[cam][c]
  BY <1>5 DEF EraseContributor, TypeOK, Table
<1>6. CASE UNCHANGED vars
  BY <1>1, <1>6 DEF vars
<1>7. ASSUME Next, rows' # rows
      PROVE  \/ \E r \in Requests : InsertAction(r) \/ SwitchAction(r) \/ RecordTransition(r)
             \/ \E r \in Requests, d \in Contributors, k \in Cameras : Withdraw(r, d, k)
             \/ \E r \in Requests, d \in Contributors : EraseContributor(r, d)
  BY <1>7 DEF Next, Unreliable, Step, Begin, CountContributions, FoundOtherAction, RefuseInsert, RefuseSwitch,
      RefreshVerified, ReadStatus, ReadStats, CheckCooldown, CompareAndSwap, LoseSwap, FailRequest,
      Tick
<1> QED
  BY <1>1, <1>2, <1>3, <1>4, <1>5, <1>6, <1>7

LEMMA CandidatesHaveQuorumNext ==
    ASSUME TypeOK, VotesWereCast, CandidatesHaveQuorum, [Next]_vars
    PROVE  CandidatesHaveQuorum'
<1> DEFINE Carries(s) ==
      /\ Counted(req'[s].counted) \subseteq EverNext(req'[s].cam, Rules[req'[s].rule].trigger)
      /\ Cardinality(Counted(req'[s].counted)) >= Rules[req'[s].rule].distinct
<1> SUFFICES ASSUME NEW s \in Requests, req'[s].pc \in {"cooldown", "cas", "record"}
             PROVE  Carries(s)
  BY DEF CandidatesHaveQuorum, Counted, Ever, EverNext
<1>1. CASE /\ req[s].pc \in {"cooldown", "cas", "record"}
           /\ req'[s].counted = req[s].counted /\ req'[s].cam = req[s].cam
           /\ req'[s].rule = req[s].rule
  <2>1. req[s].cam \in Cameras /\ req[s].rule \in 1..6
    BY <1>1 DEF TypeOK, Request
  <2>2. Ever(req[s].cam, Rules[req[s].rule].trigger)
          \subseteq EverNext(req[s].cam, Rules[req[s].rule].trigger)
    BY <2>1, RuleType, EverGrows
  <2> QED
    BY <1>1, <2>2 DEF CandidatesHaveQuorum
<1>2. CASE ReadStats(s)
  <2>1. /\ req[s] \in Request /\ req[s].cam \in Cameras /\ rows[req[s].cam] \in Table
        /\ req[s].pc # "idle"
    BY <1>2 DEF ReadStats, At, TypeOK
  <2>2. PICK i \in 1..6 :
          /\ Met(i, req[s].from, rows[req[s].cam])
          /\ req' = [req EXCEPT ![s].pc = IF Rules[i].from = "hidden" /\ Rules[i].to = "active"
                                            THEN "cooldown" ELSE "cas",
                                ![s].rule = i,
                                ![s].counted = OnlyVotes(rows[req[s].cam], Rules[i].trigger)]
    <3>1. ~Finish(s)
      BY DEF Finish, Idle, Locals, TypeOK
    <3> QED
      BY <1>2, <3>1 DEF ReadStats, FirstMet
  <2>3. /\ req'[s].rule = i /\ req'[s].cam = req[s].cam
        /\ req'[s].counted = OnlyVotes(rows[req[s].cam], Rules[i].trigger)
    BY <2>1, <2>2 DEF TypeOK, Request
  <2>4. Counted(req'[s].counted) = Voters(rows[req[s].cam], Rules[i].trigger)
    BY <2>1, <2>3, RuleType, CountedOnlyVotes
  <2>5. Cardinality(Counted(req'[s].counted)) >= Rules[i].distinct
    BY <2>2, <2>4 DEF Met, Distinct
  <2>6. Voters(rows[req[s].cam], Rules[i].trigger) \subseteq Ever(req[s].cam, Rules[i].trigger)
    BY <2>1 DEF Voters, Ever, VotesWereCast
  <2>7. Ever(req[s].cam, Rules[i].trigger) \subseteq EverNext(req[s].cam, Rules[i].trigger)
    BY <2>1, RuleType, EverGrows
  <2> QED
    BY <2>3, <2>4, <2>5, <2>6, <2>7
<1>3. ASSUME ~ReadStats(s)
      PROVE  /\ req[s].pc \in {"cooldown", "cas", "record"}
             /\ req'[s].counted = req[s].counted /\ req'[s].cam = req[s].cam
             /\ req'[s].rule = req[s].rule
  <2> DEFINE Kept == /\ req[s].pc \in {"cooldown", "cas", "record"}
                     /\ req'[s].counted = req[s].counted /\ req'[s].cam = req[s].cam
                     /\ req'[s].rule = req[s].rule
  <2>1. CASE UNCHANGED req
    BY <2>1
  <2>2. ASSUME NEW r \in Requests, NEW c \in Contributors, NEW cam \in Cameras, NEW t \in Offered,
               Begin(r, c, cam, t)
        PROVE  Kept
    BY <2>2 DEF Begin, Locals, TypeOK
  <2>3. ASSUME NEW r \in Requests, Finish(r)
        PROVE  Kept
    BY <2>3 DEF Finish, Idle, Locals, TypeOK
  <2>4. ASSUME NEW r \in Requests, NEW pc \in PCs, Goto(r, pc),
               pc \in {"cas", "record"} => req[r].pc \in {"cooldown", "cas"}, pc # "cooldown"
        PROVE  Kept
    BY <2>4 DEF Goto, TypeOK, Request
  <2>5. ASSUME NEW r \in Requests, CountContributions(r) \/ ReadStatus(r)
        PROVE  Kept
    <3>1. req[r] \in Request
      BY DEF TypeOK
    <3>2. req'[r].pc \in {"write", "stats"}
      BY <2>5, <3>1 DEF CountContributions, ReadStatus, TypeOK, Request
    <3>3. r # s /\ req'[s] = req[s]
      BY <2>5, <3>2 DEF CountContributions, ReadStatus, TypeOK
    <3> QED
      BY <3>3
  <2>6. ASSUME NEW r \in Requests, ReadStats(r)
        PROVE  Kept
    <3>1. r # s
      BY <1>3, <2>6
    <3> QED
      BY <2>6, <3>1 DEF ReadStats, Finish, TypeOK
  <2>7. ASSUME NEW r \in Requests,
               InsertAction(r) \/ SwitchAction(r) \/ FoundOtherAction(r) \/ RefreshVerified(r)
        PROVE  Kept
    <3>1. \E pc \in PCs \ {"cas", "record", "cooldown"} : Goto(r, pc)
      BY <2>7 DEF InsertAction, SwitchAction, FoundOtherAction, RefreshVerified, Store, AfterWrite, PCs
    <3> QED
      BY <2>4, <3>1
  <2>8. ASSUME NEW r \in Requests, CompareAndSwap(r) \/ CheckCooldown(r)
        PROVE  Kept
    <3>1. Finish(r) \/ (req[r].pc \in {"cooldown", "cas"} /\ \E pc \in {"cas", "record"} : Goto(r, pc))
      BY <2>8 DEF CompareAndSwap, CheckCooldown, At
    <3> QED
      BY <2>3, <2>4, <3>1 DEF PCs
  <2>9. ASSUME NEW r \in Requests,
               RefuseInsert(r) \/ RefuseSwitch(r) \/ LoseSwap(r) \/ RecordTransition(r) \/ FailRequest(r)
        PROVE  Kept
    <3>1. Finish(r)
      BY <2>9 DEF RefuseInsert, RefuseSwitch, LoseSwap, RecordTransition, FailRequest
    <3> QED
      BY <2>3, <3>1
  <2>10. CASE Tick \/ UNCHANGED vars
    BY <2>1, <2>10 DEF Tick, vars
  <2>11. ASSUME NEW r \in Requests, NEW c \in Contributors,
                EraseContributor(r, c) \/ \E cam \in Cameras : Withdraw(r, c, cam)
         PROVE  Kept
    BY <2>1, <2>11 DEF EraseContributor, Withdraw
  <2> QED
    BY <2>2, <2>5, <2>6, <2>7, <2>8, <2>9, <2>10, <2>11 DEF Next, Unreliable, Step
<1> QED
  BY <1>1, <1>2, <1>3

LEMMA StatusHasQuorumNext ==
    ASSUME TypeOK, CandidatesHaveQuorum, StatusHasQuorum, [Next]_vars
    PROVE  StatusHasQuorum'
<1> SUFFICES ASSUME NEW cam \in Cameras
             PROVE  /\ status'[cam] = "removed" => Cardinality(EverNext(cam, "gone")) >= GoneMinDistinct
                    /\ status'[cam] = "hidden" =>
                         \/ Cardinality(EverNext(cam, "privacy")) >= PrivacyMin
                         \/ Cardinality(EverNext(cam, "problem")) >= ProblemMinDistinct
  BY DEF StatusHasQuorum, Ever, EverNext
<1> DEFINE Size(t) == Cardinality(Ever(cam, t))
           NewSize(t) == Cardinality(EverNext(cam, t))
<1>1. \A t \in Actions : Size(t) \in Nat /\ NewSize(t) \in Nat /\ Size(t) <= NewSize(t)
  BY EverGrows
<1>2. {GoneMinDistinct, PrivacyMin, ProblemMinDistinct} \subseteq Nat
  BY SettingsAssumption
<1>3. CASE status'[cam] = status[cam]
  <2>1. /\ status[cam] = "removed" => Size("gone") >= GoneMinDistinct
        /\ status[cam] = "hidden" => Size("privacy") >= PrivacyMin \/ Size("problem") >= ProblemMinDistinct
    BY DEF StatusHasQuorum
  <2> HIDE DEF Size, NewSize
  <2>2. {"gone", "privacy", "problem"} \subseteq Actions
    BY DEF Actions
  <2>3. /\ status'[cam] = "removed" => NewSize("gone") >= GoneMinDistinct
        /\ status'[cam] = "hidden" =>
             NewSize("privacy") >= PrivacyMin \/ NewSize("problem") >= ProblemMinDistinct
    BY <1>1, <1>2, <1>3, <2>1, <2>2
  <2> QED
    BY <2>3 DEF NewSize
<1>4. CASE status'[cam] # status[cam]
  <2>1. PICK r \in Requests : CompareAndSwap(r)
    BY <1>4, StatusChange DEF vars
  <2>2. /\ req[r].cam \in Cameras /\ req[r].rule \in 1..6 /\ req[r].counted \in Table
        /\ req[r].pc = "cas"
    BY <2>1 DEF CompareAndSwap, At, TypeOK, Request
  <2>3. req[r].cam = cam /\ status'[cam] = Rules[req[r].rule].to
    BY <1>4, <2>1, <2>2 DEF CompareAndSwap, TypeOK
  <2> DEFINE t == Rules[req[r].rule].trigger
             voters == Counted(req[r].counted)
  <2>4. voters \subseteq Ever(cam, t) /\ Cardinality(voters) >= Rules[req[r].rule].distinct
    BY <2>2, <2>3 DEF CandidatesHaveQuorum
  <2>5. t \in Actions /\ Rules[req[r].rule].distinct \in Nat
    BY <2>2, RuleType, RuleQuorum
  <2>6. Ever(cam, t) \subseteq Contributors
    BY DEF Ever
  <2>7. Cardinality(voters) \in Nat /\ Cardinality(voters) <= Size(t)
    <3> HIDE DEF voters, t
    <3> QED
      BY <2>4, <2>6, ContributorCount
  <2>8. NewSize(t) >= Rules[req[r].rule].distinct
    <3> HIDE DEF voters, t, Size, NewSize
    <3> QED
      BY <1>1, <2>4, <2>5, <2>7
  <2> QED
    BY <2>2, <2>3, <2>8, RuleQuorum
<1> QED
  BY <1>3, <1>4

LEMMA QuorumInit == Init => QuorumInv
<1> SUFFICES ASSUME Init PROVE QuorumInv
  OBVIOUS
<1>1. VotesWereCast
  BY DEF Init, VotesWereCast, NoVotes
<1>2. CandidatesHaveQuorum
  BY DEF Init, CandidatesHaveQuorum, Idle, Locals
<1>3. StatusHasQuorum
  <2>1. \A cam \in Cameras : status[cam] \in {"active", "pending", "demo"}
    BY RecordsAssumption DEF Init
  <2> QED
    BY <2>1 DEF StatusHasQuorum
<1> QED
  BY <1>1, <1>2, <1>3 DEF QuorumInv

\* QuorumInv is inductive relative to the types.
THEOREM QuorumInductive == Spec => []QuorumInv
<1>1. Init => QuorumInv
  BY QuorumInit
<1>2. TypeOK /\ QuorumInv /\ [Next]_vars => QuorumInv'
  BY VotesWereCastNext, CandidatesHaveQuorumNext, StatusHasQuorumNext DEF QuorumInv
<1> QED
  BY <1>1, <1>2, TypeCorrect, PTL DEF Spec

\* Nobody removes or hides a record without the quorum of its threshold, whatever
\* the interleaving of the evaluators, the failures and the withdrawals.
THEOREM QuorumBehindStatus == Spec => []StatusHasQuorum
<1>1. QuorumInv => StatusHasQuorum
  BY DEF QuorumInv
<1> QED
  BY <1>1, QuorumInductive, PTL
-----------------------------------------------------------------------------
(* The composition.  Facts holds the lemmas of ReviewQueueProofs about this *)
(* instance; the next lemmas say that it is the instance Review.           *)

Facts == INSTANCE ReviewQueueProofs WITH
    Records <- Cameras, Offered <- Decisions, Requests <- DecisionSlots,
    MaxRequests <- MaxDecisions, req <- decision, started <- decided

LEMMA ReviewAssumptions ==
    Facts!ReviewersAssumption /\ Facts!InitialAssumption /\ Facts!BoundsAssumption
<1>1. Facts!ReviewersAssumption
  BY LifecycleAssumption DEF Facts!ReviewersAssumption, Facts!Roles, Review!Roles
<1>2. Facts!InitialAssumption
  BY LifecycleAssumption, RecordsAssumption DEF Facts!InitialAssumption, Facts!Statuses
<1>3. Facts!BoundsAssumption
  BY LifecycleAssumption, BoundsAssumption
  DEF Facts!BoundsAssumption, Facts!CameraActions, Review!CameraActions
<1> QED
  BY <1>1, <1>2, <1>3

LEMMA SameType == Review!TypeOK <=> Facts!TypeOK
BY DEF Review!TypeOK, Facts!TypeOK, Review!Statuses, Facts!Statuses, Review!QueueRow,
       Facts!QueueRow, Review!QueueStates, Facts!QueueStates, Review!Event, Facts!Event,
       Review!EventActions, Facts!EventActions, Review!CameraActions, Facts!CameraActions,
       Review!OutcomeActions, Facts!OutcomeActions, Review!Request, Facts!Request,
       Review!PCs, Facts!PCs

LEMMA SameTypeNext == Review!TypeOK' <=> Facts!TypeOK'
BY SameType, PTL

LEMMA SameInit == Review!Init <=> Facts!Init
BY DEF Review!Init, Facts!Init, Review!Idle, Facts!Idle

LEMMA SameNext == Review!Next <=> Facts!Next
BY Zenon
DEF Review!Next, Facts!Next, Review!Begin, Facts!Begin, Review!Step, Facts!Step,
    Review!FindQueueItem, Facts!FindQueueItem, Review!OpenQueueItem, Facts!OpenQueueItem,
    Review!Recuse, Facts!Recuse, Review!Escalate, Facts!Escalate,
    Review!RecordIntent, Facts!RecordIntent,
    Review!LookUpFirstReviewer, Facts!LookUpFirstReviewer, Review!Decide, Facts!Decide,
    Review!FailRequest, Facts!FailRequest, Review!At, Facts!At, Review!Finish, Facts!Finish,
    Review!RoleAllows, Facts!RoleAllows, Review!AllowedActions, Facts!AllowedActions,
    Review!Idle, Facts!Idle, Review!Proceed, Facts!Proceed, Review!NextPC, Facts!NextPC,
    Review!Resolvers, Facts!Resolvers, Review!Outcome, Facts!Outcome,
    Review!HideTarget, Facts!HideTarget,
    Review!NeedsSecondReview, Facts!NeedsSecondReview,
    Review!SecondReviewActions, Facts!SecondReviewActions,
    Review!IntentRecorded, Facts!IntentRecorded, Review!OpenRows, Facts!OpenRows,
    Review!RowAdmitted, Facts!RowAdmitted, Review!NewRow, Facts!NewRow,
    Review!EventOf, Facts!EventOf, Review!QueueAfter, Facts!QueueAfter,
    Review!SameAction, Facts!SameAction, Review!LastSameAction, Facts!LastSameAction,
    Review!StatusAsRead, Facts!StatusAsRead, Review!EventLands, Facts!EventLands

LEMMA LifecycleTypeInit == LifecycleInit => LifecycleTypeOK
<1>1. Review!Init => Review!TypeOK
  BY ReviewAssumptions, SameInit, SameType, Facts!TypeInit
<1> QED
  BY <1>1, TypeInit DEF LifecycleInit, LifecycleTypeOK

\* Reviewers change a status by completing a decision only: on the record it is about,
\* from the status that was read, and with an event that says so.
LEMMA DecisionChanges ==
    ASSUME LifecycleTypeOK, Review!Next, NEW cam \in Cameras, status'[cam] # status[cam]
    PROVE  \E s \in DecisionSlots, to \in {"active", "needs_review", "removed", "rejected"} :
             /\ decision[s].rec = cam
             /\ to \in Review!Outcome(status[cam], decision[s].action)
             /\ status[cam] \notin {"removed", "rejected", "hidden", to}
             /\ status' = [status EXCEPT ![cam] = to]
             /\ \E e \in Review!Event : /\ events' = Append(events, e)
                                        /\ e.rec = cam /\ e.from = status[cam] /\ e.to = to
<1>1. PICK s \in DecisionSlots : Review!Decide(s)
  BY DEF Review!Next, Review!Step, Review!Begin, Review!FindQueueItem, Review!OpenQueueItem,
         Review!Recuse, Review!Escalate, Review!RecordIntent, Review!LookUpFirstReviewer,
         Review!FailRequest
<1>2. PICK to \in Review!Outcome(decision[s].from, decision[s].action) :
        /\ status' = IF Review!StatusAsRead(s) THEN [status EXCEPT ![decision[s].rec] = to]
                     ELSE status
        /\ events' = IF Review!EventLands(s, to) THEN Append(events, Review!EventOf(s, to, FALSE))
                     ELSE events
  BY <1>1 DEF Review!Decide
<1>3. /\ Review!StatusAsRead(s)
      /\ status' = [status EXCEPT ![decision[s].rec] = to]
  BY <1>2
<1>4. decision[s].rec = cam /\ decision[s].from = status[cam]
  BY <1>3 DEF Review!StatusAsRead, LifecycleTypeOK, TypeOK
<1>5. /\ to \in {"active", "needs_review", "removed", "rejected"}
      /\ status[cam] \notin {"removed", "rejected", "hidden", to}
  BY <1>2, <1>4 DEF Review!Outcome, Review!HideTarget
<1> DEFINE e == Review!EventOf(s, to, FALSE)
<1>6. events' = Append(events, e)
  BY <1>2, <1>3, <1>4 DEF Review!EventLands, LifecycleTypeOK, TypeOK
<1>7. decision[s] \in Review!Request
  BY DEF LifecycleTypeOK, Review!TypeOK
<1>8. e \in Review!Event /\ e.rec = cam /\ e.from = status[cam] /\ e.to = to
  BY <1>4, <1>5, <1>7 DEF Review!EventOf, Review!Event, Review!Request, Review!EventActions,
                          Review!Statuses
<1> QED
  BY <1>2, <1>3, <1>4, <1>5, <1>6, <1>8

LEMMA LifecycleTypeNext ==
    LifecycleTypeOK /\ [LifecycleNext]_lifecycleVars => LifecycleTypeOK'
<1> SUFFICES ASSUME LifecycleTypeOK, [LifecycleNext]_lifecycleVars PROVE LifecycleTypeOK'
  OBVIOUS
<1>1. ASSUME [Next]_vars, UNCHANGED reviewVars PROVE LifecycleTypeOK'
  <2>1. TypeOK'
    BY <1>1, TypeNext DEF LifecycleTypeOK
  <2>2. status' \in [Cameras -> Review!Statuses]
    BY <2>1 DEF TypeOK, Statuses, Review!Statuses
  <2>3. Review!TypeOK'
    BY <1>1, <2>2 DEF LifecycleTypeOK, Review!TypeOK, reviewVars
  <2> QED
    BY <2>1, <2>3 DEF LifecycleTypeOK
<1>2. ASSUME Moderate PROVE LifecycleTypeOK'
  <2>1. Review!TypeOK'
    <3>1. Facts!TypeOK /\ Facts!Next
      BY <1>2, SameType, SameNext DEF Moderate, LifecycleTypeOK
    <3>2. Facts!TypeOK'
      BY <3>1, ReviewAssumptions, Facts!TypeNext
    <3> QED
      BY <3>2, SameTypeNext
  <2>2. status' \in [Cameras -> Review!Statuses]
    BY <2>1 DEF Review!TypeOK
  <2>3. \A cam \in Cameras : status'[cam] \in Statuses
    BY <1>2, DecisionChanges DEF Moderate, LifecycleTypeOK, TypeOK, Statuses
  <2>4. status' \in [Cameras -> Statuses]
    BY <2>2, <2>3
  <2>5. lastVerified' \in [Cameras -> Nat]
    BY <1>2 DEF Moderate, LifecycleTypeOK, TypeOK
  <2>6. TypeOK'
    BY <1>2, <2>4, <2>5 DEF Moderate, LifecycleTypeOK, TypeOK
  <2> QED
    BY <2>1, <2>6 DEF LifecycleTypeOK
<1> QED
  BY <1>1, <1>2 DEF LifecycleNext, lifecycleVars, reviewVars

\* Both lanes keep the types of every table, their common one included.
THEOREM LifecycleTypeCorrect == LifecycleSpec => []LifecycleTypeOK
BY LifecycleTypeInit, LifecycleTypeNext, PTL DEF LifecycleSpec

\* What the rules that restore a record ask for.
LEMMA RestoreQuorum ==
    ASSUME NEW i \in 1..6
    PROVE  /\ Rules[i].from \in {"active", "hidden", "removed"} /\ Rules[i].from # Rules[i].to
           /\ Rules[i].to = "active" => /\ Rules[i].trigger = "confirm"
                                        /\ Rules[i].from \in {"hidden", "removed"}
                                        /\ Rules[i].distinct = RestoreMin(Rules[i].from)
           /\ Rules[i].from = "removed" => Rules[i].to = "active"
<1>1. i = 1 \/ i = 2 \/ i = 3 \/ i = 4 \/ i = 5 \/ i = 6
  OBVIOUS
<1> QED
  BY <1>1 DEF Rules, Rule, PrivacyRule, RestoreMin

\* A request about to swap the status leaves the status its rule starts from.
FromTheRule == \A r \in Requests :
    req[r].pc \in {"cooldown", "cas"} => Rules[req[r].rule].from = req[r].from

LifecycleInv == VotesWereCast /\ CandidatesHaveQuorum /\ FromTheRule

LEMMA FromTheRuleNext ==
    ASSUME TypeOK, FromTheRule, [Next]_vars
    PROVE  FromTheRule'
<1> SUFFICES ASSUME NEW s \in Requests, req'[s].pc \in {"cooldown", "cas"}
             PROVE  Rules[req'[s].rule].from = req'[s].from
  BY DEF FromTheRule
<1> DEFINE Kept == /\ req[s].pc \in {"cooldown", "cas"}
                   /\ req'[s].rule = req[s].rule /\ req'[s].from = req[s].from
<1>1. CASE Kept
  BY <1>1 DEF FromTheRule
<1>2. CASE ReadStats(s)
  <2>1. req[s] \in Request /\ ~Finish(s)
    BY DEF Finish, Idle, Locals, TypeOK
  <2>2. PICK i \in 1..6 :
          /\ Met(i, req[s].from, rows[req[s].cam])
          /\ req' = [req EXCEPT ![s].pc = IF Rules[i].from = "hidden" /\ Rules[i].to = "active"
                                            THEN "cooldown" ELSE "cas",
                                ![s].rule = i,
                                ![s].counted = OnlyVotes(rows[req[s].cam], Rules[i].trigger)]
    BY <1>2, <2>1 DEF ReadStats, FirstMet
  <2>3. req'[s].rule = i /\ req'[s].from = req[s].from
    BY <2>1, <2>2 DEF TypeOK, Request
  <2> QED
    BY <2>2, <2>3 DEF Met
<1>3. ASSUME NEW r \in Requests, Finish(r)
      PROVE  Kept
  BY <1>3 DEF Finish, Idle, Locals, TypeOK
<1>4. ASSUME NEW r \in Requests, NEW pc \in PCs \ {"cooldown"}, Goto(r, pc),
             pc = "cas" => req[r].pc = "cooldown"
      PROVE  Kept
  BY <1>4 DEF Goto, TypeOK, Request
<1>5. ASSUME NEW r \in Requests, CountContributions(r) \/ ReadStatus(r)
      PROVE  Kept
  <2>1. req[r] \in Request
    BY DEF TypeOK
  <2>2. req'[r].pc \in {"write", "stats"}
    BY <1>5, <2>1 DEF CountContributions, ReadStatus, TypeOK, Request
  <2>3. r # s /\ req'[s] = req[s]
    BY <1>5, <2>2 DEF CountContributions, ReadStatus, TypeOK
  <2> QED
    BY <2>3
<1>6. ASSUME NEW r \in Requests, r # s, ReadStats(r)
      PROVE  Kept
  BY <1>6 DEF ReadStats, Finish, TypeOK
<1>7. ASSUME NEW r \in Requests,
             InsertAction(r) \/ SwitchAction(r) \/ FoundOtherAction(r) \/ RefreshVerified(r)
               \/ CompareAndSwap(r)
      PROVE  Kept
  <2>1. \E pc \in PCs \ {"cas", "cooldown"} : Goto(r, pc)
    BY <1>7 DEF InsertAction, SwitchAction, FoundOtherAction, RefreshVerified, CompareAndSwap,
                Store, AfterWrite, PCs
  <2> QED
    BY <1>4, <2>1
<1>8. ASSUME NEW r \in Requests, CheckCooldown(r)
      PROVE  Kept
  <2>1. Finish(r) \/ (req[r].pc = "cooldown" /\ Goto(r, "cas"))
    BY <1>8 DEF CheckCooldown, At
  <2> QED
    BY <1>3, <1>4, <2>1 DEF PCs
<1>9. ASSUME NEW r \in Requests,
             RefuseInsert(r) \/ RefuseSwitch(r) \/ LoseSwap(r) \/ RecordTransition(r) \/ FailRequest(r)
      PROVE  Kept
  <2>1. Finish(r)
    BY <1>9 DEF RefuseInsert, RefuseSwitch, LoseSwap, RecordTransition, FailRequest
  <2> QED
    BY <1>3, <2>1
<1>10. ASSUME NEW r \in Requests, NEW c \in Contributors, NEW cam \in Cameras, NEW t \in Offered,
              Begin(r, c, cam, t)
       PROVE  Kept
  BY <1>10 DEF Begin, Locals, TypeOK
<1>11. ASSUME UNCHANGED req
       PROVE  Kept
  BY <1>11
<1>12. ASSUME Tick \/ UNCHANGED vars \/ \E r \in Requests, c \in Contributors :
                EraseContributor(r, c) \/ \E cam \in Cameras : Withdraw(r, c, cam)
       PROVE  UNCHANGED req
  BY <1>12 DEF Tick, vars, EraseContributor, Withdraw
<1> QED
  BY <1>1, <1>2, <1>5, <1>6, <1>7, <1>8, <1>9, <1>10, <1>11, <1>12 DEF Next, Unreliable, Step

\* A status that the community lane changes is changed by a rule that starts from it,
\* with as many voters as the rule asks for.
LEMMA RuleBehindChange ==
    ASSUME TypeOK, CandidatesHaveQuorum, FromTheRule, Next,
           NEW cam \in Cameras, status'[cam] # status[cam]
    PROVE  \E i \in 1..6 : /\ status[cam] = Rules[i].from /\ status'[cam] = Rules[i].to
                           /\ Quorum(cam, Rules[i].trigger, Rules[i].distinct)
                           /\ cast' = cast
<1>1. PICK r \in Requests : CompareAndSwap(r)
  BY StatusChange
<1>2. /\ req[r].cam \in Cameras /\ req[r].rule \in 1..6 /\ req[r].counted \in Table
      /\ req[r].pc = "cas"
  BY <1>1 DEF CompareAndSwap, At, TypeOK, Request
<1>3. /\ req[r].cam = cam /\ status'[cam] = Rules[req[r].rule].to
      /\ status[cam] = req[r].from /\ cast' = cast
  BY <1>1, <1>2 DEF CompareAndSwap, StatusAsRead, TypeOK
<1>4. Rules[req[r].rule].from = req[r].from
  BY <1>2 DEF FromTheRule
<1> DEFINE t == Rules[req[r].rule].trigger
           voters == Counted(req[r].counted)
<1>5. voters \subseteq Ever(cam, t) /\ Cardinality(voters) >= Rules[req[r].rule].distinct
  BY <1>2, <1>3 DEF CandidatesHaveQuorum
<1>6. Rules[req[r].rule].distinct \in Nat /\ Ever(cam, t) \subseteq Contributors
  BY <1>2, RuleQuorum DEF Ever
<1>7. Quorum(cam, t, Rules[req[r].rule].distinct)
  <2> HIDE DEF voters, t
  <2>1. /\ Cardinality(voters) \in Nat /\ Cardinality(Ever(cam, t)) \in Nat
        /\ Cardinality(voters) <= Cardinality(Ever(cam, t))
    BY <1>5, <1>6, ContributorCount
  <2> QED
    BY <1>5, <1>6, <2>1 DEF Quorum
<1> QED
  BY <1>2, <1>3, <1>4, <1>7

\* LifecycleInv and the types survive every step of either lane.
LEMMA LifecycleInvNext ==
    LifecycleTypeOK /\ LifecycleInv /\ [LifecycleNext]_lifecycleVars => LifecycleInv'
<1> SUFFICES ASSUME LifecycleTypeOK, LifecycleInv, [LifecycleNext]_lifecycleVars
             PROVE  LifecycleInv'
  OBVIOUS
<1>1. CASE [Next]_vars
  BY <1>1, VotesWereCastNext, CandidatesHaveQuorumNext, FromTheRuleNext
  DEF LifecycleInv, LifecycleTypeOK
<1>2. CASE UNCHANGED <<rows, req, cast>>
  BY <1>2 DEF LifecycleInv, VotesWereCast, CandidatesHaveQuorum, FromTheRule, Counted, Ever
<1> QED
  BY <1>1, <1>2 DEF LifecycleNext, lifecycleVars, Moderate

LEMMA LifecycleInvInit == LifecycleInit => LifecycleInv
<1>1. Init => FromTheRule
  BY DEF Init, FromTheRule, Idle, Locals
<1> QED
  BY <1>1, QuorumInit DEF LifecycleInit, LifecycleInv, QuorumInv

\* Whatever the two lanes do to one record, only the confirms of enough people lead out
\* of a withdrawal, and nothing out of a rejection.
THEOREM ReversalNeedsConsensus == LifecycleSpec => ReversedByConsensus
<1> DEFINE Reversed(cam) == status'[cam] # status[cam] =>
      /\ status[cam] # "rejected"
      /\ status[cam] = "hidden" => status'[cam] \in {"active", "removed"}
      /\ status[cam] = "removed" => status'[cam] = "active"
      /\ status[cam] \in {"hidden", "removed"} /\ status'[cam] = "active" =>
           Quorum(cam, "confirm", RestoreMin(status[cam]))
           StepOK == [\A cam \in Cameras : Reversed(cam)]_lifecycleVars
<1>1. LifecycleTypeOK /\ LifecycleInv /\ [LifecycleNext]_lifecycleVars => StepOK
  <2> SUFFICES ASSUME LifecycleTypeOK, LifecycleInv, LifecycleNext, NEW cam \in Cameras,
                      status'[cam] # status[cam]
               PROVE  Reversed(cam)
    OBVIOUS
  <2>1. CASE Next
    <3>1. PICK i \in 1..6 : /\ status[cam] = Rules[i].from /\ status'[cam] = Rules[i].to
                            /\ Quorum(cam, Rules[i].trigger, Rules[i].distinct)
      BY <2>1, RuleBehindChange DEF LifecycleTypeOK, LifecycleInv
    <3>2. status'[cam] \in {"active", "hidden", "removed"}
      BY <3>1, RuleType
    <3> QED
      BY <3>1, <3>2, RestoreQuorum
  <2>2. CASE Moderate
    <3>1. status[cam] \notin {"removed", "rejected", "hidden"}
      BY <2>2, DecisionChanges DEF Moderate
    <3> QED
      BY <3>1
  <2> QED
    BY <2>1, <2>2 DEF LifecycleNext
<1> QED
  BY <1>1, LifecycleInvInit, LifecycleInvNext, LifecycleTypeCorrect, PTL
  DEF LifecycleSpec, ReversedByConsensus

\* What has been cast, and what has been put on file, stays.
LEMMA QuorumStays ==
    ASSUME TypeOK, [Next]_vars \/ UNCHANGED cast, NEW cam \in Cameras, NEW t \in Actions,
           NEW n \in Nat, Quorum(cam, t, n)
    PROVE  Cardinality(EverNext(cam, t)) >= n
<1>1. CASE [Next]_vars
  BY <1>1, EverGrows DEF Quorum
<1>2. CASE UNCHANGED cast
  <2>1. EverNext(cam, t) = Ever(cam, t)
    BY <1>2 DEF Ever, EverNext
  <2> QED
    BY <2>1 DEF Quorum
<1> QED
  BY <1>1, <1>2

LEMMA DecidedStays ==
    ASSUME LifecycleTypeOK, Review!Next \/ UNCHANGED events, NEW cam \in Cameras,
           NEW i \in Decided(cam, status[cam])
    PROVE  i \in DOMAIN events' /\ events'[i] = events[i]
<1>1. CASE UNCHANGED events
  BY <1>1 DEF Decided
<1>2. ASSUME NEW S, events \in Seq(S), NEW e \in S, events' = Append(events, e)
      PROVE  i \in DOMAIN events' /\ events'[i] = events[i]
  BY <1>2, Facts!AppendKeeps DEF Decided
<1>3. ASSUME Review!Next
      PROVE  UNCHANGED events \/ \E e \in Facts!Event : events' = Append(events, e)
  <2>1. Facts!TypeOK /\ Facts!Next
    BY <1>3, SameType, SameNext DEF LifecycleTypeOK
  <2> QED
    BY <2>1, ReviewAssumptions, Facts!EventsAppended
<1>4. events \in Seq(Facts!Event)
  BY SameType DEF LifecycleTypeOK, Facts!TypeOK
<1> QED
  BY <1>1, <1>2, <1>3, <1>4

LEMMA CauseNext ==
    LifecycleTypeOK /\ LifecycleInv /\ StatusHasCause /\ [LifecycleNext]_lifecycleVars
      => StatusHasCause'
<1> DEFINE Filed(cam, to) == \E i \in DOMAIN events' :
             events'[i].rec = cam /\ events'[i].to = to /\ events'[i].from # to
           Many(cam, t, n) == Cardinality(EverNext(cam, t)) >= n
           Voted(cam, to) ==
             \/ to = "removed" /\ Many(cam, "gone", GoneMinDistinct)
             \/ to = "hidden" /\ \/ Many(cam, "privacy", PrivacyMin)
                                 \/ Many(cam, "problem", ProblemMinDistinct)
             \/ to = "active" /\ \/ Many(cam, "confirm", RestoreHiddenMinDistinct)
                                 \/ Many(cam, "confirm", RestoreRemovedMinDistinct)
<1> SUFFICES ASSUME LifecycleTypeOK, LifecycleInv, StatusHasCause,
                    [LifecycleNext]_lifecycleVars, NEW cam \in Cameras,
                    status'[cam] # InitialStatus[cam]
             PROVE  Filed(cam, status'[cam]) \/ Voted(cam, status'[cam])
  BY DEF StatusHasCause, Decided, Quorum, Ever, EverNext
<1>1. {GoneMinDistinct, PrivacyMin, ProblemMinDistinct, RestoreHiddenMinDistinct,
         RestoreRemovedMinDistinct} \subseteq Nat
  BY SettingsAssumption
<1>2. {"gone", "privacy", "problem", "confirm"} \subseteq Actions
  BY DEF Actions
<1>3. CASE status'[cam] = status[cam]
  <2>1. [Next]_vars \/ UNCHANGED cast
    BY DEF LifecycleNext, lifecycleVars, Moderate, vars
  <2>2. Review!Next \/ UNCHANGED events
    BY DEF LifecycleNext, lifecycleVars, reviewVars, Moderate
  <2>3. \A t \in Actions, n \in Nat : Quorum(cam, t, n) => Many(cam, t, n)
    BY <2>1, QuorumStays DEF LifecycleTypeOK
  <2>4. Decided(cam, status[cam]) # {} => Filed(cam, status'[cam])
    BY <1>3, <2>2, DecidedStays DEF Decided
  <2>5. /\ Quorum(cam, "gone", GoneMinDistinct) => Many(cam, "gone", GoneMinDistinct)
        /\ Quorum(cam, "privacy", PrivacyMin) => Many(cam, "privacy", PrivacyMin)
        /\ Quorum(cam, "problem", ProblemMinDistinct) => Many(cam, "problem", ProblemMinDistinct)
        /\ Quorum(cam, "confirm", RestoreHiddenMinDistinct)
             => Many(cam, "confirm", RestoreHiddenMinDistinct)
        /\ Quorum(cam, "confirm", RestoreRemovedMinDistinct)
             => Many(cam, "confirm", RestoreRemovedMinDistinct)
    <3> HIDE DEF Many
    <3> QED
      BY <1>1, <1>2, <2>3
  <2>6. \/ Decided(cam, status[cam]) # {}
        \/ status[cam] = "removed" /\ Quorum(cam, "gone", GoneMinDistinct)
        \/ status[cam] = "hidden" /\ \/ Quorum(cam, "privacy", PrivacyMin)
                                     \/ Quorum(cam, "problem", ProblemMinDistinct)
        \/ status[cam] = "active" /\ \/ Quorum(cam, "confirm", RestoreHiddenMinDistinct)
                                     \/ Quorum(cam, "confirm", RestoreRemovedMinDistinct)
    BY <1>3 DEF StatusHasCause
  <2> HIDE DEF Filed, Many
  <2> QED
    BY <1>3, <2>4, <2>5, <2>6
<1>4. CASE status'[cam] # status[cam] /\ Next
  <2>1. PICK i \in 1..6 : /\ status'[cam] = Rules[i].to /\ cast' = cast
                          /\ Quorum(cam, Rules[i].trigger, Rules[i].distinct)
    BY <1>4, RuleBehindChange DEF LifecycleTypeOK, LifecycleInv
  <2>2. Many(cam, Rules[i].trigger, Rules[i].distinct)
    BY <2>1 DEF Quorum, Ever, EverNext
  <2> HIDE DEF Many
  <2> QED
    BY <2>1, <2>2, RuleType, RuleQuorum, RestoreQuorum DEF RestoreMin
<1>5. CASE status'[cam] # status[cam] /\ Moderate
  <2>1. PICK to \in {"active", "needs_review", "removed", "rejected"}, e \in Review!Event :
          /\ status' = [status EXCEPT ![cam] = to] /\ to # status[cam]
          /\ events' = Append(events, e)
          /\ e.rec = cam /\ e.from = status[cam] /\ e.to = to
    BY <1>5, DecisionChanges DEF Moderate
  <2>2. events \in Seq(Review!Event)
    BY DEF LifecycleTypeOK, Review!TypeOK
  <2>3. /\ Len(events) + 1 \in DOMAIN events'
        /\ events'[Len(events) + 1] = e
    BY <2>1, <2>2, Facts!AppendKeeps
  <2>4. status'[cam] = to
    BY <2>1 DEF LifecycleTypeOK, TypeOK
  <2> QED
    BY <2>1, <2>3, <2>4
<1> QED
  BY <1>3, <1>4, <1>5 DEF LifecycleNext, lifecycleVars, vars

\* Every status a record has come to has a decision on file or a quorum of voters
\* behind it, for any number of either at work on it.
THEOREM CauseBehindStatus == LifecycleSpec => []StatusHasCause
<1>1. LifecycleInit => StatusHasCause
  BY DEF LifecycleInit, Init, StatusHasCause
<1> QED
  BY <1>1, LifecycleInvInit, LifecycleInvNext, CauseNext, LifecycleTypeCorrect, PTL
  DEF LifecycleSpec

\* A lane that moves statuses under the reviewers does not let one of them complete a
\* two-person review before an intent is on file.
LEMMA SameHasty == Facts!NoHastyDecision => NoHastyDecision
BY DEF NoHastyDecision, Review!NoHastyDecision, Facts!NoHastyDecision, Review!At, Facts!At,
       Review!NeedsSecondReview, Facts!NeedsSecondReview,
       Review!SecondReviewActions, Facts!SecondReviewActions, Review!IntentsOn, Facts!IntentsOn

LEMMA IntentsUnderVotes ==
    LifecycleTypeOK /\ Facts!IntentInv /\ [LifecycleNext]_lifecycleVars => Facts!IntentInv'
<1> SUFFICES ASSUME LifecycleTypeOK, Facts!IntentInv, [LifecycleNext]_lifecycleVars
             PROVE  Facts!IntentInv'
  OBVIOUS
<1>1. CASE UNCHANGED reviewVars
  BY <1>1 DEF reviewVars, Facts!IntentInv, Facts!RowsHaveIntent, Facts!RequestsKeepRow,
              Facts!NoHastyDecision, Facts!IntentsOn, Facts!At
<1>2. CASE Moderate
  <2>1. Facts!TypeOK /\ Facts!Next
    BY <1>2, SameType, SameNext DEF Moderate, LifecycleTypeOK
  <2> QED
    BY <2>1, ReviewAssumptions, Facts!IntentNext
<1> QED
  BY <1>1, <1>2 DEF LifecycleNext, lifecycleVars

THEOREM HastyNeverInLifecycle == LifecycleSpec => []NoHastyDecision
<1>1. LifecycleInit => Facts!IntentInv
  BY DEF LifecycleInit, Review!Init, Review!Idle, Facts!IntentInv, Facts!RowsHaveIntent,
         Facts!RequestsKeepRow, Facts!NoHastyDecision, Facts!At
<1>2. Facts!IntentInv => NoHastyDecision
  BY SameHasty DEF Facts!IntentInv
<1> QED
  BY <1>1, <1>2, IntentsUnderVotes, LifecycleTypeCorrect, PTL DEF LifecycleSpec
-----------------------------------------------------------------------------
(* The quotas of the two lanes that write votes.                           *)

\* A request and a toggle carry a time that has passed, and a toggle under way
\* names its account and its record.
NowsPast ==
    /\ \A r \in Requests : req[r].now <= clock
    /\ \A s \in Toggles : toggle[s].now <= clock
Addressed == \A s \in Toggles :
    toggle[s].pc # "idle" => toggle[s].who \in Contributors /\ toggle[s].cam \in Cameras
AliasInv == AliasTypeOK /\ NowsPast /\ Addressed /\ SharedCapHolds

\* A statement that adds a vote of a type to a record: fewer were recent, seen from
\* the time of the request, than the cap of its lane.
Adds(cam, c, row) ==
    /\ rows' = [rows EXCEPT ![cam][c] = row]
    /\ clock' = clock
    /\ \E now \in 0..clock :
         \/ UnderRecordCap(cam, row.type, now)
         \/ row.type = "confirm" /\ UnderToggleCap(cam, now)

\* Any other step: votes go, and time passes.
OnlyRemoves ==
    /\ \A cam \in Cameras, c \in Contributors : rows'[cam][c] \in {rows[cam][c], NoRow}
    /\ clock' \in Nat /\ clock <= clock'

LEMMA AliasInitType == AliasInit => AliasInv
<1> SUFFICES ASSUME AliasInit PROVE AliasInv
  OBVIOUS
<1>1. TypeOK
  BY TypeInit DEF AliasInit
<1>2. toggle \in [Toggles -> ToggleRequest] /\ Addressed /\ NowsPast
  BY DEF AliasInit, Init, Idle, Locals, IdleToggle, ToggleRequest, Weights, Answers, Addressed, NowsPast
<1>3. \A cam \in Cameras, t \in Actions : RecentOn(cam, t, clock) = {}
  BY DEF AliasInit, Init, NoVotes, RecentOn, Voters
<1>4. SharedCapHolds
  BY <1>3, FS_EmptySet, SettingsAssumption DEF SharedCapHolds
<1> QED
  BY <1>1, <1>2, <1>4 DEF AliasInv, AliasTypeOK

\* The toggle's steps keep the types.
LEMMA AnswerType ==
    ASSUME toggle \in [Toggles -> ToggleRequest], Addressed, clock \in Nat,
           \A s \in Toggles : toggle[s].now <= clock, clock' = clock,
           NEW s \in Toggles, NEW kind \in Answers, Answer(s, kind)
    PROVE  /\ toggle' \in [Toggles -> ToggleRequest] /\ Addressed'
           /\ \A q \in Toggles : toggle'[q].now <= clock'
<1> DEFINE new == [IdleToggle EXCEPT !.answer = kind]
<1>1. new \in ToggleRequest /\ new.pc = "idle" /\ new.now = 0
  BY DEF IdleToggle, ToggleRequest, Weights
<1>2. toggle' = [toggle EXCEPT ![s] = new]
  BY DEF Answer
<1> HIDE DEF new
<1> QED
  BY <1>1, <1>2 DEF Addressed

LEMMA AliasTypeNext ==
    ASSUME AliasTypeOK, NowsPast, Addressed, [AliasNext]_aliasVars
    PROVE  AliasTypeOK' /\ NowsPast' /\ Addressed'
<1> USE DEF AliasTypeOK
<1> DEFINE ToggleOK == /\ toggle \in [Toggles -> ToggleRequest] /\ Addressed
                       /\ \A s \in Toggles : toggle[s].now <= clock
           ReqOK == \A r \in Requests : req[r].now <= clock
<1>0. clock \in Nat /\ ToggleOK /\ ReqOK
  BY DEF TypeOK, NowsPast
<1>1. CASE Next /\ UNCHANGED toggle
  <2>1. TypeOK'
    BY <1>1, TypeNext
  <2>2. clock' \in Nat /\ clock <= clock'
    <3>1. clock' = clock \/ Tick
      BY <1>1 DEF Next, Step, Unreliable, Begin, CountContributions, InsertAction, FoundOtherAction,
         RefuseInsert, SwitchAction, RefuseSwitch, RefreshVerified, ReadStatus, ReadStats, CheckCooldown,
         CompareAndSwap, LoseSwap, RecordTransition, Withdraw, EraseContributor, FailRequest
    <3> QED
      BY <1>0, <3>1 DEF Tick
  <2>3. \A r \in Requests : req'[r].now \in {0, clock, req[r].now}
    <3>1. CASE UNCHANGED req
      BY <3>1
    <3>2. ASSUME NEW r \in Requests, Finish(r) PROVE \A q \in Requests : req'[q].now \in {0, clock, req[q].now}
      BY <3>2 DEF Finish, Idle, Locals, TypeOK
    <3>3. ASSUME NEW r \in Requests, NEW pc, Goto(r, pc)
          PROVE \A q \in Requests : req'[q].now \in {0, clock, req[q].now}
      BY <3>3 DEF Goto, TypeOK, Request
    <3>4. ASSUME NEW r \in Requests, NEW c \in Contributors, NEW cam \in Cameras, NEW t \in Offered,
                 Begin(r, c, cam, t)
          PROVE \A q \in Requests : req'[q].now \in {0, clock, req[q].now}
      <4>1. PICK begun : begun = Locals("count", c, cam, t, clock)
        OBVIOUS
      <4>2. begun.now = clock
        BY <4>1 DEF Locals
      <4>3. req' = [req EXCEPT ![r] = begun]
        BY <3>4, <4>1 DEF Begin
      <4> QED
        BY <4>2, <4>3 DEF TypeOK
    <3>5. ASSUME NEW r \in Requests, CountContributions(r) \/ ReadStatus(r)
          PROVE \A q \in Requests : req'[q].now \in {0, clock, req[q].now}
      <4>1. CASE CountContributions(r)
        BY <4>1 DEF CountContributions, TypeOK, Request
      <4>2. CASE ReadStatus(r)
        BY <4>2 DEF ReadStatus, TypeOK, Request
      <4> QED
        BY <3>5, <4>1, <4>2
    <3>6. ASSUME NEW r \in Requests, ReadStats(r)
          PROVE \A q \in Requests : req'[q].now \in {0, clock, req[q].now}
      <4>1. CASE Finish(r)
        BY <3>2, <4>1
      <4>2. CASE ~Finish(r)
        <5>1. PICK i, pc : req' = [req EXCEPT ![r].pc = pc, ![r].rule = i,
                             ![r].counted = OnlyVotes(rows[req[r].cam], Rules[i].trigger)]
          BY <3>6, <4>2 DEF ReadStats
        <5> QED
          BY <5>1 DEF TypeOK, Request
      <4> QED
        BY <4>1, <4>2
    <3>7. CASE Tick
      BY <3>1, <3>7 DEF Tick
    <3>8. ASSUME NEW r \in Requests,
                 InsertAction(r) \/ FoundOtherAction(r) \/ RefuseInsert(r) \/ SwitchAction(r)
                   \/ RefuseSwitch(r) \/ RefreshVerified(r) \/ CheckCooldown(r) \/ CompareAndSwap(r)
                   \/ LoseSwap(r) \/ RecordTransition(r) \/ FailRequest(r)
          PROVE \A q \in Requests : req'[q].now \in {0, clock, req[q].now}
      <4>1. Finish(r) \/ \E pc \in PCs : Goto(r, pc)
        BY <3>8 DEF InsertAction, FoundOtherAction, RefuseInsert, SwitchAction, RefuseSwitch,
           RefreshVerified, CheckCooldown, CompareAndSwap, LoseSwap, RecordTransition, FailRequest,
           Store, AfterWrite, PCs
      <4> QED
        BY <4>1, <3>2, <3>3
    <3>9. ASSUME NEW r \in Requests, NEW c \in Contributors, NEW cam \in Cameras,
                 Withdraw(r, c, cam) \/ EraseContributor(r, c)
          PROVE \A q \in Requests : req'[q].now \in {0, clock, req[q].now}
      BY <3>1, <3>9 DEF Withdraw, EraseContributor
    <3>11. ASSUME NEW r \in Requests, NEW c \in Contributors, EraseContributor(r, c)
           PROVE \A q \in Requests : req'[q].now \in {0, clock, req[q].now}
      BY <3>1, <3>11 DEF EraseContributor
    <3> QED
      BY <1>1, <3>4, <3>5, <3>6, <3>7, <3>8, <3>9, <3>11 DEF Next, Step, Unreliable
  <2>4. ReqOK'
    <3> SUFFICES ASSUME NEW r \in Requests PROVE req'[r].now <= clock'
      OBVIOUS
    <3>1. req[r].now \in Nat /\ req[r].now <= clock
      BY <1>0 DEF TypeOK, Request
    <3> QED
      BY <1>0, <2>2, <2>3, <3>1
  <2>5. ToggleOK'
    <3>1. \A s \in Toggles : toggle[s].now \in Nat
      BY DEF ToggleRequest
    <3> QED
      BY <1>0, <1>1, <2>2, <3>1 DEF Addressed
  <2> QED
    BY <2>1, <2>4, <2>5 DEF NowsPast
<1>2. ASSUME NEW s \in Toggles, NEW c \in Contributors, NEW cam \in Cameras, BeginToggle(s, c, cam)
      PROVE  AliasTypeOK' /\ NowsPast' /\ Addressed'
  <2> DEFINE new == [IdleToggle EXCEPT !.pc = "public", !.who = c, !.cam = cam,
                       !.own = OwnRecord(c, cam), !.now = clock]
  <2>1. new \in ToggleRequest /\ new.who = c /\ new.cam = cam /\ new.now = clock
    BY <1>0 DEF IdleToggle, ToggleRequest, Weights, Answers, OwnRecord
  <2>2. toggle' = [toggle EXCEPT ![s] = new]
    BY <1>2 DEF BeginToggle
  <2>3. UNCHANGED <<req, clock>> /\ TypeOK'
    BY <1>2 DEF BeginToggle, TypeOK
  <2> HIDE DEF new
  <2>4. ToggleOK'
    BY <1>0, <2>1, <2>2, <2>3 DEF Addressed
  <2> QED
    BY <1>0, <2>3, <2>4 DEF NowsPast
<1>3. ASSUME NEW s \in Toggles, CheckPublic(s) \/ CheckLevel(s) \/ RefuseToggle(s)
      PROVE  AliasTypeOK' /\ NowsPast' /\ Addressed'
  <2>1. UNCHANGED vars
    BY <1>3 DEF CheckPublic, CheckLevel, RefuseToggle
  <2>2. TypeOK' /\ clock' = clock /\ ReqOK'
    BY <1>0, <2>1 DEF vars, TypeOK
  <2>3. ToggleOK'
    <3>1. ASSUME NEW kind \in Answers, Answer(s, kind) PROVE ToggleOK'
      BY <1>0, <2>2, <3>1, AnswerType
    <3>2. CASE CheckPublic(s)
      <4>1. CASE \E kind \in Answers : Answer(s, kind)
        BY <3>1, <4>1
      <4>2. CASE toggle' = [toggle EXCEPT ![s].pc = "count"]
        BY <1>0, <2>2, <3>2, <4>2 DEF Addressed, ToggleRequest, CheckPublic
      <4> QED
        BY <3>2, <4>1, <4>2 DEF CheckPublic, Answers
    <3>3. CASE CheckLevel(s)
      <4>1. toggle[s].who \in Contributors
        BY <1>0, <3>3 DEF CheckLevel, Addressed
      <4> DEFINE n == ActiveContributions(toggle[s].who)
      <4>2. Weight(n) \in Weights
        BY <4>1, ActiveContributionsType, WeightType
      <4>3. CASE Answer(s, "level_gate")
        BY <3>1, <4>3 DEF Answers
      <4>4. CASE toggle' = [toggle EXCEPT ![s].pc = "write", ![s].weight = Weight(n)]
        <5> HIDE DEF n
        <5> QED
          BY <1>0, <2>2, <3>3, <4>2, <4>4 DEF Addressed, ToggleRequest, CheckLevel
      <4> QED
        BY <3>3, <4>3, <4>4 DEF CheckLevel
    <3>4. CASE RefuseToggle(s)
      BY <3>1, <3>4 DEF RefuseToggle, Answers
    <3> QED
      BY <1>3, <3>2, <3>3, <3>4
  <2> QED
    BY <2>2, <2>3 DEF NowsPast
<1>4. ASSUME NEW s \in Toggles, ToggleOn(s) PROVE AliasTypeOK' /\ NowsPast' /\ Addressed'
  <2>1. /\ toggle[s].who \in Contributors /\ toggle[s].cam \in Cameras
        /\ toggle[s].now \in Nat /\ toggle[s].weight \in Weights
    BY <1>0, <1>4 DEF ToggleOn, Addressed, ToggleRequest
  <2> DEFINE row == [id |-> nextId, type |-> "confirm", weight |-> toggle[s].weight,
                     created |-> toggle[s].now, updated |-> toggle[s].now]
  <2>2. row \in Row
    BY <2>1 DEF Row, Actions, TypeOK
  <2>3. /\ rows' = [rows EXCEPT ![toggle[s].cam][toggle[s].who] = row]
        /\ nextId' = nextId + 1
        /\ cast' = [cast EXCEPT ![toggle[s].cam] = @ \cup {<<toggle[s].who, "confirm">>}]
        /\ Answer(s, "ok")
        /\ UNCHANGED <<status, owner, lastVerified, timeline, req, erased, clock, started>>
    BY <1>4 DEF ToggleOn
  <2>4. rows' \in [Cameras -> Table]
    <3> HIDE DEF row
    <3>1. [rows[toggle[s].cam] EXCEPT ![toggle[s].who] = row] \in Table
      BY <2>1, <2>2 DEF Table, TypeOK
    <3> QED
      BY <2>1, <2>3, <3>1 DEF TypeOK
  <2>5. cast' \in [Cameras -> SUBSET (Contributors \X Actions)]
    BY <2>1, <2>3 DEF TypeOK, Actions
  <2>6. TypeOK'
    BY <2>3, <2>4, <2>5 DEF TypeOK
  <2>7. ToggleOK'
    BY <1>0, <2>3, AnswerType DEF Answers
  <2> QED
    BY <1>0, <2>3, <2>6, <2>7 DEF NowsPast
<1>5. ASSUME NEW s \in Toggles, NEW c \in Contributors, NEW cam \in Cameras, ToggleOff(s, c, cam)
      PROVE  AliasTypeOK' /\ NowsPast' /\ Addressed'
  <2>1. [rows[cam] EXCEPT ![c] = NoRow] \in Table
    BY DEF Table, TypeOK
  <2>2. rows' \in [Cameras -> Table]
    BY <1>5, <2>1 DEF ToggleOff, TypeOK
  <2>3. TypeOK' /\ UNCHANGED <<req, clock>>
    BY <1>5, <2>2 DEF ToggleOff, TypeOK
  <2>4. ToggleOK'
    BY <1>0, <1>5, <2>3, AnswerType DEF Answers, ToggleOff
  <2> QED
    BY <1>0, <2>3, <2>4 DEF NowsPast
<1>6. CASE UNCHANGED aliasVars
  BY <1>0, <1>6 DEF aliasVars, vars, TypeOK, NowsPast, Addressed
<1> QED
  BY <1>1, <1>2, <1>3, <1>4, <1>5, <1>6 DEF AliasNext, ToggleStep

\* Every step adds one counted vote, or none.
LEMMA VoteWriters ==
    ASSUME AliasInv, [AliasNext]_aliasVars
    PROVE  \/ OnlyRemoves
           \/ \E cam \in Cameras, c \in Contributors, row \in Row : Adds(cam, c, row)
<1>0. TypeOK /\ clock \in Nat /\ rows \in [Cameras -> Table]
  BY DEF AliasInv, AliasTypeOK, TypeOK
<1>1. ASSUME NEW r \in Requests, NEW id \in Nat, NEW created \in Nat, Store(r, id, created),
             ~At(r, "idle"), UnderRecordCap(req[r].cam, req[r].type, req[r].now), clock' = clock
      PROVE  \E cam \in Cameras, c \in Contributors, row \in Row : Adds(cam, c, row)
  <2>1. /\ req[r] \in Request /\ req[r].who \in Contributors /\ req[r].cam \in Cameras
        /\ req[r].now <= clock
    BY <1>0, <1>1 DEF TypeOK, At, Request, AliasInv, NowsPast
  <2>2. PICK row : row = [id |-> id, type |-> req[r].type, weight |-> req[r].weight,
                          created |-> created, updated |-> req[r].now]
    OBVIOUS
  <2>3. row \in Row /\ row.type = req[r].type
    BY <2>1, <2>2 DEF Row, Request
  <2>4. req[r].now \in 0..clock
    BY <1>0, <2>1 DEF Request
  <2>5. Adds(req[r].cam, req[r].who, row)
    BY <1>1, <2>2, <2>3, <2>4 DEF Adds, Store
  <2> QED
    BY <2>1, <2>3, <2>5
<1>2. ASSUME UNCHANGED rows, clock' = clock PROVE OnlyRemoves
  BY <1>0, <1>2 DEF OnlyRemoves
<1>3. ASSUME NEW cam \in Cameras, NEW c \in Contributors, rows' = [rows EXCEPT ![cam][c] = NoRow],
             clock' = clock
      PROVE  OnlyRemoves
  BY <1>0, <1>3 DEF OnlyRemoves, Table
<1>4. CASE Next /\ UNCHANGED toggle
  <2>1. ASSUME NEW r \in Requests, InsertAction(r)
        PROVE  \E cam \in Cameras, c \in Contributors, row \in Row : Adds(cam, c, row)
    <3>1. /\ ~At(r, "idle") /\ nextId \in Nat /\ req[r].now \in Nat /\ Store(r, nextId, req[r].now)
          /\ UnderRecordCap(req[r].cam, req[r].type, req[r].now) /\ clock' = clock
      BY <1>0, <2>1 DEF InsertAction, At, TypeOK, Request
    <3> QED
      BY <1>1, <3>1
  <2>2. ASSUME NEW r \in Requests, SwitchAction(r)
        PROVE  \E cam \in Cameras, c \in Contributors, row \in Row : Adds(cam, c, row)
    <3>1. ~At(r, "idle") /\ req[r].who \in Contributors /\ req[r].cam \in Cameras
      BY <1>0, <2>2 DEF SwitchAction, At, TypeOK, Request
    <3>2. Standing(r) \in Row
      BY <1>0, <2>2, <3>1 DEF SwitchAction, Standing, Table
    <3>3. Standing(r).id \in Nat /\ Standing(r).created \in Nat
      BY <3>2 DEF Row
    <3>4. /\ Store(r, Standing(r).id, Standing(r).created)
          /\ UnderRecordCap(req[r].cam, req[r].type, req[r].now) /\ clock' = clock
      BY <2>2 DEF SwitchAction, SwitchFits
    <3> QED
      BY <1>1, <3>1, <3>3, <3>4
  <2>3. ASSUME NEW r \in Requests, NEW c \in Contributors, NEW cam \in Cameras, Withdraw(r, c, cam)
        PROVE  OnlyRemoves
    BY <1>3, <2>3 DEF Withdraw
  <2>4. ASSUME NEW r \in Requests, NEW c \in Contributors, EraseContributor(r, c) PROVE OnlyRemoves
    BY <1>0, <2>4 DEF EraseContributor, OnlyRemoves, Table
  <2>5. ASSUME NEW r \in Requests, RecordTransition(r) PROVE OnlyRemoves
    BY <1>0, <2>5 DEF RecordTransition, OnlyRemoves, WithoutVotes
  <2>6. CASE Tick
    BY <1>0, <2>6 DEF Tick, OnlyRemoves
  <2>7. ASSUME NEW r \in Requests, NEW c \in Contributors, NEW cam \in Cameras, NEW t \in Offered,
               Begin(r, c, cam, t)
        PROVE  OnlyRemoves
    BY <1>2, <2>7 DEF Begin
  <2>8. ASSUME NEW r \in Requests,
               CountContributions(r) \/ FoundOtherAction(r) \/ RefuseInsert(r) \/ RefuseSwitch(r)
                 \/ RefreshVerified(r) \/ ReadStatus(r) \/ ReadStats(r) \/ CheckCooldown(r)
                 \/ CompareAndSwap(r) \/ LoseSwap(r) \/ FailRequest(r)
        PROVE  OnlyRemoves
    BY <1>2, <2>8 DEF CountContributions, FoundOtherAction, RefuseInsert, RefuseSwitch, RefreshVerified,
       ReadStatus, ReadStats, CheckCooldown, CompareAndSwap, LoseSwap, FailRequest
  <2> QED
    BY <1>4, <2>1, <2>2, <2>3, <2>4, <2>5, <2>6, <2>7, <2>8 DEF Next, Step, Unreliable
<1>5. ASSUME NEW s \in Toggles, ToggleOn(s)
      PROVE  \E cam \in Cameras, c \in Contributors, row \in Row : Adds(cam, c, row)
  <2>1. /\ toggle[s].who \in Contributors /\ toggle[s].cam \in Cameras
        /\ toggle[s].now \in 0..clock /\ toggle[s].weight \in Weights
    BY <1>0, <1>5 DEF ToggleOn, Addressed, ToggleRequest, AliasInv, AliasTypeOK, NowsPast
  <2>2. PICK row : row = [id |-> nextId, type |-> "confirm", weight |-> toggle[s].weight,
                          created |-> toggle[s].now, updated |-> toggle[s].now]
    OBVIOUS
  <2>3. row \in Row /\ row.type = "confirm"
    BY <1>0, <2>1, <2>2 DEF Row, Actions, TypeOK
  <2>4. Adds(toggle[s].cam, toggle[s].who, row)
    BY <1>5, <2>1, <2>2, <2>3 DEF Adds, ToggleOn
  <2> QED
    BY <2>1, <2>3, <2>4
<1>6. ASSUME NEW s \in Toggles, NEW c \in Contributors, NEW cam \in Cameras, ToggleOff(s, c, cam)
      PROVE  OnlyRemoves
  BY <1>3, <1>6 DEF ToggleOff
<1>7. ASSUME NEW s \in Toggles, NEW c \in Contributors, NEW cam \in Cameras, BeginToggle(s, c, cam)
      PROVE  OnlyRemoves
  BY <1>2, <1>7 DEF BeginToggle
<1>8. ASSUME NEW s \in Toggles, CheckPublic(s) \/ CheckLevel(s) \/ RefuseToggle(s) PROVE OnlyRemoves
  BY <1>2, <1>8 DEF CheckPublic, CheckLevel, RefuseToggle, vars
<1>9. CASE UNCHANGED aliasVars
  BY <1>2, <1>9 DEF aliasVars, vars
<1> QED
  BY <1>4, <1>5, <1>6, <1>7, <1>8, <1>9 DEF AliasNext, ToggleStep

\* Seen from later, fewer votes are recent.
LEMMA WindowMoves ==
    ASSUME rows \in [Cameras -> Table], NEW cam \in Cameras, NEW t \in Actions,
           NEW early \in Nat, NEW late \in Nat, early <= late
    PROVE  RecentOn(cam, t, late) \subseteq RecentOn(cam, t, early)
<1> SUFFICES ASSUME NEW c \in RecentOn(cam, t, late) PROVE c \in RecentOn(cam, t, early)
  OBVIOUS
<1>1. c \in Voters(rows[cam], t) /\ rows[cam][c] # NoRow /\ rows[cam][c].created >= late - Day
  BY DEF RecentOn, Recent
<1>2. rows[cam][c] \in Row
  BY <1>1 DEF Voters, Table
<1>3. rows[cam][c].created \in Nat /\ Day \in Nat
  BY <1>2, SettingsAssumption DEF Row
<1>4. rows[cam][c].created >= early - Day
  BY <1>1, <1>3
<1> QED
  BY <1>1, <1>4 DEF RecentOn, Recent

LEMMA CapStep ==
    ASSUME AliasInv, [AliasNext]_aliasVars
    PROVE  SharedCapHolds'
<1>0. TypeOK /\ clock \in Nat /\ rows \in [Cameras -> Table]
  BY DEF AliasInv, AliasTypeOK, TypeOK
<1>1. /\ PerRecordPerDay \in Nat /\ ConfirmationsPerRecord \in Nat /\ Day \in Nat
  BY SettingsAssumption, AliasAssumption
<1> SUFFICES ASSUME NEW cam \in Cameras, NEW t \in Actions
             PROVE  \/ Cardinality(RecentOn(cam, t, clock)') <= PerRecordPerDay
                    \/ t = "confirm" /\ Cardinality(RecentOn(cam, t, clock)') <= ConfirmationsPerRecord
  BY DEF SharedCapHolds
<1>2. \A S \in SUBSET Contributors : IsFiniteSet(S) /\ Cardinality(S) \in Nat
  BY ContributorsAssumption, FS_Subset, FS_CardinalityType
<1>3. /\ RecentOn(cam, t, clock)' \subseteq Contributors
      /\ \A now : RecentOn(cam, t, now) \subseteq Contributors
  BY DEF RecentOn, Voters
<1>4. ASSUME RecentOn(cam, t, clock)' \subseteq RecentOn(cam, t, clock)
      PROVE  \/ Cardinality(RecentOn(cam, t, clock)') <= PerRecordPerDay
             \/ t = "confirm" /\ Cardinality(RecentOn(cam, t, clock)') <= ConfirmationsPerRecord
  <2>1. Cardinality(RecentOn(cam, t, clock)') <= Cardinality(RecentOn(cam, t, clock))
    BY <1>3, <1>4, ContributorCount
  <2>2. \/ Cardinality(RecentOn(cam, t, clock)) <= PerRecordPerDay
        \/ t = "confirm" /\ Cardinality(RecentOn(cam, t, clock)) <= ConfirmationsPerRecord
    BY DEF AliasInv, SharedCapHolds
  <2>3. PICK a, b : a = Cardinality(RecentOn(cam, t, clock)') /\ b = Cardinality(RecentOn(cam, t, clock))
    OBVIOUS
  <2>4. a \in Nat /\ b \in Nat
    BY <1>2, <1>3, <2>3
  <2> QED
    BY <1>1, <2>1, <2>2, <2>3, <2>4
<1>5. CASE OnlyRemoves
  <2>1. RecentOn(cam, t, clock)' \subseteq RecentOn(cam, t, clock)
    <3> SUFFICES ASSUME NEW c \in RecentOn(cam, t, clock)' PROVE c \in RecentOn(cam, t, clock)
      OBVIOUS
    <3>1. /\ c \in Contributors /\ rows'[cam][c] # NoRow /\ rows'[cam][c].type = t
          /\ rows'[cam][c].created >= clock' - Day
      BY DEF RecentOn, Voters, Recent
    <3>2. rows'[cam][c] = rows[cam][c] /\ clock' \in Nat /\ clock <= clock'
      BY <1>5, <3>1 DEF OnlyRemoves
    <3>3. rows[cam][c] \in Row
      BY <1>0, <3>1, <3>2 DEF Table
    <3>4. rows[cam][c].created \in Nat
      BY <3>3 DEF Row
    <3>5. rows[cam][c].created >= clock - Day
      BY <1>0, <1>1, <3>1, <3>2, <3>4
    <3> QED
      BY <3>1, <3>2, <3>5 DEF RecentOn, Voters, Recent
  <2> QED
    BY <1>4, <2>1
<1>6. ASSUME NEW k \in Cameras, NEW c \in Contributors, NEW row \in Row, Adds(k, c, row)
      PROVE  \/ Cardinality(RecentOn(cam, t, clock)') <= PerRecordPerDay
             \/ t = "confirm" /\ Cardinality(RecentOn(cam, t, clock)') <= ConfirmationsPerRecord
  <2>1. /\ rows' = [rows EXCEPT ![k][c] = row] /\ clock' = clock
    BY <1>6 DEF Adds
  <2>2. rows' = [rows EXCEPT ![k] = [rows[k] EXCEPT ![c] = row]]
    BY <2>1
  <2>3. rows[cam] \in Table /\ rows[k] \in Table
    BY <1>0
  <2>4. \A d \in Contributors : rows'[cam][d] = IF cam = k /\ d = c THEN row ELSE rows[cam][d]
    BY <1>0, <2>2, <2>3 DEF Table
  <2>5. CASE ~(cam = k /\ t = row.type)
    <3>1. RecentOn(cam, t, clock)' \subseteq RecentOn(cam, t, clock)
      BY <2>1, <2>4, <2>5 DEF RecentOn, Voters, Recent
    <3> QED
      BY <1>4, <3>1
  <2>6. CASE cam = k /\ t = row.type
    <3>1. PICK now \in 0..clock : \/ UnderRecordCap(cam, t, now)
                                  \/ t = "confirm" /\ UnderToggleCap(cam, now)
      BY <1>6, <2>6 DEF Adds
    <3>2. RecentOn(cam, t, clock) \subseteq RecentOn(cam, t, now)
      BY <1>0, <3>1, WindowMoves
    <3>3. RecentOn(cam, t, clock)' \subseteq RecentOn(cam, t, clock) \cup {c}
      BY <2>1, <2>4 DEF RecentOn, Voters, Recent
    <3> DEFINE before == RecentOn(cam, t, now)
    <3>4. /\ IsFiniteSet(before) /\ before \subseteq Contributors /\ Cardinality(before) \in Nat
      BY <1>2, <1>3
    <3>5. Cardinality(before \cup {c}) <= Cardinality(before) + 1
      <4> HIDE DEF before
      <4>1. Cardinality(before \cup {c}) = IF c \in before THEN Cardinality(before)
                                                          ELSE Cardinality(before) + 1
        BY <3>4, FS_AddElement
      <4> QED
        BY <3>4, <4>1
    <3>6. before \cup {c} \subseteq Contributors /\ RecentOn(cam, t, clock)' \subseteq before \cup {c}
      BY <3>2, <3>3, <3>4
    <3>7. Cardinality(RecentOn(cam, t, clock)') <= Cardinality(before \cup {c})
      BY <3>6, ContributorCount
    <3>8. \/ Cardinality(before) < PerRecordPerDay
          \/ t = "confirm" /\ Cardinality(before) < ConfirmationsPerRecord
      BY <3>1 DEF UnderRecordCap, UnderToggleCap
    <3>9. PICK x, y, z : /\ x = Cardinality(RecentOn(cam, t, clock)')
                         /\ y = Cardinality(before \cup {c}) /\ z = Cardinality(before)
      OBVIOUS
    <3>10. x \in Nat /\ y \in Nat /\ z \in Nat
      BY <1>2, <1>3, <3>4, <3>6, <3>9
    <3> HIDE DEF before
    <3> QED
      BY <1>1, <3>5, <3>7, <3>8, <3>9, <3>10
  <2> QED
    BY <2>5, <2>6
<1> QED
  BY <1>5, <1>6, VoteWriters

\* No interleaving of inserts, switches and toggles puts more actions of one type on
\* a record within a day than the cap, although every statement counts from the time
\* its own request began.
THEOREM CapShared == AliasSpec => []SharedCapHolds
<1>1. AliasInit => AliasInv
  BY AliasInitType
<1>2. AliasInv /\ [AliasNext]_aliasVars => AliasInv'
  BY AliasTypeNext, CapStep DEF AliasInv
<1>3. AliasInv => SharedCapHolds
  BY DEF AliasInv
<1> QED
  BY <1>1, <1>2, <1>3, PTL DEF AliasSpec
-----------------------------------------------------------------------------
(* The books of the community lane.                                        *)

\* The recorded transitions of a record that enter, or leave, a status, and the winners
\* that have not recorded theirs.
RecordedInto(cam, s) == {i \in DOMAIN timeline[cam] : Rules[timeline[cam][i].rule].to = s}
RecordedOutOf(cam, s) == {i \in DOMAIN timeline[cam] : Rules[timeline[cam][i].rule].from = s}
WinnersInto(cam, s) == {r \in Winners(cam) : Rules[req[r].rule].to = s}
WinnersOutOf(cam, s) == {r \in Winners(cam) : Rules[req[r].rule].from = s}

\* One more of a finite set, if b.
LEMMA CountBy ==
    ASSUME NEW S, IsFiniteSet(S), NEW x, x \notin S, NEW b \in BOOLEAN,
           NEW T, T = S \cup {y \in {x} : b}
    PROVE  Cardinality(S) \in Nat /\ Cardinality(T) = Cardinality(S) + One(b)
<1>1. Cardinality(S) \in Nat
  BY FS_CardinalityType
<1>2. CASE b
  <2>1. T = S \cup {x}
    BY <1>2
  <2>2. Cardinality(S \cup {x}) = IF x \in S THEN Cardinality(S) ELSE Cardinality(S) + 1
    BY FS_AddElement
  <2> QED
    BY <1>1, <1>2, <2>1, <2>2 DEF One
<1>3. CASE ~b
  <2>1. T = S
    BY <1>3
  <2> QED
    BY <1>1, <1>3, <2>1 DEF One
<1> QED
  BY <1>2, <1>3

\* What is counted is finite.
LEMMA BooksFinite ==
    ASSUME TypeOK, NEW cam \in Cameras, NEW s \in Statuses
    PROVE  /\ IsFiniteSet(RecordedInto(cam, s)) /\ IsFiniteSet(RecordedOutOf(cam, s))
           /\ IsFiniteSet(WinnersInto(cam, s)) /\ IsFiniteSet(WinnersOutOf(cam, s))
           /\ IsFiniteSet(WinnersInto(cam, s)') /\ IsFiniteSet(WinnersOutOf(cam, s)')
<1>1. /\ WinnersInto(cam, s) \subseteq Requests /\ WinnersOutOf(cam, s) \subseteq Requests
      /\ WinnersInto(cam, s)' \subseteq Requests /\ WinnersOutOf(cam, s)' \subseteq Requests
  BY DEF WinnersInto, WinnersOutOf, Winners
<1>2. IsFiniteSet(Requests)
  BY BoundsAssumption
<1>3. PICK tl \in Seq(Event) : tl = timeline[cam]
  BY DEF TypeOK
<1>4. IsFiniteSet(DOMAIN timeline[cam])
  <2>1. 1 \in Int /\ Len(tl) \in Int
    OBVIOUS
  <2>2. IsFiniteSet(1..Len(tl))
    BY <2>1, FS_Interval
  <2> QED
    BY <1>3, <2>2
<1>5. /\ RecordedInto(cam, s) \subseteq DOMAIN timeline[cam]
      /\ RecordedOutOf(cam, s) \subseteq DOMAIN timeline[cam]
  BY DEF RecordedInto, RecordedOutOf
<1> QED
  BY <1>1, <1>2, <1>4, <1>5, FS_Subset

\* Every other step leaves the winners and what they will record alone.
LEMMA OthersKeepBooks ==
    ASSUME TypeOK, ~CallsCanFail, [Next]_vars,
           \A r \in Requests : ~CompareAndSwap(r) /\ ~RecordTransition(r)
    PROVE  /\ UNCHANGED <<status, timeline>>
           /\ \A s \in Requests : \/ req'[s] = req[s]
                                  \/ req[s].pc # "record" /\ req'[s].pc # "record"
<1> DEFINE Spared == \A s \in Requests : \/ req'[s] = req[s]
                                         \/ req[s].pc # "record" /\ req'[s].pc # "record"
<1>1. UNCHANGED <<status, timeline>>
  BY DEF Next, Unreliable, Step, Begin, CountContributions, InsertAction, FoundOtherAction,
         RefuseInsert, SwitchAction, RefuseSwitch, RefreshVerified, ReadStatus, ReadStats,
         CheckCooldown, LoseSwap, Withdraw, EraseContributor, Tick, vars
<1>2. ASSUME NEW r \in Requests, req[r].pc # "record", Finish(r)
      PROVE  Spared
  BY <1>2 DEF Finish, Idle, Locals, TypeOK
<1>3. ASSUME NEW r \in Requests, NEW pc \in PCs \ {"record"}, req[r].pc # "record", Goto(r, pc)
      PROVE  Spared
  BY <1>3 DEF Goto, TypeOK, Request
<1>4. ASSUME NEW r \in Requests, CountContributions(r) \/ ReadStatus(r) \/ ReadStats(r)
      PROVE  Spared
  <2>1. req[r] \in Request /\ req[r].pc # "record"
    BY <1>4 DEF CountContributions, ReadStatus, ReadStats, At, TypeOK
  <2>2. CASE Finish(r)
    BY <1>2, <2>1, <2>2
  <2>3. CASE ~Finish(r)
    <3>1. ASSUME CountContributions(r) \/ ReadStatus(r)
          PROVE  req'[r].pc # "record"
      BY <2>1, <3>1 DEF CountContributions, ReadStatus, TypeOK, Request
    <3>2. ASSUME ReadStats(r)
          PROVE  req'[r].pc # "record"
      <4>1. \E i \in 1..6, pc \in {"cooldown", "cas"} : \E votes :
              req' = [req EXCEPT ![r].pc = pc, ![r].rule = i, ![r].counted = votes]
        BY <2>3, <3>2 DEF ReadStats, FirstMet
      <4> QED
        BY <2>1, <4>1 DEF TypeOK, Request
    <3>3. req'[r].pc # "record"
      BY <1>4, <2>1, <2>3, <3>1, <3>2
    <3>4. \A s \in Requests \ {r} : req'[s] = req[s]
      BY <1>4, <2>3 DEF CountContributions, ReadStatus, ReadStats, TypeOK
    <3> QED
      BY <2>1, <3>3, <3>4
  <2> QED
    BY <2>2, <2>3
<1>5. ASSUME NEW r \in Requests,
             InsertAction(r) \/ SwitchAction(r) \/ FoundOtherAction(r) \/ RefreshVerified(r)
      PROVE  Spared
  <2>1. req[r].pc # "record" /\ \E pc \in PCs \ {"record"} : Goto(r, pc)
    BY <1>5 DEF InsertAction, SwitchAction, FoundOtherAction, RefreshVerified, Store, AfterWrite,
                PCs, At
  <2> QED
    BY <1>3, <2>1
<1>6. ASSUME NEW r \in Requests, CheckCooldown(r)
      PROVE  Spared
  <2>1. req[r].pc # "record" /\ (Finish(r) \/ Goto(r, "cas"))
    BY <1>6 DEF CheckCooldown, At
  <2> QED
    BY <1>2, <1>3, <2>1 DEF PCs
<1>7. ASSUME NEW r \in Requests, RefuseInsert(r) \/ RefuseSwitch(r) \/ LoseSwap(r)
      PROVE  Spared
  <2>1. req[r].pc # "record" /\ Finish(r)
    BY <1>7 DEF RefuseInsert, RefuseSwitch, LoseSwap, At
  <2> QED
    BY <1>2, <2>1
<1>8. ASSUME NEW r \in Requests, NEW c \in Contributors, NEW cam \in Cameras, NEW t \in Offered,
             Begin(r, c, cam, t)
      PROVE  Spared
  BY <1>8 DEF Begin, Locals, TypeOK, At
<1>9. ASSUME Tick \/ UNCHANGED vars \/ \E r \in Requests, c \in Contributors :
               EraseContributor(r, c) \/ \E cam \in Cameras : Withdraw(r, c, cam)
      PROVE  Spared
  BY <1>9 DEF Tick, vars, EraseContributor, Withdraw
<1>10. Unreliable = {}
  BY DEF Unreliable
<1>11. Spared
  BY <1>4, <1>5, <1>6, <1>7, <1>8, <1>9, <1>10 DEF Next, Step
<1> QED
  BY <1>1, <1>11

\* Such a step leaves the books alone.
LEMMA BooksKept ==
    ASSUME TypeOK, AuditBalances, UNCHANGED <<status, timeline>>,
           \A s \in Requests : \/ req'[s] = req[s]
                               \/ req[s].pc # "record" /\ req'[s].pc # "record"
    PROVE  AuditBalances'
<1> SUFFICES ASSUME NEW cam \in Cameras, NEW s \in Statuses
             PROVE  One(InitialStatus[cam] = s) + Into(cam, s)'
                      = OutOf(cam, s)' + One(status'[cam] = s)
  BY DEF AuditBalances
<1>1. Winners(cam)' = Winners(cam) /\ \A r \in Winners(cam) : req'[r] = req[r]
  BY DEF Winners, At
<1>2. WinnersInto(cam, s)' = WinnersInto(cam, s) /\ WinnersOutOf(cam, s)' = WinnersOutOf(cam, s)
  BY <1>1 DEF WinnersInto, WinnersOutOf
<1>3. Into(cam, s)' = Into(cam, s) /\ OutOf(cam, s)' = OutOf(cam, s)
  BY <1>2 DEF Into, OutOf, WinnersInto, WinnersOutOf
<1> QED
  BY <1>3 DEF AuditBalances

\* A swap enters one status and leaves another, and its winner is to record it.
LEMMA SwapBalances ==
    ASSUME TypeOK, FromTheRule, AuditBalances, NEW r \in Requests, CompareAndSwap(r)
    PROVE  AuditBalances'
<1> SUFFICES ASSUME NEW cam \in Cameras, NEW s \in Statuses
             PROVE  One(InitialStatus[cam] = s) + Into(cam, s)'
                      = OutOf(cam, s)' + One(status'[cam] = s)
  BY DEF AuditBalances
<1>1. PICK i \in 1..6, at \in Cameras : i = req[r].rule /\ at = req[r].cam
  BY DEF CompareAndSwap, At, TypeOK, Request
<1>2. /\ req[r].pc = "cas" /\ status[at] = Rules[i].from
      /\ status' = [status EXCEPT ![at] = Rules[i].to] /\ timeline' = timeline
  BY <1>1 DEF CompareAndSwap, StatusAsRead, FromTheRule, At
<1>3. /\ req'[r].pc = "record" /\ req'[r].rule = i /\ req'[r].cam = at
      /\ \A q \in Requests \ {r} : req'[q] = req[q]
  BY <1>1 DEF CompareAndSwap, Goto, TypeOK, Request
<1> DEFINE into == cam = at /\ Rules[i].to = s
           outOf == cam = at /\ Rules[i].from = s
<1>4. /\ r \notin Winners(cam) /\ Winners(cam)' = Winners(cam) \cup {y \in {r} : cam = at}
      /\ Winners(cam) \subseteq Requests \ {r}
  BY <1>2, <1>3 DEF Winners, At
<1>5. /\ WinnersInto(cam, s)' = WinnersInto(cam, s) \cup {y \in {r} : into}
      /\ WinnersOutOf(cam, s)' = WinnersOutOf(cam, s) \cup {y \in {r} : outOf}
  BY <1>3, <1>4 DEF WinnersInto, WinnersOutOf
<1>6. r \notin WinnersInto(cam, s) /\ r \notin WinnersOutOf(cam, s)
  BY <1>4 DEF WinnersInto, WinnersOutOf
<1> HIDE DEF into, outOf
<1>7. into \in BOOLEAN /\ outOf \in BOOLEAN
  BY DEF into, outOf
<1>8. /\ Cardinality(WinnersInto(cam, s)) \in Nat
      /\ Cardinality(WinnersInto(cam, s)') = Cardinality(WinnersInto(cam, s)) + One(into)
  BY <1>5, <1>6, <1>7, BooksFinite, CountBy
<1>9. /\ Cardinality(WinnersOutOf(cam, s)) \in Nat
      /\ Cardinality(WinnersOutOf(cam, s)') = Cardinality(WinnersOutOf(cam, s)) + One(outOf)
  BY <1>5, <1>6, <1>7, BooksFinite, CountBy
<1>10. /\ Cardinality(RecordedInto(cam, s)) \in Nat /\ Cardinality(RecordedOutOf(cam, s)) \in Nat
       /\ RecordedInto(cam, s)' = RecordedInto(cam, s)
       /\ RecordedOutOf(cam, s)' = RecordedOutOf(cam, s)
  BY <1>2, BooksFinite, FS_CardinalityType DEF RecordedInto, RecordedOutOf
<1>11. /\ Into(cam, s) = Cardinality(RecordedInto(cam, s)) + Cardinality(WinnersInto(cam, s))
       /\ OutOf(cam, s) = Cardinality(RecordedOutOf(cam, s)) + Cardinality(WinnersOutOf(cam, s))
       /\ Into(cam, s)' = Cardinality(RecordedInto(cam, s)') + Cardinality(WinnersInto(cam, s)')
       /\ OutOf(cam, s)' = Cardinality(RecordedOutOf(cam, s)') + Cardinality(WinnersOutOf(cam, s)')
  BY DEF Into, OutOf, RecordedInto, RecordedOutOf, WinnersInto, WinnersOutOf
<1>12. One(InitialStatus[cam] = s) + Into(cam, s) = OutOf(cam, s) + One(status[cam] = s)
  BY DEF AuditBalances
<1>13. One(into) + One(status[cam] = s) = One(outOf) + One(status'[cam] = s)
  BY <1>2 DEF into, outOf, One, TypeOK
<1> QED
  <2>1. \A b \in BOOLEAN : One(b) \in Nat
    BY DEF One
  <2>2. /\ One(InitialStatus[cam] = s) \in Nat /\ One(status[cam] = s) \in Nat
        /\ One(status'[cam] = s) \in Nat /\ One(into) \in Nat /\ One(outOf) \in Nat
    BY <1>7, <2>1
  <2> QED
    BY <1>8, <1>9, <1>10, <1>11, <1>12, <1>13, <2>2

\* The batch of a winner moves its transition from the one column to the other.
LEMMA RecordBalances ==
    ASSUME TypeOK, AuditBalances, NEW r \in Requests, RecordTransition(r)
    PROVE  AuditBalances'
<1> SUFFICES ASSUME NEW cam \in Cameras, NEW s \in Statuses
             PROVE  One(InitialStatus[cam] = s) + Into(cam, s)'
                      = OutOf(cam, s)' + One(status'[cam] = s)
  BY DEF AuditBalances
<1>1. PICK i \in 1..6, at \in Cameras : i = req[r].rule /\ at = req[r].cam
  BY DEF RecordTransition, At, TypeOK, Request
<1>2. /\ req[r].pc = "record" /\ status' = status
      /\ req'[r].pc = "idle" /\ \A q \in Requests \ {r} : req'[q] = req[q]
  BY DEF RecordTransition, At, Finish, Idle, Locals, TypeOK
<1>3. PICK e : /\ e.rule = i
               /\ timeline' = [timeline EXCEPT ![at] = Append(@, e)]
  BY <1>1 DEF RecordTransition
<1>4. PICK tl \in Seq(Event) : tl = timeline[cam]
  BY DEF TypeOK
<1>5. timeline'[cam] = IF cam = at THEN Append(tl, e) ELSE tl
  BY <1>3, <1>4 DEF TypeOK
<1> DEFINE into == cam = at /\ Rules[i].to = s
           outOf == cam = at /\ Rules[i].from = s
           n == Len(tl) + 1
<1>6. /\ r \notin Winners(cam)' /\ Winners(cam) = Winners(cam)' \cup {y \in {r} : cam = at}
      /\ Winners(cam)' \subseteq Requests \ {r}
  BY <1>1, <1>2 DEF Winners, At
<1>7. /\ WinnersInto(cam, s) = WinnersInto(cam, s)' \cup {y \in {r} : into}
      /\ WinnersOutOf(cam, s) = WinnersOutOf(cam, s)' \cup {y \in {r} : outOf}
  BY <1>1, <1>2, <1>6 DEF WinnersInto, WinnersOutOf
<1>8. r \notin WinnersInto(cam, s)' /\ r \notin WinnersOutOf(cam, s)'
  BY <1>6 DEF WinnersInto, WinnersOutOf
<1>9. /\ n \notin DOMAIN tl
      /\ DOMAIN timeline'[cam] = DOMAIN tl \cup {y \in {n} : cam = at}
      /\ \A k \in DOMAIN tl : timeline'[cam][k] = tl[k]
      /\ cam = at => timeline'[cam][n] = e
  BY <1>4, <1>5
<1>10. /\ RecordedInto(cam, s)' = RecordedInto(cam, s) \cup {y \in {n} : into}
       /\ RecordedOutOf(cam, s)' = RecordedOutOf(cam, s) \cup {y \in {n} : outOf}
       /\ n \notin RecordedInto(cam, s) /\ n \notin RecordedOutOf(cam, s)
  <2> HIDE DEF n
  <2> QED
    BY <1>3, <1>4, <1>9 DEF RecordedInto, RecordedOutOf
<1> HIDE DEF into, outOf, n
<1>11. into \in BOOLEAN /\ outOf \in BOOLEAN
  BY DEF into, outOf
<1>12. /\ Cardinality(WinnersInto(cam, s)') \in Nat
       /\ Cardinality(WinnersInto(cam, s)) = Cardinality(WinnersInto(cam, s)') + One(into)
  BY <1>7, <1>8, <1>11, BooksFinite, CountBy
<1>13. /\ Cardinality(WinnersOutOf(cam, s)') \in Nat
       /\ Cardinality(WinnersOutOf(cam, s)) = Cardinality(WinnersOutOf(cam, s)') + One(outOf)
  BY <1>7, <1>8, <1>11, BooksFinite, CountBy
<1>14. /\ Cardinality(RecordedInto(cam, s)) \in Nat
       /\ Cardinality(RecordedInto(cam, s)') = Cardinality(RecordedInto(cam, s)) + One(into)
  BY <1>10, <1>11, BooksFinite, CountBy
<1>15. /\ Cardinality(RecordedOutOf(cam, s)) \in Nat
       /\ Cardinality(RecordedOutOf(cam, s)') = Cardinality(RecordedOutOf(cam, s)) + One(outOf)
  BY <1>10, <1>11, BooksFinite, CountBy
<1>16. /\ Into(cam, s) = Cardinality(RecordedInto(cam, s)) + Cardinality(WinnersInto(cam, s))
       /\ OutOf(cam, s) = Cardinality(RecordedOutOf(cam, s)) + Cardinality(WinnersOutOf(cam, s))
       /\ Into(cam, s)' = Cardinality(RecordedInto(cam, s)') + Cardinality(WinnersInto(cam, s)')
       /\ OutOf(cam, s)' = Cardinality(RecordedOutOf(cam, s)') + Cardinality(WinnersOutOf(cam, s)')
  BY DEF Into, OutOf, RecordedInto, RecordedOutOf, WinnersInto, WinnersOutOf
<1>17. One(into) \in Nat /\ One(outOf) \in Nat
  BY DEF One
<1>18. One(InitialStatus[cam] = s) + Into(cam, s) = OutOf(cam, s) + One(status'[cam] = s)
  BY <1>2 DEF AuditBalances
<1>19. Into(cam, s)' = Into(cam, s) /\ OutOf(cam, s)' = OutOf(cam, s)
  BY <1>12, <1>13, <1>14, <1>15, <1>16, <1>17
<1> QED
  BY <1>18, <1>19

\* At the start nothing was entered or left.
LEMMA BooksOpen ==
    ASSUME Init
    PROVE  AuditBalances
<1> SUFFICES ASSUME NEW cam \in Cameras, NEW s \in Statuses
             PROVE  One(InitialStatus[cam] = s) + Into(cam, s)
                      = OutOf(cam, s) + One(status[cam] = s)
  BY DEF AuditBalances
<1>1. /\ RecordedInto(cam, s) = {} /\ RecordedOutOf(cam, s) = {}
      /\ WinnersInto(cam, s) = {} /\ WinnersOutOf(cam, s) = {}
  BY DEF Init, RecordedInto, RecordedOutOf, WinnersInto, WinnersOutOf, Winners, At, Idle, Locals
<1>2. Into(cam, s) = 0 /\ OutOf(cam, s) = 0
  <2>1. /\ Into(cam, s) = Cardinality(RecordedInto(cam, s)) + Cardinality(WinnersInto(cam, s))
        /\ OutOf(cam, s) = Cardinality(RecordedOutOf(cam, s)) + Cardinality(WinnersOutOf(cam, s))
    BY DEF Into, OutOf, RecordedInto, RecordedOutOf, WinnersInto, WinnersOutOf
  <2> QED
    BY <1>1, <2>1, FS_EmptySet
<1>3. One(InitialStatus[cam] = s) \in Nat /\ status[cam] = InitialStatus[cam]
  BY DEF One, Init
<1> QED
  BY <1>2, <1>3

\* As long as no call fails between the swap and its batch, the books of every record
\* balance, whatever evaluators race: recorded and still unrecorded transitions lead from its
\* first status to its current one (the order of statements in evaluateCommunityThresholds).
THEOREM BooksBalance ==
    ASSUME ~CallsCanFail
    PROVE  Spec => []AuditBalances
<1>1. Init => FromTheRule /\ AuditBalances
  <2>1. Init => FromTheRule
    BY DEF Init, FromTheRule, Idle, Locals
  <2> QED
    BY <2>1, BooksOpen
<1>2. TypeOK /\ FromTheRule /\ AuditBalances /\ [Next]_vars => (FromTheRule /\ AuditBalances)'
  <2> SUFFICES ASSUME TypeOK, FromTheRule, AuditBalances, [Next]_vars
               PROVE  FromTheRule' /\ AuditBalances'
    OBVIOUS
  <2>1. FromTheRule'
    BY FromTheRuleNext
  <2>2. CASE \E r \in Requests : CompareAndSwap(r)
    BY <2>1, <2>2, SwapBalances
  <2>3. CASE \E r \in Requests : RecordTransition(r)
    BY <2>1, <2>3, RecordBalances
  <2>4. CASE \A r \in Requests : ~CompareAndSwap(r) /\ ~RecordTransition(r)
    BY <2>1, <2>4, OthersKeepBooks, BooksKept
  <2> QED
    BY <2>2, <2>3, <2>4
<1> QED
  BY <1>1, <1>2, TypeCorrect, PTL DEF Spec
-----------------------------------------------------------------------------
(* Requests that do not overlap implement RecordConsensus.  What the       *)
(* refinement mapping reads is named here as a function of one table, one  *)
(* timeline or one request's locals, so that it can be said of two states. *)

\* One slot, whose calls do not fail.
Serial == (\A r, s \in Requests : r = s) /\ ~CallsCanFail

\* A row without its id and dates.
Bare(row) == IF row = NoRow THEN NoRow ELSE [type |-> row.type, weight |-> row.weight]

Date(rule, at) == IF Rules[rule].trigger = "privacy" THEN at ELSE -1
Hides(event) == Rules[event.rule].to = "hidden"
Latest(line) ==
    {i \in DOMAIN line : Hides(line[i]) /\ \A j \in DOMAIN line : Hides(line[j]) =>
       line[j].at < line[i].at \/ (line[j].at = line[i].at /\ j <= i)}
LastHidden(line) ==
    IF Latest(line) # {} THEN LET i == CHOOSE i \in Latest(line) : TRUE
                              IN  Date(line[i].rule, line[i].at)
    ELSE -1
Cooling(line, now) == \E i \in Latest(line) :
    Rules[line[i].rule].trigger = "privacy" /\ now - line[i].at < PrivacyCooldown

BareVotes(tables) == [cam \in Cameras |-> [c \in Contributors |-> Bare(tables[cam][c])]]
HiddenDates(lines) == [cam \in Cameras |-> LastHidden(lines[cam])]

\* What the batch of a request that has won its record will leave.
Recorded(q) == [rule |-> q.rule, counted |-> q.counted, at |-> q.now]
TablesAfter(q, tables) ==
    [tables EXCEPT ![q.cam] = WithoutVotes(@, Rules[q.rule].trigger)]
LinesAfter(q, lines) == [lines EXCEPT ![q.cam] = Append(@, Recorded(q))]

\* The mapped variables, and how they read outside and inside a transition.
Votes == [cam \in Cameras |-> [c \in Contributors |-> VoteOf(cam, c)]]
Hidden == [cam \in Cameras |-> WithdrawnAt(cam)]
Mapping ==
    /\ (\A r \in Requests : ~At(r, "record")) =>
         Votes = BareVotes(rows) /\ Hidden = HiddenDates(timeline)
    /\ \A r \in Requests : At(r, "record") =>
         /\ Votes = BareVotes(TablesAfter(req[r], rows))
         /\ Hidden = HiddenDates(LinesAfter(req[r], timeline))

Restores(rule) == Rules[rule].from = "hidden" /\ Rules[rule].to = "active"

\* What a request under way may rely on, nobody else being at work: what it has
\* read is still so, and no recorded transition is younger than the request.
UpToDate(q, statuses, tables, lines, time) == q.pc # "idle" =>
    /\ q.now <= time
    /\ statuses[q.cam] # "demo"
    /\ \A cam \in Cameras : \A i \in DOMAIN lines[cam] : lines[cam][i].at <= q.now
    /\ q.pc \in {"stats", "cooldown", "cas"} => statuses[q.cam] = q.from
    /\ q.pc \in {"cooldown", "cas"} => Met(q.rule, q.from, tables[q.cam])
    /\ q.pc = "cas" /\ Restores(q.rule) => ~Cooling(lines[q.cam], q.now)

SerialInv ==
    /\ \A r \in Requests : UpToDate(req[r], status, rows, timeline, clock)
    /\ \A cam \in Cameras : \A i \in DOMAIN timeline[cam] : timeline[cam][i].at <= clock

LEMMA SerialInit == Init => SerialInv
BY DEF Init, SerialInv, UpToDate, Idle, Locals

\* IsLatestHidden finds the latest hidden event of the record's timeline.
LEMMA LatestHidden ==
    ASSUME NEW cam \in Cameras, NEW i
    PROVE  (i \in DOMAIN timeline[cam] /\ IsLatestHidden(cam, i)) <=> i \in Latest(timeline[cam])
BY DEF IsLatestHidden, HiddenEvents, Latest, Hides

LEMMA CoolingHere ==
    ASSUME NEW cam \in Cameras, NEW now
    PROVE  CoolingDown(cam, now) <=> Cooling(timeline[cam], now)
BY LatestHidden DEF CoolingDown, Cooling

\* An idle slot relies on nothing.
LEMMA IdleUpToDate ==
    ASSUME NEW statuses, NEW tables, NEW lines, NEW time
    PROVE  UpToDate(Idle, statuses, tables, lines, time)
BY DEF UpToDate, Idle, Locals

\* A candidate transition computed from what the request has read.
LEMMA CandidateUpToDate ==
    ASSUME NEW q, NEW p, NEW statuses, NEW tables, NEW lines, NEW time,
           UpToDate(q, statuses, tables, lines, time), q.pc = "stats",
           p.now = q.now, p.cam = q.cam, p.from = q.from,
           p.pc \in {"cooldown", "cas"}, p.pc = "cas" => ~Restores(p.rule),
           Met(p.rule, q.from, tables[q.cam])
    PROVE  UpToDate(p, statuses, tables, lines, time)
BY DEF UpToDate

LEMMA EventType ==
    ASSUME TypeOK, NEW cam \in Cameras, NEW i \in DOMAIN timeline[cam]
    PROVE  timeline[cam][i] \in Event /\ timeline[cam][i].at \in Nat
<1>1. timeline[cam] \in Seq(Event)
  BY DEF TypeOK
<1>2. timeline[cam][i] \in Event
  BY <1>1
<1> QED
  BY <1>2 DEF Event

LEMMA SerialNext ==
    ASSUME Serial, TypeOK, SerialInv, [Next]_vars
    PROVE  SerialInv'
<1>1. CASE UNCHANGED vars
  BY <1>1 DEF SerialInv, vars
<1>2. CASE Tick
  <2>1. /\ \A r \in Requests : UpToDate(req'[r], status', rows', timeline', clock')
        /\ \A cam \in Cameras : \A i \in DOMAIN timeline'[cam] : timeline'[cam][i].at <= clock'
    <3>1. clock \in Nat /\ clock' = clock + 1
      BY <1>2 DEF Tick, TypeOK
    <3>2. UNCHANGED <<status, rows, timeline, req>>
      BY <1>2 DEF Tick
    <3>3. ASSUME NEW r \in Requests
          PROVE  UpToDate(req'[r], status', rows', timeline', clock')
      <4>1. req[r].now \in Nat
        BY DEF TypeOK, Request
      <4>2. UpToDate(req[r], status, rows, timeline, clock)
        BY DEF SerialInv
      <4> QED
        BY <3>1, <3>2, <4>1, <4>2 DEF UpToDate
    <3>4. ASSUME NEW cam \in Cameras, NEW i \in DOMAIN timeline[cam]
          PROVE  timeline[cam][i].at <= clock'
      <4>1. timeline[cam][i].at \in Nat
        BY EventType
      <4> QED
        BY <3>1, <4>1 DEF SerialInv, TypeOK
    <3> QED
      BY <3>2, <3>3, <3>4
  <2> QED
    BY <2>1 DEF SerialInv
<1>3. ASSUME NEW r \in Requests,
             \/ \E c \in Contributors, cam \in Cameras, t \in Offered : Begin(r, c, cam, t)
             \/ Step(r)
             \/ \E c \in Contributors, cam \in Cameras : Withdraw(r, c, cam)
             \/ \E c \in Contributors : EraseContributor(r, c)
      PROVE  SerialInv'
  <2> DEFINE q == req[r]
  <2>a. /\ q \in Request /\ q.now \in Nat /\ clock \in Nat /\ q.rule \in 1..6
        /\ q.pc # "idle" => q.cam \in Cameras
    BY DEF TypeOK, Request
  <2>b. UpToDate(q, status, rows, timeline, clock)
    BY DEF SerialInv
  <2>c. \A cam \in Cameras : \A i \in DOMAIN timeline[cam] :
          timeline[cam][i].at \in Nat /\ timeline[cam][i].at <= clock
    BY EventType DEF SerialInv
  <2>d. \A s \in Requests : s = r
    BY DEF Serial
  <2>e. req \in [Requests -> Request]
    BY DEF TypeOK
  <2>f. ASSUME UpToDate(req'[r], status', rows', timeline', clock'),
               UNCHANGED <<timeline, clock>>
        PROVE  SerialInv'
    BY <2>c, <2>d, <2>f DEF SerialInv
  <2>g. ASSUME Finish(r), UNCHANGED <<timeline, clock>>
        PROVE  SerialInv'
    <3>1. req'[r] = Idle
      BY <2>e, <2>g DEF Finish
    <3> QED
      BY <2>f, <2>g, <3>1, IdleUpToDate
  <2>h. ASSUME At(r, "idle"), UNCHANGED <<timeline, clock, req>>
        PROVE  SerialInv'
    <3>1. req'[r].pc = "idle"
      BY <2>h DEF At
    <3> QED
      BY <2>f, <2>h, <3>1 DEF UpToDate
  <2> HIDE DEF q
  <2>1. CASE \E c \in Contributors, cam \in Cameras, t \in Offered : Begin(r, c, cam, t)
    <3> PICK c \in Contributors, cam \in Cameras, t \in Offered : Begin(r, c, cam, t)
      BY <2>1
    <3>1. req'[r] = Locals("count", c, cam, t, clock) /\ status[cam] # "demo"
      BY <2>e DEF Begin
    <3>2. UNCHANGED <<status, rows, timeline, clock>>
      BY DEF Begin
    <3>3. UpToDate(req'[r], status, rows, timeline, clock)
      BY <2>a, <2>c, <3>1 DEF UpToDate, Locals
    <3> QED
      BY <2>f, <3>2, <3>3
  <2>2. CASE \E c \in Contributors, cam \in Cameras : Withdraw(r, c, cam)
    BY <2>2, <2>h DEF Withdraw
  <2>3. CASE \E c \in Contributors : EraseContributor(r, c)
    BY <2>3, <2>h DEF EraseContributor
  <2>4. CASE CountContributions(r) \/ FoundOtherAction(r) \/ RefreshVerified(r)
             \/ InsertAction(r) \/ SwitchAction(r)
    <3>1. UNCHANGED <<status, timeline, clock>> /\ q.pc # "idle"
      BY <2>4 DEF CountContributions, FoundOtherAction, RefreshVerified,
         InsertAction, SwitchAction, At, q
    <3>2. /\ req'[r].now = q.now /\ req'[r].cam = q.cam
          /\ req'[r].pc \notin {"stats", "cooldown", "cas"}
      <4>1. CASE CountContributions(r)
        BY <2>e, <4>1 DEF CountContributions, q
      <4>2. CASE FoundOtherAction(r) \/ RefreshVerified(r)
        <5>1. \E pc \in {"switch", "status"} : req' = [req EXCEPT ![r].pc = pc]
          BY <4>2 DEF FoundOtherAction, RefreshVerified, Goto
        <5> QED
          BY <2>e, <5>1 DEF q
      <4>3. CASE InsertAction(r) \/ SwitchAction(r)
        <5>1. Goto(r, AfterWrite(q.type))
          BY <4>3 DEF InsertAction, SwitchAction, Store, q
        <5>2. AfterWrite(q.type) \in {"refresh", "status"}
          BY DEF AfterWrite
        <5> QED
          BY <2>e, <5>1, <5>2 DEF Goto, q
      <4> QED
        BY <2>4, <4>1, <4>2, <4>3
    <3>3. UpToDate(req'[r], status', rows', timeline', clock')
      BY <2>b, <3>1, <3>2 DEF UpToDate
    <3> QED
      BY <2>f, <3>1, <3>3
  <2>5. CASE RefuseInsert(r) \/ RefuseSwitch(r) \/ LoseSwap(r)
    BY <2>5, <2>g DEF RefuseInsert, RefuseSwitch, LoseSwap
  <2>6. CASE ReadStatus(r)
    <3>1. UNCHANGED <<status, rows, timeline, clock>> /\ q.pc = "status"
      BY <2>6 DEF ReadStatus, At, q
    <3>2. /\ req'[r].now = q.now /\ req'[r].cam = q.cam
          /\ req'[r].pc = "stats" /\ req'[r].from = status[q.cam]
      BY <2>6, <2>e DEF ReadStatus, q
    <3>3. UpToDate(req'[r], status, rows, timeline, clock)
      BY <2>b, <3>1, <3>2 DEF UpToDate
    <3> QED
      BY <2>f, <3>1, <3>3
  <2>7. CASE ReadStats(r)
    <3>1. UNCHANGED <<status, rows, timeline, clock>> /\ q.pc = "stats"
      BY <2>7 DEF ReadStats, At, q
    <3>2. CASE Finish(r)
      BY <2>g, <3>1, <3>2
    <3>3. CASE \E i \in FirstMet(q.from, rows[q.cam]) :
                 req' = [req EXCEPT ![r].pc = IF Rules[i].from = "hidden" /\ Rules[i].to = "active"
                                                THEN "cooldown" ELSE "cas",
                                    ![r].rule = i,
                                    ![r].counted = OnlyVotes(rows[q.cam], Rules[i].trigger)]
      <4> PICK i \in FirstMet(q.from, rows[q.cam]) :
                 req' = [req EXCEPT ![r].pc = IF Rules[i].from = "hidden" /\ Rules[i].to = "active"
                                                THEN "cooldown" ELSE "cas",
                                    ![r].rule = i,
                                    ![r].counted = OnlyVotes(rows[q.cam], Rules[i].trigger)]
        BY <3>3
      <4>1. Met(i, q.from, rows[q.cam])
        BY DEF FirstMet
      <4>2. /\ req'[r].now = q.now /\ req'[r].cam = q.cam /\ req'[r].from = q.from
            /\ req'[r].rule = i
            /\ req'[r].pc = IF Restores(i) THEN "cooldown" ELSE "cas"
        BY <2>e DEF Restores, q
      <4>3. UpToDate(req'[r], status, rows, timeline, clock)
        <5>1. req'[r].pc \in {"cooldown", "cas"} /\ (req'[r].pc = "cas" => ~Restores(i))
          BY <4>2
        <5> QED
          BY <2>b, <3>1, <4>1, <4>2, <5>1, CandidateUpToDate
      <4> QED
        BY <2>f, <3>1, <4>3
    <3> QED
      BY <2>7, <3>2, <3>3 DEF ReadStats, q
  <2>8. CASE CheckCooldown(r)
    <3>1. UNCHANGED <<status, rows, timeline, clock>> /\ q.pc = "cooldown"
      BY <2>8 DEF CheckCooldown, At, q
    <3>2. CASE CoolingDown(q.cam, q.now)
      BY <2>8, <2>g, <3>1, <3>2 DEF CheckCooldown, q
    <3>3. CASE ~CoolingDown(q.cam, q.now)
      <4>1. ~Cooling(timeline[q.cam], q.now)
        BY <2>a, <3>1, <3>3, CoolingHere
      <4>a. Goto(r, "cas")
        BY <2>8, <3>3, Zenon DEF CheckCooldown, q
      <4>2. /\ req'[r].now = q.now /\ req'[r].cam = q.cam /\ req'[r].from = q.from
            /\ req'[r].rule = q.rule /\ req'[r].pc = "cas"
        BY <2>e, <4>a DEF Goto, q
      <4>3. UpToDate(req'[r], status, rows, timeline, clock)
        BY <2>b, <3>1, <4>1, <4>2 DEF UpToDate
      <4> QED
        BY <2>f, <3>1, <4>3
    <3> QED
      BY <3>2, <3>3
  <2>9. CASE CompareAndSwap(r)
    <3>1. /\ UNCHANGED <<rows, timeline, clock>> /\ q.pc = "cas"
          /\ status' = [status EXCEPT ![q.cam] = Rules[q.rule].to]
      BY <2>9 DEF CompareAndSwap, At, q
    <3>2. req'[r].now = q.now /\ req'[r].cam = q.cam /\ req'[r].pc = "record"
      BY <2>9, <2>e DEF CompareAndSwap, Goto, q
    <3>3. status'[q.cam] # "demo"
      BY <2>a, <3>1, RuleType DEF TypeOK
    <3>4. UpToDate(req'[r], status', rows', timeline', clock')
      BY <2>b, <3>1, <3>2, <3>3 DEF UpToDate
    <3> QED
      BY <2>f, <3>1, <3>4
  <2>10. CASE RecordTransition(r)
    <3> DEFINE e == Recorded(q)
    <3>1. /\ UNCHANGED <<status, clock>> /\ q.pc = "record" /\ Finish(r)
          /\ timeline' = [timeline EXCEPT ![q.cam] = Append(@, e)]
      BY <2>10 DEF RecordTransition, Recorded, At, q
    <3>2. q.cam \in Cameras /\ q.now <= clock
      BY <2>a, <2>b, <3>1 DEF UpToDate
    <3>3. ASSUME NEW cam \in Cameras, NEW i \in DOMAIN timeline'[cam]
          PROVE  timeline'[cam][i].at <= clock
      <4>1. CASE cam # q.cam
        BY <2>c, <3>1, <3>2, <3>3, <4>1 DEF TypeOK
      <4>2. CASE cam = q.cam
        <5>1. timeline[cam] \in Seq(Event) /\ timeline'[cam] = Append(timeline[cam], e)
          BY <3>1, <3>2, <4>2 DEF TypeOK
        <5>2. CASE i \in DOMAIN timeline[cam]
          BY <2>c, <5>1, <5>2
        <5>3. CASE i = Len(timeline[cam]) + 1
          BY <3>2, <5>1, <5>3 DEF Recorded
        <5> QED
          BY <5>1, <5>2, <5>3, <3>3
      <4> QED
        BY <4>1, <4>2
    <3>4. req'[r] = Idle
      BY <2>e, <3>1 DEF Finish
    <3> QED
      BY <2>d, <3>1, <3>3, <3>4, IdleUpToDate DEF SerialInv
  <2> QED
    BY <1>3, <2>1, <2>2, <2>3, <2>4, <2>5, <2>6, <2>7, <2>8, <2>9, <2>10 DEF Step
<1> QED
  BY <1>1, <1>2, <1>3 DEF Next, Serial, Unreliable

\* The two modules count people and add up weights in the same way.
LEMMA SameCardinality ==
    ASSUME NEW S
    PROVE  Promise!Cardinality(S) = Cardinality(S)
BY DEF Promise!Cardinality, Cardinality

LEMMA SameSum ==
    ASSUME NEW f
    PROVE  Promise!SumFunction(f) = SumFunction(f)
BY DEF SumFunction, SumFunctionOnSet, FoldFunctionOnSet, MapThenFoldSet,
   Promise!SumFunction, Promise!SumFunctionOnSet, Promise!FoldFunctionOnSet,
   Promise!MapThenFoldSet

\* Of the hidden events of a timeline one is the latest.
LEMMA OneLatest ==
    ASSUME NEW line \in Seq(Event), NEW i \in Latest(line), NEW j \in Latest(line)
    PROVE  i = j
<1>1. \A k \in DOMAIN line : line[k].at \in Nat /\ k \in Nat
  <2>1. \A x \in Event : x.at \in Nat
    BY DEF Event
  <2>2. \A k \in DOMAIN line : line[k] \in Event /\ k \in Nat
    OBVIOUS
  <2> QED
    BY <2>1, <2>2
<1>2. i \in DOMAIN line /\ j \in DOMAIN line
  BY DEF Latest
<1>3. line[j].at < line[i].at \/ (line[j].at = line[i].at /\ j <= i)
  BY DEF Latest
<1>4. line[i].at < line[j].at \/ (line[i].at = line[j].at /\ i <= j)
  BY DEF Latest
<1>5. line[i].at \in Nat /\ line[j].at \in Nat /\ i \in Nat /\ j \in Nat
  BY <1>1, <1>2
<1> QED
  BY <1>3, <1>4, <1>5

LEMMA TheLatest ==
    ASSUME NEW line \in Seq(Event), NEW i \in Latest(line)
    PROVE  LastHidden(line) = Date(line[i].rule, line[i].at)
<1> DEFINE k == CHOOSE k \in Latest(line) : TRUE
<1>1. k \in Latest(line)
  OBVIOUS
<1>2. LastHidden(line) = Date(line[k].rule, line[k].at)
  BY DEF LastHidden
<1>3. k = i
  BY <1>1, OneLatest
<1> QED
  BY <1>2, <1>3

\* A new event that is no older than the others is the latest, if it hides.
LEMMA AppendHidden ==
    ASSUME NEW line \in Seq(Event), NEW e \in Event,
           \A i \in DOMAIN line : line[i].at <= e.at
    PROVE  LastHidden(Append(line, e)) = IF Hides(e) THEN Date(e.rule, e.at) ELSE LastHidden(line)
<1> DEFINE longer == Append(line, e)
           n == Len(line) + 1
<1>1. /\ n \in Nat \ {0} /\ DOMAIN longer = 1..n /\ DOMAIN line = 1..(n - 1)
      /\ longer[n] = e /\ \A i \in 1..(n - 1) : longer[i] = line[i]
  OBVIOUS
<1>2. \A i \in 1..(n - 1) : line[i] \in Event /\ line[i].at \in Nat /\ line[i].at <= e.at
  <2>1. \A i \in 1..(n - 1) : line[i] \in Event /\ line[i].at <= e.at
    BY <1>1
  <2>2. \A x \in Event : x.at \in Nat
    BY DEF Event
  <2> QED
    BY <2>1, <2>2
<1>3. e.at \in Nat
  BY DEF Event
<1> HIDE DEF longer, n
<1>4. CASE Hides(e)
  <2>1. n \in Latest(longer)
    BY <1>1, <1>2, <1>3, <1>4 DEF Latest
  <2>2. ASSUME NEW i \in Latest(longer), i # n
        PROVE  FALSE
    <3>1. i \in 1..(n - 1) /\ longer[i] = line[i]
      BY <1>1, <2>2 DEF Latest
    <3>2. e.at < line[i].at \/ (e.at = line[i].at /\ n <= i)
      BY <1>1, <1>4, <2>2, <3>1 DEF Latest
    <3> QED
      BY <1>1, <1>2, <1>3, <3>1, <3>2
  <2>3. Latest(longer) = {n}
    BY <2>1, <2>2
  <2>4. LastHidden(longer) = Date(e.rule, e.at)
    BY <1>1, <2>3 DEF LastHidden
  <2> QED
    BY <1>4, <2>4 DEF longer
<1>5. CASE ~Hides(e)
  <2>1. Latest(longer) = Latest(line)
    <3>1. ASSUME NEW i \in 1..(n - 1), Hides(line[i])
          PROVE  (\A j \in 1..n : Hides(longer[j]) =>
                    longer[j].at < line[i].at \/ (longer[j].at = line[i].at /\ j <= i))
             <=> (\A j \in 1..(n - 1) : Hides(line[j]) =>
                    line[j].at < line[i].at \/ (line[j].at = line[i].at /\ j <= i))
      <4>1. \A j \in 1..n : j \in 1..(n - 1) \/ j = n
        BY <1>1
      <4> QED
        BY <1>1, <1>5, <4>1
    <3>2. \A i : i \in Latest(longer) => i \in 1..(n - 1) /\ Hides(line[i])
      <4>1. \A i \in 1..n : i \in 1..(n - 1) \/ i = n
        BY <1>1
      <4> QED
        BY <1>1, <1>5, <4>1 DEF Latest
    <3>3. \A i : i \in Latest(line) => i \in 1..(n - 1) /\ Hides(line[i])
      BY <1>1 DEF Latest
    <3>4. ASSUME NEW i \in 1..(n - 1), Hides(line[i])
          PROVE  i \in Latest(longer) <=> i \in Latest(line)
      <4>1. i \in 1..n /\ longer[i] = line[i] /\ i \in DOMAIN longer /\ i \in DOMAIN line
        BY <1>1
      <4>2. i \in Latest(longer) <=>
              (\A j \in 1..n : Hides(longer[j]) =>
                 longer[j].at < line[i].at \/ (longer[j].at = line[i].at /\ j <= i))
        BY <1>1, <3>4, <4>1 DEF Latest
      <4>3. i \in Latest(line) <=>
              (\A j \in 1..(n - 1) : Hides(line[j]) =>
                 line[j].at < line[i].at \/ (line[j].at = line[i].at /\ j <= i))
        BY <1>1, <3>4, <4>1 DEF Latest
      <4> QED
        BY <3>1, <3>4, <4>2, <4>3
    <3> QED
      BY <3>2, <3>3, <3>4
  <2>2. \A i \in Latest(line) : longer[i] = line[i]
    BY <1>1 DEF Latest
  <2>3. LastHidden(longer) = LastHidden(line)
    <3>1. CASE Latest(line) = {}
      BY <2>1, <3>1 DEF LastHidden
    <3>2. ASSUME NEW i \in Latest(line)
          PROVE  LastHidden(longer) = LastHidden(line)
      <4>1. longer \in Seq(Event) /\ i \in Latest(longer) /\ longer[i] = line[i]
        <5>1. longer \in Seq(Event)
          BY DEF longer
        <5> QED
          BY <2>1, <2>2, <3>2, <5>1
      <4> QED
        BY <3>2, <4>1, TheLatest
    <3> QED
      BY <3>1, <3>2
  <2> QED
    BY <1>5, <2>3 DEF longer
<1> QED
  BY <1>4, <1>5

\* A record that is not cooling down was not hidden for privacy of late.
LEMMA CooledDown ==
    ASSUME NEW line \in Seq(Event), NEW now \in Nat, ~Cooling(line, now)
    PROVE  LastHidden(line) = -1 \/ now - LastHidden(line) >= PrivacyCooldown
<1>1. CASE Latest(line) = {}
  BY <1>1 DEF LastHidden
<1>2. CASE Latest(line) # {}
  <2> DEFINE i == CHOOSE i \in Latest(line) : TRUE
  <2>1. i \in Latest(line) /\ LastHidden(line) = Date(line[i].rule, line[i].at)
    BY <1>2 DEF LastHidden
  <2> HIDE DEF i
  <2>2. line[i].at \in Nat
    <3>1. i \in DOMAIN line
      BY <2>1 DEF Latest
    <3>2. line[i] \in Event
      BY <3>1
    <3> QED
      BY <3>2 DEF Event
  <2>3. CASE Rules[line[i].rule].trigger = "privacy"
    <3>1. ~(now - line[i].at < PrivacyCooldown)
      BY <2>1, <2>3 DEF Cooling
    <3>2. PrivacyCooldown \in Nat
      BY SettingsAssumption
    <3> QED
      BY <2>1, <2>2, <2>3, <3>1, <3>2 DEF Date
  <2>4. CASE Rules[line[i].rule].trigger # "privacy"
    BY <2>1, <2>4 DEF Date
  <2> QED
    BY <2>3, <2>4
<1> QED
  BY <1>1, <1>2

LEMMA MappingHolds == Serial /\ TypeOK /\ SerialInv => Mapping
<1> SUFFICES ASSUME Serial, TypeOK, SerialInv
             PROVE  Mapping
  OBVIOUS
<1>1. \A cam \in Cameras : {i \in DOMAIN timeline[cam] : IsLatestHidden(cam, i)} = Latest(timeline[cam])
  BY LatestHidden DEF Latest
<1>4. ASSUME NEW cam \in Cameras,
             {r \in Winners(cam) : Rules[req[r].rule].to = "hidden"} = {}
      PROVE  WithdrawnAt(cam) = LastHidden(timeline[cam])
  <2> DEFINE latest == {i \in DOMAIN timeline[cam] : IsLatestHidden(cam, i)}
  <2>1. latest = Latest(timeline[cam])
    BY <1>1
  <2>2. CASE latest = {}
    BY <1>4, <2>1, <2>2 DEF WithdrawnAt, LastHidden
  <2>3. CASE latest # {}
    <3> DEFINE k == CHOOSE k \in latest : TRUE
    <3>1. k \in Latest(timeline[cam])
      BY <2>1, <2>3
    <3>2. WithdrawnAt(cam) = Date(timeline[cam][k].rule, timeline[cam][k].at)
      BY <1>4, <2>3 DEF WithdrawnAt, Date
    <3>3. timeline[cam] \in Seq(Event)
      BY DEF TypeOK
    <3> HIDE DEF k
    <3> QED
      BY <3>1, <3>2, <3>3, TheLatest
  <2> QED
    BY <2>2, <2>3
<1>2. ASSUME \A r \in Requests : ~At(r, "record")
      PROVE  Votes = BareVotes(rows) /\ Hidden = HiddenDates(timeline)
  <2>1. \A cam \in Cameras : Winners(cam) = {}
    BY <1>2 DEF Winners
  <2>2. ASSUME NEW cam \in Cameras, NEW c \in Contributors
        PROVE  VoteOf(cam, c) = Bare(rows[cam][c])
    BY <2>1 DEF VoteOf, Consuming, Bare
  <2>3. ASSUME NEW cam \in Cameras
        PROVE  WithdrawnAt(cam) = LastHidden(timeline[cam])
    <3>1. {r \in Winners(cam) : Rules[req[r].rule].to = "hidden"} = {}
      BY <2>1
    <3> QED
      BY <1>4, <3>1
  <2>4. Votes = BareVotes(rows)
    BY <2>2 DEF Votes, BareVotes
  <2>5. Hidden = HiddenDates(timeline)
    BY <2>3 DEF Hidden, HiddenDates
  <2> QED
    BY <2>4, <2>5
<1>3. ASSUME NEW r \in Requests, At(r, "record")
      PROVE  /\ Votes = BareVotes(TablesAfter(req[r], rows))
             /\ Hidden = HiddenDates(LinesAfter(req[r], timeline))
  <2> DEFINE q == req[r]
             t == Rules[q.rule].trigger
  <2>1. /\ q \in Request /\ q.rule \in 1..6 /\ q.cam \in Cameras /\ q.pc = "record"
        /\ Recorded(q) \in Event
    BY <1>3 DEF TypeOK, Request, Recorded, Event, At
  <2>2. \A s \in Requests : s = r
    BY DEF Serial
  <2>3. \A cam \in Cameras : Winners(cam) = IF cam = q.cam THEN {r} ELSE {}
    BY <1>3, <2>2 DEF Winners
  <2>4. ASSUME NEW cam \in Cameras, NEW c \in Contributors
        PROVE  VoteOf(cam, c) = Bare(TablesAfter(q, rows)[cam][c])
    <3>1. rows \in [Cameras -> Table] /\ rows[cam] \in Table
      BY DEF TypeOK
    <3>2. CASE cam = q.cam
      <4>1. Consuming(cam) = {t}
        BY <2>3, <3>2 DEF Consuming
      <4>2. TablesAfter(q, rows)[cam][c] = IF c \in Voters(rows[cam], t) THEN NoRow ELSE rows[cam][c]
        BY <2>1, <3>1, <3>2 DEF TablesAfter, WithoutVotes
      <4>3. CASE rows[cam][c] = NoRow
        BY <4>2, <4>3 DEF VoteOf, Bare
      <4>4. CASE rows[cam][c] # NoRow
        BY <4>1, <4>2, <4>4 DEF VoteOf, Bare, Voters
      <4> QED
        BY <4>3, <4>4
    <3>3. CASE cam # q.cam
      <4>1. Consuming(cam) = {}
        BY <2>3, <3>3 DEF Consuming
      <4>2. TablesAfter(q, rows)[cam][c] = rows[cam][c]
        BY <2>1, <3>1, <3>3 DEF TablesAfter
      <4> QED
        BY <4>1, <4>2 DEF VoteOf, Bare
    <3> QED
      BY <3>2, <3>3
  <2>5. ASSUME NEW cam \in Cameras
        PROVE  WithdrawnAt(cam) = LastHidden(LinesAfter(q, timeline)[cam])
    <3>1. timeline \in [Cameras -> Seq(Event)] /\ timeline[cam] \in Seq(Event)
      BY DEF TypeOK
    <3> DEFINE hiding == {s \in Winners(cam) : Rules[req[s].rule].to = "hidden"}
    <3>2. ASSUME hiding = {}
          PROVE  WithdrawnAt(cam) = LastHidden(timeline[cam])
      BY <1>4, <3>2
    <3>3. CASE cam # q.cam
      <4>1. LinesAfter(q, timeline)[cam] = timeline[cam]
        BY <2>1, <3>1, <3>3 DEF LinesAfter
      <4>2. hiding = {}
        BY <2>3, <3>3
      <4> QED
        BY <3>2, <4>1, <4>2
    <3>4. CASE cam = q.cam
      <4>1. LinesAfter(q, timeline)[cam] = Append(timeline[cam], Recorded(q))
        BY <2>1, <3>1, <3>4 DEF LinesAfter
      <4>2. \A i \in DOMAIN timeline[cam] : timeline[cam][i].at <= Recorded(q).at
        BY <2>1 DEF SerialInv, UpToDate, Recorded
      <4>3. LastHidden(LinesAfter(q, timeline)[cam])
              = IF Hides(Recorded(q)) THEN Date(q.rule, q.now) ELSE LastHidden(timeline[cam])
        <5>1. LastHidden(Append(timeline[cam], Recorded(q)))
                = IF Hides(Recorded(q)) THEN Date(Recorded(q).rule, Recorded(q).at)
                  ELSE LastHidden(timeline[cam])
          BY <2>1, <3>1, <4>2, AppendHidden
        <5>2. Recorded(q).rule = q.rule /\ Recorded(q).at = q.now
          BY DEF Recorded
        <5> QED
          BY <4>1, <5>1, <5>2
      <4>4. CASE Hides(Recorded(q))
        <5>1. hiding = {r}
          BY <2>3, <3>4, <4>4 DEF Hides, Recorded
        <5> DEFINE s == CHOOSE s \in hiding : TRUE
        <5>2. s = r
          BY <5>1
        <5>3. WithdrawnAt(cam) = Date(req[s].rule, req[s].now)
          BY <5>1 DEF WithdrawnAt, Date
        <5> QED
          BY <4>3, <4>4, <5>2, <5>3
      <4>5. CASE ~Hides(Recorded(q))
        <5>1. hiding = {}
          BY <2>3, <3>4, <4>5 DEF Hides, Recorded
        <5> QED
          BY <3>2, <4>3, <4>5, <5>1
      <4> QED
        BY <4>4, <4>5
    <3> QED
      BY <3>3, <3>4
  <2>6. Votes = BareVotes(TablesAfter(q, rows))
    BY <2>4 DEF Votes, BareVotes
  <2>7. Hidden = HiddenDates(LinesAfter(q, timeline))
    BY <2>5 DEF Hidden, HiddenDates
  <2> QED
    BY <2>6, <2>7
<1> QED
  BY <1>2, <1>3 DEF Mapping

LEMMA MappingNext == Serial /\ TypeOK' /\ SerialInv' => Mapping'
<1>1. (Serial /\ TypeOK /\ SerialInv => Mapping)'
  BY MappingHolds, PTL
<1> QED
  BY <1>1

\* One vote changes as one row does.
OneVote(old, cam, c, vote) == [old EXCEPT ![cam][c] = vote]
LEMMA BareRow ==
    ASSUME NEW tables, NEW after, NEW cam \in Cameras, NEW c \in Contributors, NEW vote,
           \A k \in Cameras, d \in Contributors :
             Bare(after[k][d]) = IF k = cam /\ d = c THEN vote ELSE Bare(tables[k][d])
    PROVE  BareVotes(after) = OneVote(BareVotes(tables), cam, c, vote)
<1> DEFINE old == BareVotes(tables)
           new == [old EXCEPT ![cam][c] = vote]
<1>1. /\ old = [k \in Cameras |-> old[k]]
      /\ \A k \in Cameras : old[k] = [d \in Contributors |-> Bare(tables[k][d])]
  BY DEF BareVotes
<1> HIDE DEF old
<1>2. \A k \in Cameras, d \in Contributors :
        new[k][d] = IF k = cam /\ d = c THEN vote ELSE Bare(tables[k][d])
  BY <1>1
<1>3. /\ new = [k \in Cameras |-> new[k]]
      /\ \A k \in Cameras : new[k] = [d \in Contributors |-> new[k][d]]
  BY <1>1
<1> HIDE DEF new
<1>4. BareVotes(after) = [k \in Cameras |-> [d \in Contributors |-> new[k][d]]]
  BY <1>2 DEF BareVotes
<1>5. BareVotes(after) = new
  BY <1>3, <1>4
<1> QED
  BY <1>5 DEF new, old, OneVote

\* The votes of the abstract record are those of the table.
LEMMA SameVotes ==
    ASSUME TypeOK, NEW cam \in Cameras, NEW t \in Actions,
           Votes = BareVotes(rows)
    PROVE  /\ Promise!Voters(cam, t) = Voters(rows[cam], t)
           /\ Promise!Sum(cam, t) = Sum(rows[cam], t)
<1>1. rows[cam] \in [Contributors -> Row \cup {NoRow}]
  BY DEF TypeOK, Table
<1>2. \A c \in Contributors : Votes[cam][c] = Bare(rows[cam][c])
  BY DEF BareVotes
<1>3. ASSUME NEW c \in Contributors
      PROVE  /\ (Votes[cam][c] # NoRow /\ Votes[cam][c].type = t)
                  <=> (rows[cam][c] # NoRow /\ rows[cam][c].type = t)
             /\ rows[cam][c] # NoRow => Votes[cam][c].weight = rows[cam][c].weight
  <2>1. CASE rows[cam][c] = NoRow
    BY <1>2, <2>1 DEF Bare
  <2>2. CASE rows[cam][c] # NoRow
    <3>1. rows[cam][c].type \in Actions /\ rows[cam][c].weight \in Weights
      BY <1>1, <2>2 DEF Row
    <3>2. Votes[cam][c] = [type |-> rows[cam][c].type, weight |-> rows[cam][c].weight]
      BY <1>2, <2>2 DEF Bare
    <3>3. Votes[cam][c] # NoRow
      BY <3>1, <3>2, NoRowAssumption
    <3> QED
      BY <2>2, <3>2, <3>3
  <2> QED
    BY <2>1, <2>2
<1>4. Promise!Voters(cam, t) = Voters(rows[cam], t)
  <2>1. Promise!Voters(cam, t)
          = {c \in Contributors : Votes[cam][c] # NoRow /\ Votes[cam][c].type = t}
    BY DEF Promise!Voters, Votes
  <2> QED
    BY <1>3, <2>1 DEF Voters
<1>5. Promise!Sum(cam, t) = Sum(rows[cam], t)
  <2>1. Promise!Sum(cam, t)
          = Promise!SumFunction([c \in Promise!Voters(cam, t) |-> Votes[cam][c].weight])
    BY DEF Promise!Sum, Votes
  <2>2. [c \in Promise!Voters(cam, t) |-> Votes[cam][c].weight]
          = [c \in Voters(rows[cam], t) |-> rows[cam][c].weight]
    BY <1>3, <1>4 DEF Voters
  <2> QED
    BY <2>1, <2>2, SameSum DEF Sum
<1> QED
  BY <1>4, <1>5

\* Every step outside a transition, as the abstract record sees it.
LEMMA StutterMaps ==
    ASSUME Votes' = Votes, Hidden' = Hidden, UNCHANGED <<status, clock>>
    PROVE  UNCHANGED Promise!vars
BY DEF Promise!vars, Votes, Hidden

LEMMA MapsUnchanged ==
    ASSUME UNCHANGED <<rows, timeline, req>>
    PROVE  Votes' = Votes /\ Hidden' = Hidden
BY DEF Votes, Hidden, VoteOf, WithdrawnAt, Consuming, Winners, At, IsLatestHidden, HiddenEvents

\* RecordConsensus!Settle, of the mapped variables.
LEMMA SettleReads ==
    ASSUME NEW cam, NEW rule, NEW at
    PROVE  Promise!Settle(cam, rule, at) <=>
      /\ status[cam] = rule.from
      /\ Cardinality(Promise!Voters(cam, rule.trigger)) >= rule.distinct
      /\ Promise!Sum(cam, rule.trigger) >= rule.sum
      /\ rule.from = "hidden" /\ rule.to = "active" =>
           Hidden[cam] = -1 \/ at - Hidden[cam] >= PrivacyCooldown
      /\ status' = [status EXCEPT ![cam] = rule.to]
      /\ Votes' = [Votes EXCEPT ![cam] =
                      [c \in Contributors |->
                         IF c \in Promise!Voters(cam, rule.trigger) THEN NoRow ELSE @[c]]]
      /\ Hidden' = [Hidden EXCEPT ![cam] =
                       IF rule.to # "hidden" THEN @
                       ELSE IF rule.trigger = "privacy" THEN at ELSE -1]
      /\ clock' = clock
BY SameCardinality DEF Promise!Settle, Votes, Hidden

LEMMA SwapSettles ==
    ASSUME Serial, TypeOK, TypeOK', SerialInv, SerialInv',
           NEW r \in Requests, CompareAndSwap(r)
    PROVE  Promise!Next
<1> DEFINE q == req[r]
           rule == Rules[q.rule]
<1>1. /\ q \in Request /\ q.cam \in Cameras /\ q.rule \in 1..6 /\ q.pc = "cas"
      /\ q.now \in Nat /\ clock \in Nat /\ q.now <= clock /\ status[q.cam] = q.from
      /\ status' = [status EXCEPT ![q.cam] = rule.to]
      /\ UNCHANGED <<rows, timeline, clock>>
  <2>1. q \in Request /\ q.pc = "cas" /\ q.pc # "idle"
    BY DEF TypeOK, CompareAndSwap, At
  <2>2. q.cam \in Cameras /\ clock \in Nat
    BY <2>1 DEF TypeOK
  <2>3. UpToDate(q, status, rows, timeline, clock)
    BY DEF SerialInv
  <2> QED
    BY <2>1, <2>2, <2>3 DEF UpToDate, CompareAndSwap, Request
<1>2. /\ rule.from = status[q.cam]
      /\ Sum(rows[q.cam], rule.trigger) >= rule.sum
      /\ Distinct(rows[q.cam], rule.trigger) >= rule.distinct
      /\ Restores(q.rule) => ~Cooling(timeline[q.cam], q.now)
  <2>1. UpToDate(q, status, rows, timeline, clock)
    BY DEF SerialInv
  <2>2. Met(q.rule, q.from, rows[q.cam])
    BY <1>1, <2>1 DEF UpToDate
  <2>3. Restores(q.rule) => ~Cooling(timeline[q.cam], q.now)
    BY <1>1, <2>1 DEF UpToDate
  <2> QED
    BY <1>1, <2>2, <2>3 DEF Met
<1>3. /\ req'[r].pc = "record" /\ req'[r].cam = q.cam /\ req'[r].rule = q.rule
      /\ req'[r].now = q.now /\ req'[r].counted = q.counted
  BY DEF CompareAndSwap, Goto, TypeOK
<1>4. rule.trigger \in Actions /\ timeline \in [Cameras -> Seq(Event)]
      /\ rows \in [Cameras -> Table] /\ Recorded(q) \in Event
  BY <1>1, RuleType DEF TypeOK, Recorded, Event, Request
<1>5. Votes = BareVotes(rows) /\ Hidden = HiddenDates(timeline)
  <2>1. \A s \in Requests : ~At(s, "record")
    BY <1>1 DEF At, Serial
  <2> QED
    BY <2>1, MappingHolds DEF Mapping
<1>6. /\ Votes' = BareVotes(TablesAfter(q, rows))
      /\ Hidden' = HiddenDates(LinesAfter(q, timeline))
  <2>1. At(r, "record")'
    BY <1>3 DEF At
  <2>2. /\ Votes' = BareVotes(TablesAfter(req'[r], rows'))
        /\ Hidden' = HiddenDates(LinesAfter(req'[r], timeline'))
    BY <2>1, MappingNext DEF Mapping
  <2>3. TablesAfter(req'[r], rows') = TablesAfter(q, rows)
    BY <1>1, <1>3 DEF TablesAfter
  <2>4. LinesAfter(req'[r], timeline') = LinesAfter(q, timeline)
    BY <1>1, <1>3 DEF LinesAfter, Recorded
  <2> QED
    BY <2>2, <2>3, <2>4
<1> HIDE DEF q
<1>7. Promise!Settle(q.cam, rule, q.now)
  <2>1. Cardinality(Promise!Voters(q.cam, rule.trigger)) >= rule.distinct
    BY <1>1, <1>2, <1>4, <1>5, SameVotes DEF Distinct
  <2>2. Promise!Sum(q.cam, rule.trigger) >= rule.sum
    BY <1>1, <1>2, <1>4, <1>5, SameVotes
  <2>3. Hidden[q.cam] = LastHidden(timeline[q.cam])
    BY <1>1, <1>5 DEF HiddenDates
  <2>4. rule.from = "hidden" /\ rule.to = "active" =>
          Hidden[q.cam] = -1 \/ q.now - Hidden[q.cam] >= PrivacyCooldown
    <3>1. timeline[q.cam] \in Seq(Event)
      BY <1>1, <1>4
    <3> QED
      BY <1>1, <1>2, <2>3, <3>1, CooledDown DEF Restores
  <2>5. Votes' = [Votes EXCEPT ![q.cam] =
                    [c \in Contributors |->
                       IF c \in Promise!Voters(q.cam, rule.trigger) THEN NoRow ELSE @[c]]]
    <3>1. Promise!Voters(q.cam, rule.trigger) = Voters(rows[q.cam], rule.trigger)
      BY <1>1, <1>4, <1>5, SameVotes
    <3>2. ASSUME NEW cam \in Cameras, NEW c \in Contributors
          PROVE  Bare(TablesAfter(q, rows)[cam][c])
                   = IF cam = q.cam /\ c \in Voters(rows[q.cam], rule.trigger) THEN NoRow
                     ELSE Bare(rows[cam][c])
      BY <1>1, <1>4 DEF TablesAfter, WithoutVotes, Bare
    <3> DEFINE consumed == Voters(rows[q.cam], rule.trigger)
               after == [cam \in Cameras |-> [c \in Contributors |->
                           IF cam = q.cam /\ c \in consumed THEN NoRow ELSE Bare(rows[cam][c])]]
    <3>3. Votes' = after
      BY <1>6, <3>2 DEF BareVotes
    <3> HIDE DEF consumed
    <3>4. /\ Votes = [cam \in Cameras |-> Votes[cam]]
          /\ \A cam \in Cameras : Votes[cam] = [c \in Contributors |-> Bare(rows[cam][c])]
      BY <1>5 DEF BareVotes
    <3>5. after = [Votes EXCEPT ![q.cam] =
                     [c \in Contributors |-> IF c \in consumed THEN NoRow ELSE @[c]]]
      BY <1>1, <3>4
    <3> QED
      BY <3>1, <3>3, <3>5 DEF consumed
  <2>6. Hidden' = [Hidden EXCEPT ![q.cam] =
                     IF rule.to # "hidden" THEN @
                     ELSE IF rule.trigger = "privacy" THEN q.now ELSE -1]
    <3>1. timeline[q.cam] \in Seq(Event)
      BY <1>1, <1>4
    <3>2. \A i \in DOMAIN timeline[q.cam] : timeline[q.cam][i].at <= Recorded(q).at
      BY <1>1 DEF SerialInv, UpToDate, Recorded, q
    <3>3. LastHidden(Append(timeline[q.cam], Recorded(q)))
            = IF Hides(Recorded(q)) THEN Date(Recorded(q).rule, Recorded(q).at)
              ELSE LastHidden(timeline[q.cam])
      BY <1>4, <3>1, <3>2, AppendHidden
    <3>4. LastHidden(Append(timeline[q.cam], Recorded(q)))
            = IF rule.to # "hidden" THEN LastHidden(timeline[q.cam])
              ELSE IF rule.trigger = "privacy" THEN q.now ELSE -1
      BY <3>3 DEF Recorded, Hides, Date
    <3>5. \A cam \in Cameras : LinesAfter(q, timeline)[cam]
            = IF cam = q.cam THEN Append(timeline[q.cam], Recorded(q)) ELSE timeline[cam]
      BY <1>1, <1>4 DEF LinesAfter
    <3>6. \A cam \in Cameras : LastHidden(LinesAfter(q, timeline)[cam])
            = IF cam = q.cam
                THEN IF rule.to # "hidden" THEN LastHidden(timeline[q.cam])
                     ELSE IF rule.trigger = "privacy" THEN q.now ELSE -1
              ELSE LastHidden(timeline[cam])
      BY <3>4, <3>5
    <3> QED
      BY <1>1, <1>5, <1>6, <3>6 DEF HiddenDates
  <2> HIDE DEF rule
  <2>7. clock' = clock /\ status[q.cam] = rule.from /\ status' = [status EXCEPT ![q.cam] = rule.to]
    BY <1>1, <1>2
  <2> QED
    BY <2>1, <2>2, <2>4, <2>5, <2>6, <2>7, SettleReads
<1>8. q.rule \in DOMAIN Rules /\ q.now \in 0..clock
  BY <1>1 DEF Rules
<1> QED
  BY <1>1, <1>7, <1>8 DEF Promise!Next

\* InsertAction and SwitchAction cast a vote.
LEMMA StoreVotes ==
    ASSUME Serial, TypeOK, TypeOK', SerialInv, SerialInv',
           NEW r \in Requests, InsertAction(r) \/ SwitchAction(r)
    PROVE  Promise!Next
<1> DEFINE q == req[r]
<1>1. /\ q \in Request /\ q.pc \in {"write", "switch"}
      /\ UNCHANGED <<status, timeline, clock>>
  BY DEF TypeOK, InsertAction, SwitchAction, At
<1>2. q.cam \in Cameras /\ q.who \in Contributors /\ q.type \in Actions /\ q.weight \in Weights
  BY <1>1 DEF TypeOK, Request
<1>3. status[q.cam] # "demo"
  <2>1. UpToDate(q, status, rows, timeline, clock)
    BY DEF SerialInv
  <2> QED
    BY <1>1, <2>1 DEF UpToDate
<1>4. \E id \in Nat, created \in Nat : Store(r, id, created)
  <2>1. CASE InsertAction(r)
    <3>1. nextId \in Nat /\ q.now \in Nat
      BY <1>1 DEF TypeOK, Request
    <3> QED
      BY <2>1, <3>1 DEF InsertAction
  <2>2. CASE SwitchAction(r)
    <3>1. Standing(r) \in Row
      BY <1>2, <2>2 DEF SwitchAction, Standing, TypeOK, Table
    <3>2. Standing(r).id \in Nat /\ Standing(r).created \in Nat
      BY <3>1 DEF Row
    <3> QED
      BY <2>2, <3>2 DEF SwitchAction
  <2> QED
    BY <2>1, <2>2
<1>5. PICK id \in Nat, created \in Nat : Store(r, id, created)
  BY <1>4
<1> DEFINE row == [id |-> id, type |-> q.type, weight |-> q.weight,
                   created |-> created, updated |-> q.now]
<1>6. rows' = [rows EXCEPT ![q.cam][q.who] = row]
  BY <1>5 DEF Store
<1>7. req' = [req EXCEPT ![r].pc = AfterWrite(q.type)]
  BY <1>5 DEF Store, Goto
<1>8. Votes = BareVotes(rows) /\ Hidden = HiddenDates(timeline)
  <2>1. \A s \in Requests : ~At(s, "record")
    BY <1>1 DEF At, Serial
  <2> QED
    BY <2>1, MappingHolds DEF Mapping
<1>9. Votes' = BareVotes(rows') /\ Hidden' = HiddenDates(timeline')
  <2>1. req'[r].pc # "record"
    BY <1>7 DEF TypeOK, AfterWrite
  <2>2. \A s \in Requests : ~At(s, "record")'
    BY <2>1 DEF At, Serial
  <2> QED
    BY <2>2, MappingNext DEF Mapping
<1>10. Bare(row) = [type |-> q.type, weight |-> q.weight]
  <2>1. row \in Row
    BY <1>1, <1>2 DEF Row, Request
  <2>2. row # NoRow
    BY <2>1, NoRowAssumption
  <2> QED
    BY <2>2 DEF Bare
<1>11. Votes' = [Votes EXCEPT ![q.cam][q.who] = [type |-> q.type, weight |-> q.weight]]
  <2>1. rows \in [Cameras -> Table]
    BY DEF TypeOK
  <2> DEFINE vote == [type |-> q.type, weight |-> q.weight]
  <2>2. ASSUME NEW k \in Cameras, NEW d \in Contributors
        PROVE  rows'[k][d] = IF k = q.cam /\ d = q.who THEN row ELSE rows[k][d]
    BY <1>2, <1>6, <2>1 DEF Table
  <2> HIDE DEF row, q
  <2>3. \A k \in Cameras, d \in Contributors :
          Bare(rows'[k][d]) = IF k = q.cam /\ d = q.who THEN vote ELSE Bare(rows[k][d])
    BY <1>10, <2>2
  <2> HIDE DEF vote
  <2>4. BareVotes(rows') = OneVote(BareVotes(rows), q.cam, q.who, vote)
    BY <1>2, <2>3, BareRow
  <2> QED
    BY <1>8, <1>9, <2>4 DEF OneVote, vote
<1>12. Hidden' = Hidden
  BY <1>1, <1>8, <1>9
<1> HIDE DEF q
<1>13. Promise!Vote(q.cam, q.who)
  <2>1. q.type \in Promise!Actions
    BY <1>2 DEF Actions, Promise!Actions
  <2> QED
    BY <1>1, <1>2, <1>3, <1>11, <1>12, <2>1 DEF Promise!Vote, Votes, Hidden
<1> QED
  BY <1>2, <1>13 DEF Promise!Next

\* Withdraw and EraseContributor are the abstract ones.
LEMMA RemovalMaps ==
    ASSUME Serial, TypeOK, TypeOK', SerialInv, SerialInv', NEW r \in Requests,
           \/ \E c \in Contributors, cam \in Cameras : Withdraw(r, c, cam)
           \/ \E c \in Contributors : EraseContributor(r, c)
    PROVE  Promise!Next
<1>1. At(r, "idle") /\ UNCHANGED <<status, timeline, req, clock>>
  BY DEF Withdraw, EraseContributor
<1>2. \A s \in Requests : ~At(s, "record")
  BY <1>1 DEF At, Serial
<1>3. \A s \in Requests : ~At(s, "record")'
  BY <1>1, <1>2 DEF At
<1>4. Votes = BareVotes(rows) /\ Hidden = HiddenDates(timeline)
  BY <1>2, MappingHolds DEF Mapping
<1>5. Votes' = BareVotes(rows') /\ Hidden' = Hidden
  BY <1>1, <1>3, <1>4, MappingNext DEF Mapping
<1>6. rows \in [Cameras -> Table] /\ Bare(NoRow) = NoRow
  BY DEF TypeOK, Bare
<1>7. CASE \E c \in Contributors, cam \in Cameras : Withdraw(r, c, cam)
  <2> PICK c \in Contributors, cam \in Cameras : Withdraw(r, c, cam)
    BY <1>7
  <2>1. rows' = [rows EXCEPT ![cam][c] = NoRow]
    BY DEF Withdraw
  <2>2. Votes' = [Votes EXCEPT ![cam][c] = NoRow]
    <3>1. ASSUME NEW k \in Cameras, NEW d \in Contributors
          PROVE  rows'[k][d] = IF k = cam /\ d = c THEN NoRow ELSE rows[k][d]
      BY <1>6, <2>1 DEF Table
    <3>2. \A k \in Cameras, d \in Contributors :
            Bare(rows'[k][d]) = IF k = cam /\ d = c THEN NoRow ELSE Bare(rows[k][d])
      BY <1>6, <3>1
    <3>3. BareVotes(rows') = OneVote(BareVotes(rows), cam, c, NoRow)
      BY <3>2, BareRow
    <3> QED
      BY <1>4, <1>5, <3>3 DEF OneVote
  <2>3. Promise!Withdraw(cam, c)
    BY <1>1, <1>5, <2>2 DEF Promise!Withdraw, Votes, Hidden
  <2> QED
    BY <2>3 DEF Promise!Next
<1>8. CASE \E c \in Contributors : EraseContributor(r, c)
  <2> PICK c \in Contributors : EraseContributor(r, c)
    BY <1>8
  <2>1. rows' = [cam \in Cameras |-> [rows[cam] EXCEPT ![c] = NoRow]]
    BY DEF EraseContributor
  <2>2. Votes' = [cam \in Cameras |-> [Votes[cam] EXCEPT ![c] = NoRow]]
    <3>1. ASSUME NEW cam \in Cameras
          PROVE  [d \in Contributors |-> Bare(rows'[cam][d])]
                   = [[d \in Contributors |-> Bare(rows[cam][d])] EXCEPT ![c] = NoRow]
      <4>1. rows[cam] \in [Contributors -> Row \cup {NoRow}]
        BY <1>6 DEF Table
      <4>2. \A d \in Contributors : rows'[cam][d] = IF d = c THEN NoRow ELSE rows[cam][d]
        BY <2>1, <4>1
      <4> QED
        BY <1>6, <4>2
    <3> QED
      BY <1>4, <1>5, <3>1 DEF BareVotes
  <2>3. Promise!Forget(c)
    BY <1>1, <1>5, <2>2 DEF Promise!Forget, Votes, Hidden
  <2> QED
    BY <2>3 DEF Promise!Next
<1> QED
  BY <1>7, <1>8

\* The winner's batch writes what the abstract record already says.
LEMMA BatchMaps ==
    ASSUME Serial, TypeOK, TypeOK', SerialInv, SerialInv', NEW r \in Requests,
           RecordTransition(r)
    PROVE  UNCHANGED Promise!vars
<1>1. /\ UNCHANGED <<status, clock>> /\ At(r, "record")
      /\ timeline' = LinesAfter(req[r], timeline)
      /\ rows' = TablesAfter(req[r], rows)
  BY DEF RecordTransition, LinesAfter, TablesAfter, Recorded
<1>2. Votes = BareVotes(rows') /\ Hidden = HiddenDates(timeline')
  BY <1>1, MappingHolds DEF Mapping
<1>3. req'[r].pc = "idle"
  BY DEF RecordTransition, Finish, Idle, Locals, TypeOK
<1>4. \A s \in Requests : ~At(s, "record")'
  BY <1>3 DEF At, Serial
<1>5. Votes' = BareVotes(rows') /\ Hidden' = HiddenDates(timeline')
  BY <1>4, MappingNext DEF Mapping
<1> QED
  BY <1>1, <1>2, <1>5, StutterMaps

\* The other steps of a request move its locals only.
LEMMA LocalMaps ==
    ASSUME Serial, TypeOK, TypeOK', SerialInv, SerialInv', NEW r \in Requests,
           UNCHANGED <<status, rows, timeline, clock>>,
           req[r].pc # "record", req'[r].pc # "record"
    PROVE  UNCHANGED Promise!vars
<1>1. \A s \in Requests : ~At(s, "record") /\ ~At(s, "record")'
  BY DEF At, Serial
<1>2. Votes = BareVotes(rows) /\ Hidden = HiddenDates(timeline)
  BY <1>1, MappingHolds DEF Mapping
<1>3. Votes' = BareVotes(rows') /\ Hidden' = HiddenDates(timeline')
  BY <1>1, MappingNext DEF Mapping
<1> QED
  BY <1>2, <1>3, StutterMaps

LEMMA PromiseStep ==
    ASSUME Serial, TypeOK, TypeOK', SerialInv, SerialInv', [Next]_vars
    PROVE  [Promise!Next]_(Promise!vars)
<1>1. CASE UNCHANGED vars
  BY <1>1, MapsUnchanged, StutterMaps DEF vars
<1>2. CASE Tick
  <2>1. Votes' = Votes /\ Hidden' = Hidden /\ status' = status /\ clock' = clock + 1
    BY <1>2, MapsUnchanged DEF Tick
  <2>2. Promise!Pass
    BY <2>1 DEF Promise!Pass, Votes, Hidden
  <2> QED
    BY <2>2 DEF Promise!Next
<1>3. ASSUME NEW r \in Requests,
             \/ \E c \in Contributors, cam \in Cameras, t \in Offered : Begin(r, c, cam, t)
             \/ Step(r)
             \/ \E c \in Contributors, cam \in Cameras : Withdraw(r, c, cam)
             \/ \E c \in Contributors : EraseContributor(r, c)
      PROVE  [Promise!Next]_(Promise!vars)
  <2>1. CASE \E c \in Contributors, cam \in Cameras, t \in Offered : Begin(r, c, cam, t)
    <3>1. req[r].pc # "record" /\ req'[r].pc # "record"
      BY <2>1 DEF Begin, At, Locals, TypeOK
    <3> QED
      BY <2>1, <3>1, LocalMaps DEF Begin
  <2>2. CASE \/ \E c \in Contributors, cam \in Cameras : Withdraw(r, c, cam)
             \/ \E c \in Contributors : EraseContributor(r, c)
    BY <2>2, RemovalMaps
  <2>3. CASE InsertAction(r) \/ SwitchAction(r)
    BY <2>3, StoreVotes
  <2>4. CASE CompareAndSwap(r)
    BY <2>4, SwapSettles
  <2>5. CASE RecordTransition(r)
    BY <2>5, BatchMaps
  <2>6. CASE \/ CountContributions(r) \/ FoundOtherAction(r) \/ RefuseInsert(r)
             \/ RefuseSwitch(r) \/ RefreshVerified(r) \/ ReadStatus(r) \/ ReadStats(r)
             \/ CheckCooldown(r) \/ LoseSwap(r)
    <3>1. UNCHANGED <<status, rows, timeline, clock>> /\ req[r].pc # "record"
      BY <2>6 DEF CountContributions, FoundOtherAction, RefuseInsert, RefuseSwitch,
         RefreshVerified, ReadStatus, ReadStats, CheckCooldown, LoseSwap, At
    <3>2. req \in [Requests -> Request] /\ Idle.pc = "idle"
      BY DEF TypeOK, Idle, Locals
    <3>3. Finish(r) => req'[r].pc # "record"
      BY <3>2 DEF Finish
    <3>4. \A pc : Goto(r, pc) => req'[r].pc = pc
      BY <3>2 DEF Goto, Request
    <3>5. req'[r].pc # "record"
      <4>1. CASE RefuseInsert(r) \/ RefuseSwitch(r) \/ LoseSwap(r)
        BY <3>3, <4>1 DEF RefuseInsert, RefuseSwitch, LoseSwap
      <4>2. CASE FoundOtherAction(r) \/ RefreshVerified(r)
        BY <3>4, <4>2 DEF FoundOtherAction, RefreshVerified
      <4>3. CASE CheckCooldown(r)
        <5>1. Finish(r) \/ Goto(r, "cas")
          BY <4>3 DEF CheckCooldown
        <5> QED
          BY <3>3, <3>4, <5>1
      <4>4. CASE CountContributions(r)
        BY <3>2, <4>4 DEF CountContributions
      <4>5. CASE ReadStatus(r)
        BY <3>2, <4>5 DEF ReadStatus
      <4>6. CASE ReadStats(r)
        <5>1. CASE Finish(r)
          BY <3>3, <5>1
        <5>2. ASSUME NEW i,
                     req' = [req EXCEPT ![r].pc = IF Rules[i].from = "hidden" /\ Rules[i].to = "active"
                                                    THEN "cooldown" ELSE "cas",
                                        ![r].rule = i,
                                        ![r].counted = OnlyVotes(rows[req[r].cam], Rules[i].trigger)]
              PROVE  req'[r].pc # "record"
          BY <3>2, <5>2
        <5> QED
          BY <4>6, <5>1, <5>2 DEF ReadStats
      <4> QED
        BY <2>6, <4>1, <4>2, <4>3, <4>4, <4>5, <4>6
    <3> QED
      BY <3>1, <3>5, LocalMaps
  <2> QED
    BY <1>3, <2>1, <2>2, <2>3, <2>4, <2>5, <2>6 DEF Step
<1> QED
  BY <1>1, <1>2, <1>3 DEF Next, Serial, Unreliable

LEMMA PromiseInit == Serial /\ TypeOK /\ SerialInv /\ Init => Promise!Init
<1> SUFFICES ASSUME Serial, TypeOK, SerialInv, Init
             PROVE  Promise!Init
  OBVIOUS
<1>1. \A r \in Requests : ~At(r, "record")
  BY DEF Init, Idle, Locals, At
<1>2. Votes = BareVotes(rows) /\ Hidden = HiddenDates(timeline)
  BY <1>1, MappingHolds DEF Mapping
<1>3. Votes = [cam \in Cameras |-> [c \in Contributors |-> NoRow]]
  BY <1>2 DEF Init, BareVotes, NoVotes, Bare
<1>4. Hidden = [cam \in Cameras |-> -1]
  BY <1>2 DEF Init, HiddenDates, LastHidden, Latest
<1> QED
  BY <1>3, <1>4 DEF Init, Promise!Init, Votes, Hidden

\* ADR 0021, sections 2 and 4: requests that do not overlap and whose calls do
\* not fail move a record only along the matrix, when standing votes meet its
\* thresholds, consuming them in the same step, and keep the privacy cooldown.
THEOREM SerialKeepsPromise ==
    ASSUME Serial
    PROVE  Spec => KeepsPromise
<1>1. Init => SerialInv
  BY SerialInit
<1>2. TypeOK /\ SerialInv /\ [Next]_vars => SerialInv'
  BY SerialNext
<1>3. Init /\ TypeOK /\ SerialInv => Promise!Init
  BY PromiseInit
<1>4. TypeOK /\ TypeOK' /\ SerialInv /\ SerialInv' /\ [Next]_vars
        => [Promise!Next]_(Promise!vars)
  BY PromiseStep
<1> QED
  BY <1>1, <1>2, <1>3, <1>4, TypeCorrect, PTL DEF Spec, KeepsPromise, Promise!Spec
=============================================================================
