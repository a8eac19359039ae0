------------------------------- MODULE Appeals -------------------------------
(***************************************************************************)
(* Appeals against moderation decisions (db/appeals.ts behind              *)
(* app/api/appeals), together with the review queue whose events they       *)
(* contest and whose records they send back.  Only appeals on cameras are   *)
(* modelled; all filings fall in one window of the appellant limit.         *)
(***************************************************************************)
EXTENDS ReviewQueue

CONSTANTS
    Appellants,       \* contributors who may appeal
    Slots,            \* slots for appeal requests in flight together
    AppealLimit,      \* APPEAL_APPELLANT_RATE_LIMIT_MAX
    MaxAppealRequests \* appeal requests begun at most, over a behaviour

ASSUME AppealsAssumption ==
    Appellants # {} /\ AppealLimit \in Nat /\ MaxAppealRequests \in Nat

VARIABLES
    appeals,          \* moderation_appeals, by row id
    areq,             \* locals of the appeal request in each slot
    astarted          \* appeal requests begun so far (bound)

appealVars == <<vars, appeals, areq, astarted>>

AppealStatuses == {"pending", "upheld", "dismissed", "escalated"}
Decidable == {"pending", "escalated"}
Verdicts == {"uphold", "dismiss", "escalate"}
StatusOf == [uphold |-> "upheld", dismiss |-> "dismissed", escalate |-> "escalated"]
EventNamed == [uphold |-> "appeal-uphold", dismiss |-> "appeal-dismiss",
               escalate |-> "appeal-escalate"]

\* decision is the id of the contested event, by is decided_by.
Appeal == [rec : Records, decision : Nat, by : Reviewers \cup {NoReviewer},
           appellant : Appellants, status : AppealStatuses]

\* n is the contested event of a filing, or the appeal of a decision.
AppealRequest == [pc : {"idle", "duplicate", "count", "file", "apply"}, n : Nat,
                  appellant : Appellants, who : Reviewers \cup {NoReviewer},
                  verdict : Verdicts]
IdleAppeal == [pc |-> "idle", n |-> 0, appellant |-> CHOOSE p \in Appellants : TRUE,
               who |-> NoReviewer, verdict |-> "dismiss"]

AppealTypeOK ==
    /\ TypeOK
    /\ appeals \in Seq(Appeal)
    /\ areq \in [Slots -> AppealRequest]
    /\ astarted \in Nat

AppealInit ==
    /\ Init
    /\ appeals = <<>>
    /\ areq = [s \in Slots |-> IdleAppeal]
    /\ astarted = 0

AtAppeal(s, pc) == areq[s].pc = pc
EndAppeal(s) == areq' = [areq EXCEPT ![s] = IdleAppeal]
AppealGoto(s, pc) == areq' = [areq EXCEPT ![s].pc = pc]
-----------------------------------------------------------------------------
(* fileAppeal.                                                             *)

\* The contested event must claim a change of the entity.
BeginFiling(s, d, p) ==
    /\ AtAppeal(s, "idle") /\ astarted < MaxAppealRequests
    /\ events[d].from # events[d].to
    /\ areq' = [areq EXCEPT ![s] = [IdleAppeal EXCEPT !.pc = "duplicate", !.n = d, !.appellant = p]]
    /\ astarted' = astarted + 1
    /\ UNCHANGED <<vars, appeals>>

PendingAgainst(d) == {i \in DOMAIN appeals : appeals[i].decision = d /\ appeals[i].status = "pending"}

CheckDuplicate(s) ==
    /\ AtAppeal(s, "duplicate")
    /\ IF PendingAgainst(areq[s].n) # {} THEN EndAppeal(s) ELSE AppealGoto(s, "count")
    /\ UNCHANGED <<vars, appeals, astarted>>

FiledBy(p) == {i \in DOMAIN appeals : appeals[i].appellant = p}

CheckLimit(s) ==
    /\ AtAppeal(s, "count")
    /\ IF Cardinality(FiledBy(areq[s].appellant)) >= AppealLimit THEN EndAppeal(s)
       ELSE AppealGoto(s, "file")
    /\ UNCHANGED <<vars, appeals, astarted>>

\* moderation_appeals_pending_decision_unique, and decision_event_id REFERENCES
\* moderation_events(id)
Admitted(d) == PendingAgainst(d) = {} /\ events[d].action # "archived"

\* The appeal and its event, in one batch that the unique index may roll back.
File(s) ==
    LET d == areq[s].n IN
    /\ AtAppeal(s, "file")
    /\ IF Admitted(d)
         THEN /\ appeals' = Append(appeals,
                   [rec |-> events[d].rec, decision |-> d, by |-> NoReviewer,
                    appellant |-> areq[s].appellant, status |-> "pending"])
              /\ events' = Append(events,
                   [rec |-> events[d].rec, from |-> events[d].from, to |-> events[d].to,
                    action |-> "appeal-filed", who |-> NoReviewer, recused |-> FALSE,
                    appeal |-> Len(appeals) + 1])
         ELSE UNCHANGED <<appeals, events>>
    /\ EndAppeal(s)
    /\ UNCHANGED <<status, queue, req, started, astarted>>
-----------------------------------------------------------------------------
(* decideAppeal.                                                           *)

\* The appeal row is read and checked, then the contested event, which nothing
\* ever changes: the reviewer who decided it is excluded.
BeginVerdict(s, a, w, verdict) ==
    /\ AtAppeal(s, "idle") /\ astarted < MaxAppealRequests
    /\ \/ Role[w] = "administrator" /\ appeals[a].status \in Decidable
       \/ Role[w] = "senior_moderator" /\ appeals[a].status = "pending"
    /\ events[appeals[a].decision].who # w
    /\ areq' = [areq EXCEPT ![s] = [IdleAppeal EXCEPT !.pc = "apply", !.n = a, !.who = w,
                                                      !.verdict = verdict]]
    /\ astarted' = astarted + 1
    /\ UNCHANGED <<vars, appeals>>

\* Mutant of StillDecidable: the UPDATE carries no state guard.
AnyAppeal(a) == TRUE
StillDecidable(a) == appeals[a].status \in Decidable

AppealsAfter(s) ==
    LET a == areq[s].n IN
    IF StillDecidable(a)
      THEN [appeals EXCEPT ![a].status = StatusOf[areq[s].verdict], ![a].by = areq[s].who]
      ELSE appeals

VerdictEvent(s, from, to) ==
    [rec |-> appeals[areq[s].n].rec, from |-> from, to |-> to,
     action |-> EventNamed[areq[s].verdict], who |-> areq[s].who, recused |-> FALSE,
     appeal |-> areq[s].n]

\* Mutant of Reopened: the contested decision is undone instead of made again.
Republished(rec) == [status EXCEPT ![rec] = "active"]
Reopened(rec) ==
    IF status[rec] = "deleted" THEN status ELSE [status EXCEPT ![rec] = "pending"]

\* Mutant of QueueReopened: the record goes back without a row to decide it in.
QueueLeftAlone(rec) == queue
\* INSERT ... ON CONFLICT(entity, entity_id) WHERE state != 'closed' DO NOTHING
QueueReopened(rec) == IF OpenRows(rec) = {} THEN Append(queue, NewRow(rec, FALSE)) ELSE queue

\* One batch; only the UPDATE of the appeal is conditional.
Uphold(s) ==
    LET rec == appeals[areq[s].n].rec
        decision == events[appeals[areq[s].n].decision] IN
    /\ AtAppeal(s, "apply") /\ areq[s].verdict = "uphold"
    /\ appeals' = AppealsAfter(s)
    /\ status' = Reopened(rec)
    /\ queue' = QueueReopened(rec)
    /\ events' = Append(events, VerdictEvent(s, decision.to, "pending"))
    /\ EndAppeal(s)
    /\ UNCHANGED <<req, started, astarted>>

DismissOrEscalate(s) ==
    LET decision == events[appeals[areq[s].n].decision] IN
    /\ AtAppeal(s, "apply") /\ areq[s].verdict # "uphold"
    /\ appeals' = AppealsAfter(s)
    /\ events' = Append(events, VerdictEvent(s, decision.from, decision.to))
    /\ EndAppeal(s)
    /\ UNCHANGED <<status, queue, req, started, astarted>>

FailAppeal(s) ==
    /\ CallsCanFail
    /\ ~AtAppeal(s, "idle")
    /\ EndAppeal(s)
    /\ UNCHANGED <<vars, appeals, astarted>>

AppealNext ==
    \/ Next /\ UNCHANGED <<appeals, areq, astarted>>
    \/ \E s \in Slots :
         \/ \E d \in DOMAIN events, p \in Appellants : BeginFiling(s, d, p)
         \/ CheckDuplicate(s) \/ CheckLimit(s) \/ File(s)
         \/ \E a \in DOMAIN appeals, w \in Reviewers, verdict \in Verdicts :
              BeginVerdict(s, a, w, verdict)
         \/ Uphold(s) \/ DismissOrEscalate(s)
         \/ FailAppeal(s)

AppealSpec == AppealInit /\ [][AppealNext]_appealVars
-----------------------------------------------------------------------------
(* What holds under every interleaving.                                    *)

\* However many deciders read the same open appeal, the first verdict stands:
\* once upheld or dismissed, an appeal keeps its status and its decider.
VerdictsAreFinal == [][\A a \in DOMAIN appeals :
    appeals[a].status \notin Decidable => appeals'[a] = appeals[a]]_appealVars

\* One open appeal per decision, also when two contributors file at once.
OneOpenAppeal == \A a, b \in DOMAIN appeals :
    /\ appeals[a].decision = appeals[b].decision
    /\ appeals[a].status = "pending" /\ appeals[b].status = "pending"
    => a = b

\* The batch is all or nothing: an appeal that is upheld has sent its record back to
\* be decided again (unless the retention sweep was faster), with a queue row to
\* decide it in, and says so in the trail.
UpheldIsReviewed == [][\A a \in DOMAIN appeals :
    appeals'[a].status = "upheld" /\ appeals[a].status # "upheld" =>
      /\ status'[appeals[a].rec] \in {"pending", "deleted"}
      /\ OpenRows(appeals[a].rec)' # {}
      /\ events'[Len(events')].appeal = a]_appealVars
-----------------------------------------------------------------------------
(* What the documentation says and some sequence of requests refutes.      *)

\* "dismiss: the original decision stands": no verdict that lost to the dismissal
\* sends the record back.
DismissalStands == \A a \in DOMAIN appeals :
    appeals[a].status = "dismissed" =>
      \A i \in DOMAIN events : events[i].appeal = a => events[i].action # "appeal-uphold"

\* "the reviewer who made the original decision is blocked": whoever decides an
\* appeal did not make any decision on the record that is being contested, also
\* when the appeal names the event of an earlier appeal against it.
ContestedBy(a) ==
    LET d == appeals[a].decision IN
    IF events[d].action \in CameraActions THEN events[d].who
    ELSE IF events[d].appeal \in DOMAIN appeals
      THEN events[appeals[events[d].appeal].decision].who
    ELSE NoReviewer
IndependentDecider == \A a \in DOMAIN appeals :
    appeals[a].by # NoReviewer => appeals[a].by # ContestedBy(a)
=============================================================================
