--------------------------- MODULE RetentionProofs ---------------------------
(***************************************************************************)
(* Proofs about Appeals next to the review queue, and about Retention, the    *)
(* sweep next to both: for any records, reviewers, appellants, windows, chunk *)
(* size and requests in flight, and with calls that fail.                   *)
(*                                                                         *)
(* Every step of Appeals is described once, by what it does to the log        *)
(* (LogStep) and to the appeals (AppealsKept, AppealsOpened).  A step of       *)
(* Retention is one of four kinds: it is served (the log and the appeals grow, *)
(* the sweep rests), the sweep chooses what it does next, it purges a record, *)
(* or it archives events.                                                   *)
(***************************************************************************)
EXTENDS Retention, ReviewQueueProofs

\* What a request about an appeal knows, and what an appeal refers to.
SlotOK(r) ==
    /\ r \in AppealRequest
    /\ r.pc \in {"duplicate", "count", "file"} => r.n \in DOMAIN events
    /\ r.pc = "apply" => r.n \in DOMAIN appeals /\ r.who \in Reviewers
AppealRows ==
    /\ appeals \in Seq(Appeal) /\ astarted \in Nat
    /\ \A a \in DOMAIN appeals : appeals[a].decision \in DOMAIN events
    /\ \A i \in DOMAIN events : events[i].action = "appeal-filed" => events[i].appeal \in DOMAIN appeals
SlotsKnow == areq \in [Slots -> AppealRequest] /\ \A s \in Slots : SlotOK(areq[s])
AppealInv == TypeOK /\ AppealRows /\ SlotsKnow
-----------------------------------------------------------------------------
(* What a step does to the log.                                            *)

\* One event is appended; if it claims a change of its record, the record has what it
\* claims, unless the record has been purged, which nothing brings back.
Logged(e) ==
    /\ e \in Event /\ events' = Append(events, e)
    /\ status' \in [Records -> Statuses]
    /\ \A rec \in Records : rec # e.rec => status'[rec] = status[rec]
    /\ status[e.rec] = "deleted" =>
         status'[e.rec] = "deleted" /\ (e.action \in CameraActions => e.from = e.to)
    /\ status[e.rec] # "deleted" => /\ status'[e.rec] # "deleted"
                                    /\ status'[e.rec] = IF ClaimsChange(e) THEN e.to ELSE status[e.rec]
    /\ e.action # "archived"
LogStep == UNCHANGED <<status, events>> \/ \E e \in Event : Logged(e)

LEMMA ReviewLog ==
    ASSUME TypeOK, [Next]_vars
    PROVE  \/ UNCHANGED <<status, events>>
           \/ \E e \in Event : Logged(e) /\ e.action \in CameraActions
<1>1. ASSUME NEW s \in Requests, Recuse(s) \/ Escalate(s) \/ RecordIntent(s)
      PROVE  \E e \in Event : Logged(e) /\ e.action \in CameraActions
  <2>1. PICK recused \in BOOLEAN : events' = Append(events, EventOf(s, req[s].from, recused))
    BY <1>1 DEF Recuse, Escalate, RecordIntent
  <2>2. status' = status
    BY <1>1 DEF Recuse, Escalate, RecordIntent
  <2> DEFINE e == EventOf(s, req[s].from, recused)
  <2>3. e \in Event
    BY EventOfType DEF TypeOK, Request
  <2>4. ~ClaimsChange(e) /\ e.action \in CameraActions /\ e.from = e.to /\ e.action # "archived"
    BY DEF ClaimsChange, EventOf, TypeOK, Request, CameraActions
  <2> HIDE DEF e
  <2> QED
    BY <2>1, <2>2, <2>3, <2>4 DEF Logged, TypeOK, e
<1>2. ASSUME NEW s \in Requests, Decide(s)
      PROVE  \/ UNCHANGED <<status, events>>
             \/ \E e \in Event : Logged(e) /\ e.action \in CameraActions
  <2>1. PICK to \in Outcome(req[s].from, req[s].action) :
          /\ status' = IF StatusAsRead(s) THEN [status EXCEPT ![req[s].rec] = to] ELSE status
          /\ events' = IF EventLands(s, to) THEN Append(events, EventOf(s, to, FALSE)) ELSE events
    BY <1>2 DEF Decide
  <2> DEFINE e == EventOf(s, to, FALSE)
  <2>2. req[s].rec \in Records /\ req[s].from \in Statuses
    BY DEF TypeOK, Request
  <2>3. to \in Statuses \ {"deleted"} /\ to # req[s].from /\ req[s].action \in CameraActions
    BY <2>2, OutcomeType
  <2>4. req[s].from # "deleted"
    BY <2>1 DEF Outcome, CameraActions
  <2>5. e \in Event /\ e.rec = req[s].rec /\ e.to = to /\ e.action = req[s].action /\ ClaimsChange(e)
    BY <2>3, EventOfType DEF EventOf, ClaimsChange
  <2>6. e.action # "archived"
    BY <2>3, <2>5 DEF CameraActions
  <2> HIDE DEF e
  <2>7. CASE EventLands(s, to)
    <3>1. events' = Append(events, e) /\ status'[e.rec] = to
      BY <2>1, <2>5, <2>7 DEF EventLands, e
    <3>2. status' \in [Records -> Statuses] /\ \A rec \in Records : rec # e.rec => status'[rec] = status[rec]
      BY <2>1, <2>2, <2>3, <2>5 DEF TypeOK
    <3>3. status[e.rec] # "deleted"
      BY <2>1, <2>2, <2>3, <2>4, <2>5, <3>1 DEF StatusAsRead, TypeOK
    <3>4. Logged(e)
      BY <2>3, <2>5, <2>6, <3>1, <3>2, <3>3 DEF Logged
    <3> QED
      BY <2>3, <2>5, <3>4
  <2>8. CASE ~EventLands(s, to)
    <3>1. ~StatusAsRead(s)
      BY <2>1, <2>2, <2>8 DEF EventLands, TypeOK
    <3> QED
      BY <2>1, <2>8, <3>1
  <2> QED
    BY <2>7, <2>8
<1> QED
  BY <1>1, <1>2 DEF Next, Step, Begin, FindQueueItem, OpenQueueItem,
                    LookUpFirstReviewer, FailRequest, vars

\* The log only grows.
LogGrows ==
    /\ DOMAIN events \subseteq DOMAIN events'
    /\ \A i \in DOMAIN events : events'[i] = events[i]

LEMMA LogStepGrows ==
    ASSUME events \in Seq(Event), LogStep
    PROVE  LogGrows /\ events' \in Seq(Event)
BY AppendKeeps DEF LogStep, Logged, LogGrows
-----------------------------------------------------------------------------
(* What a step does to the appeals.                                        *)

\* The rows that are there: a decided one is never touched again.
AppealsKept ==
    /\ DOMAIN appeals \subseteq DOMAIN appeals'
    /\ \A a \in DOMAIN appeals :
         /\ appeals'[a].rec = appeals[a].rec /\ appeals'[a].decision = appeals[a].decision
         /\ appeals[a].status \notin Decidable => appeals'[a] = appeals[a]
         /\ appeals'[a].status = "pending" => appeals[a].status = "pending"
\* A new one contests an event of the log that no pending appeal contests.
AppealsOpened ==
    \/ DOMAIN appeals' = DOMAIN appeals
    \/ \E n : /\ n \notin DOMAIN appeals /\ DOMAIN appeals' = DOMAIN appeals \cup {n}
              /\ appeals' = Append(appeals, appeals'[n]) /\ n = Len(appeals) + 1
              /\ Admitted(appeals'[n].decision) /\ appeals'[n].decision \in DOMAIN events
              /\ appeals'[n].status = "pending"
              /\ events'[Len(events')].action = "appeal-filed"

LEMMA IdleAppealType == IdleAppeal \in AppealRequest /\ IdleAppeal.pc = "idle"
<1>1. (CHOOSE p \in Appellants : TRUE) \in Appellants
  BY AppealsAssumption
<1> QED
  BY <1>1 DEF IdleAppeal, AppealRequest, Verdicts

LEMMA SlotMoves ==
    ASSUME SlotsKnow, LogGrows, AppealsKept, NEW s \in Slots, NEW r \in AppealRequest, SlotOK(r)',
           areq' = [areq EXCEPT ![s] = r]
    PROVE  SlotsKnow'
<1>1. areq' \in [Slots -> AppealRequest] /\ areq'[s] = r /\ \A t \in Slots \ {s} : areq'[t] = areq[t]
  BY DEF SlotsKnow
<1>2. ASSUME NEW t \in Slots, t # s PROVE SlotOK(areq[t])'
  <2>1. SlotOK(areq[t])
    BY DEF SlotsKnow
  <2> QED
    BY <1>1, <1>2, <2>1 DEF SlotOK, LogGrows, AppealsKept
<1>3. SlotOK(areq[s])'
  BY <1>1 DEF SlotOK
<1> QED
  BY <1>1, <1>2, <1>3 DEF SlotsKnow

LEMMA SlotEnds ==
    ASSUME SlotsKnow, LogGrows, AppealsKept, NEW s \in Slots, EndAppeal(s)
    PROVE  SlotsKnow'
<1>1. SlotOK(IdleAppeal)'
  BY IdleAppealType DEF SlotOK
<1> QED
  BY <1>1, IdleAppealType, SlotMoves DEF EndAppeal

\* A step that leaves all tables alone.
LEMMA RowsRest ==
    ASSUME AppealInv, UNCHANGED <<vars, appeals>>
    PROVE  TypeOK' /\ AppealsKept /\ AppealsOpened /\ LogStep /\ LogGrows
           /\ (astarted' \in Nat => AppealRows')
BY DEF AppealInv, vars, TypeOK, AppealsKept, AppealsOpened, LogStep, LogGrows, AppealRows

\* What every step of an appeal request keeps.
AppealStepOK == AppealInv' /\ LogStep /\ AppealsKept /\ AppealsOpened

LEMMA FilingSteps ==
    ASSUME AppealInv, NEW s \in Slots,
           \/ \E d \in DOMAIN events, p \in Appellants : BeginFiling(s, d, p)
           \/ CheckDuplicate(s) \/ CheckLimit(s) \/ FailAppeal(s)
           \/ \E a \in DOMAIN appeals, w \in Reviewers, verdict \in Verdicts :
                BeginVerdict(s, a, w, verdict)
    PROVE  AppealStepOK
<1>1. UNCHANGED <<vars, appeals>> /\ astarted' \in Nat
  <2>1. astarted \in Nat
    BY DEF AppealInv, AppealRows
  <2>2. UNCHANGED <<vars, appeals>> /\ (astarted' = astarted \/ astarted' = astarted + 1)
    BY Zenon DEF BeginFiling, CheckDuplicate, CheckLimit, FailAppeal, BeginVerdict
  <2> QED
    BY <2>1, <2>2
<1>2. TypeOK' /\ AppealsKept /\ AppealsOpened /\ LogStep /\ LogGrows /\ AppealRows'
  BY <1>1, RowsRest
<1>3. SlotsKnow
  BY DEF AppealInv
<1>4. ASSUME NEW d \in DOMAIN events, NEW p \in Appellants, BeginFiling(s, d, p) PROVE SlotsKnow'
  <2>1. PICK r : r = [IdleAppeal EXCEPT !.pc = "duplicate", !.n = d, !.appellant = p]
    OBVIOUS
  <2>2. d \in Nat
    BY DEF AppealInv, TypeOK
  <2>3. r \in AppealRequest /\ r.pc = "duplicate" /\ r.n = d
    BY <2>1, <2>2, IdleAppealType DEF AppealRequest
  <2>4. SlotOK(r)'
    BY <1>2, <2>3 DEF SlotOK, LogGrows
  <2>5. areq' = [areq EXCEPT ![s] = r]
    BY <1>4, <2>1 DEF BeginFiling
  <2> QED
    BY <1>2, <1>3, <2>3, <2>4, <2>5, SlotMoves
<1>5. ASSUME NEW a \in DOMAIN appeals, NEW w \in Reviewers, NEW verdict \in Verdicts,
             BeginVerdict(s, a, w, verdict)
      PROVE  SlotsKnow'
  <2>1. PICK r : r = [IdleAppeal EXCEPT !.pc = "apply", !.n = a, !.who = w, !.verdict = verdict]
    OBVIOUS
  <2>2. a \in Nat
    BY DEF AppealInv, AppealRows
  <2>3. r \in AppealRequest /\ r.pc = "apply" /\ r.n = a /\ r.who = w
    BY <2>1, <2>2, IdleAppealType DEF AppealRequest
  <2>4. SlotOK(r)'
    BY <1>2, <2>3 DEF SlotOK, AppealsKept
  <2>5. areq' = [areq EXCEPT ![s] = r]
    BY <1>5, <2>1 DEF BeginVerdict
  <2> QED
    BY <1>2, <1>3, <2>3, <2>4, <2>5, SlotMoves
<1>6. ASSUME EndAppeal(s) PROVE SlotsKnow'
  BY <1>2, <1>3, <1>6, SlotEnds
<1>7. ASSUME NEW pc \in {"count", "file"}, AppealGoto(s, pc), areq[s].pc \in {"duplicate", "count"}
      PROVE  SlotsKnow'
  <2>1. PICK r : r = [areq[s] EXCEPT !.pc = pc]
    OBVIOUS
  <2>2. areq[s] \in AppealRequest /\ areq[s].n \in DOMAIN events
    BY <1>3, <1>7 DEF SlotsKnow, SlotOK
  <2>3. r \in AppealRequest /\ r.pc = pc /\ r.n \in DOMAIN events
    BY <2>1, <2>2 DEF AppealRequest
  <2>4. SlotOK(r)'
    BY <1>2, <2>3 DEF SlotOK, LogGrows
  <2>5. areq' = [areq EXCEPT ![s] = r]
    BY <1>7, <2>1 DEF AppealGoto
  <2> QED
    BY <1>2, <1>3, <2>3, <2>4, <2>5, SlotMoves
<1>8. ASSUME CheckDuplicate(s) \/ CheckLimit(s) \/ FailAppeal(s) PROVE SlotsKnow'
  BY <1>6, <1>7, <1>8 DEF CheckDuplicate, CheckLimit, FailAppeal, AtAppeal
<1> QED
  BY <1>2, <1>4, <1>5, <1>8 DEF AppealStepOK, AppealInv

LEMMA FileStep ==
    ASSUME AppealInv, NEW s \in Slots, File(s)
    PROVE  AppealStepOK /\ \A a \in DOMAIN appeals : appeals'[a] = appeals[a]
<1>1. PICK d : d = areq[s].n
  OBVIOUS
<1>2. d \in DOMAIN events /\ events[d] \in Event /\ areq[s].appellant \in Appellants
  BY <1>1, ElementOfSeq, DOMAIN events = 1..Len(events)
  DEF AppealInv, TypeOK, SlotsKnow, SlotOK, File, AtAppeal, AppealRequest
<1>3. CASE ~Admitted(d)
  <2>1. UNCHANGED <<vars, appeals, astarted>>
    BY <1>1, <1>3 DEF File, vars
  <2> QED
    BY <2>1, RowsRest, SlotEnds DEF File, AppealStepOK, AppealInv, AppealRows
<1>4. CASE Admitted(d)
  <2>1. PICK row : row = [rec |-> events[d].rec, decision |-> d, by |-> NoReviewer,
                          appellant |-> areq[s].appellant, status |-> "pending"]
    OBVIOUS
  <2>2. PICK e : e = [rec |-> events[d].rec, from |-> events[d].from, to |-> events[d].to,
                      action |-> "appeal-filed", who |-> NoReviewer, recused |-> FALSE,
                      appeal |-> Len(appeals) + 1]
    OBVIOUS
  <2>3. appeals' = Append(appeals, row) /\ events' = Append(events, e)
    BY <1>1, <1>4, <2>1, <2>2 DEF File
  <2>4. UNCHANGED <<status, queue, req, started, astarted>>
    BY DEF File
  <2>5. row \in Appeal /\ row.decision = d /\ row.status = "pending"
    BY <1>2, <2>1 DEF Appeal, AppealStatuses, AppealInv, TypeOK, Event
  <2>6. appeals \in Seq(Appeal) /\ Len(appeals) \in Nat
    BY LenProperties DEF AppealInv, AppealRows
  <2>7. e \in Event /\ e.action = "appeal-filed" /\ e.appeal = Len(appeals) + 1
    BY <1>2, <2>2, <2>6 DEF Event, EventActions
  <2>8. ~ClaimsChange(e) /\ e.action \notin CameraActions /\ e.action # "archived"
    BY <2>7 DEF ClaimsChange, CameraActions, OutcomeActions
  <2>9. Logged(e)
    BY <2>3, <2>4, <2>7, <2>8 DEF Logged, AppealInv, TypeOK
  <2>10. LogStep /\ LogGrows /\ events' \in Seq(Event)
    BY <2>7, <2>9, LogStepGrows DEF LogStep, AppealInv, TypeOK
  <2>11. /\ appeals' \in Seq(Appeal) /\ DOMAIN appeals' = DOMAIN appeals \cup {Len(appeals) + 1}
         /\ Len(appeals) + 1 \notin DOMAIN appeals
         /\ \A a \in DOMAIN appeals : appeals'[a] = appeals[a]
         /\ appeals'[Len(appeals) + 1] = row
    BY <2>3, <2>5, <2>6, AppendKeeps
  <2>12. AppealsKept
    BY <2>11 DEF AppealsKept
  <2>13. /\ DOMAIN events' = DOMAIN events \cup {Len(events) + 1} /\ events'[Len(events) + 1] = e
         /\ Len(events') = Len(events) + 1
    BY <2>3, <2>7, AppendKeeps, AppendProperties DEF AppealInv, TypeOK
  <2>14. AppealsOpened
    BY <1>2, <1>4, <2>3, <2>5, <2>7, <2>11, <2>13 DEF AppealsOpened
  <2>15. AppealRows'
    BY <1>2, <2>4, <2>5, <2>7, <2>10, <2>11, <2>13 DEF AppealRows, AppealInv, LogGrows
  <2>16. TypeOK'
    BY <2>4, <2>10 DEF AppealInv, TypeOK
  <2>17. SlotsKnow'
    BY <2>10, <2>12, SlotEnds DEF AppealInv, File
  <2> QED
    BY <2>10, <2>11, <2>12, <2>14, <2>15, <2>16, <2>17 DEF AppealStepOK, AppealInv
<1> QED
  BY <1>3, <1>4
-----------------------------------------------------------------------------
(* Verdicts.                                                               *)

\* The UPDATE of an appeal touches its row only, and only while it is open.
LEMMA VerdictRow ==
    ASSUME AppealInv, NEW s \in Slots, AtAppeal(s, "apply"), appeals' = AppealsAfter(s)
    PROVE  /\ areq[s].n \in DOMAIN appeals /\ areq[s].who \in Reviewers /\ areq[s].verdict \in Verdicts
           /\ appeals' \in Seq(Appeal) /\ DOMAIN appeals' = DOMAIN appeals
           /\ \A a \in DOMAIN appeals : appeals[a] \in Appeal
           /\ AppealsKept /\ AppealsOpened
           /\ \A a \in DOMAIN appeals :
                appeals'[a].status # appeals[a].status =>
                  a = areq[s].n /\ appeals'[a].status = StatusOf[areq[s].verdict]
<1>1. PICK n, w, verdict : n = areq[s].n /\ w = areq[s].who /\ verdict = areq[s].verdict
  OBVIOUS
<1>2. n \in DOMAIN appeals /\ w \in Reviewers /\ verdict \in Verdicts
  BY <1>1 DEF AppealInv, SlotsKnow, SlotOK, AtAppeal, AppealRequest
<1>3. PICK was : was = appeals[n]
  OBVIOUS
<1>4. appeals \in Seq(Appeal) /\ \A a \in DOMAIN appeals : appeals[a] \in Appeal
  BY ElementOfSeq, DOMAIN appeals = 1..Len(appeals) DEF AppealInv, AppealRows
<1>5. StatusOf[verdict] \in {"upheld", "dismissed", "escalated"}
  BY <1>2 DEF StatusOf, Verdicts
<1>6. PICK row : row = [was EXCEPT !.status = StatusOf[verdict], !.by = w]
  OBVIOUS
<1>7. row \in Appeal /\ row.rec = was.rec /\ row.decision = was.decision /\ row.status = StatusOf[verdict]
  BY <1>2, <1>3, <1>4, <1>5, <1>6 DEF Appeal, AppealStatuses
<1>8. CASE was.status \in Decidable
  <2>1. appeals' = [appeals EXCEPT ![n] = row]
    BY <1>1, <1>3, <1>6, <1>8 DEF AppealsAfter, StillDecidable
  <2>2. appeals' \in Seq(Appeal) /\ DOMAIN appeals' = DOMAIN appeals
    BY <1>2, <1>4, <1>7, <2>1, ExceptSeq
  <2>3. appeals'[n] = row /\ \A a \in DOMAIN appeals \ {n} : appeals'[a] = appeals[a]
    BY <1>2, <2>1
  <2>4. AppealsKept
    BY <1>3, <1>5, <1>7, <1>8, <2>2, <2>3 DEF AppealsKept
  <2> QED
    BY <1>1, <1>2, <1>4, <1>7, <2>2, <2>3, <2>4 DEF AppealsOpened
<1>9. CASE was.status \notin Decidable
  <2>1. appeals' = appeals
    BY <1>1, <1>3, <1>9 DEF AppealsAfter, StillDecidable
  <2> QED
    BY <1>1, <1>2, <1>4, <2>1 DEF AppealsKept, AppealsOpened
<1> QED
  BY <1>8, <1>9

\* An event that names an appeal is no filing and leaves the tables typed.
LEMMA VerdictRows ==
    ASSUME AppealInv, LogGrows, AppealsKept, DOMAIN appeals' = DOMAIN appeals,
           appeals' \in Seq(Appeal), astarted' = astarted,
           NEW e, e.action # "appeal-filed", events' = Append(events, e), e \in Event
    PROVE  AppealRows'
<1>1. /\ DOMAIN events' = DOMAIN events \cup {Len(events) + 1} /\ events'[Len(events) + 1] = e
  BY AppendKeeps DEF AppealInv, TypeOK
<1> QED
  BY <1>1 DEF AppealInv, AppealRows, LogGrows, AppealsKept

LEMMA VerdictEventType ==
    ASSUME AppealInv, NEW s \in Slots, AtAppeal(s, "apply"), NEW from \in Statuses, NEW to \in Statuses,
           NEW e, e = VerdictEvent(s, from, to)
    PROVE  /\ e \in Event /\ e.rec = appeals[areq[s].n].rec /\ e.from = from /\ e.to = to
           /\ e.action = EventNamed[areq[s].verdict] /\ e.appeal = areq[s].n
           /\ e.action \notin {"appeal-filed", "archived"} \cup CameraActions
           /\ (e.action = "appeal-uphold") = (areq[s].verdict = "uphold")
           /\ ~(e.action \in OutcomeActions)
<1>1. areq[s] \in AppealRequest /\ areq[s].n \in DOMAIN appeals /\ areq[s].who \in Reviewers
  BY DEF AppealInv, SlotsKnow, SlotOK, AtAppeal
<1>2. areq[s].verdict \in Verdicts /\ areq[s].n \in Nat
  BY <1>1 DEF AppealRequest
<1>3. appeals[areq[s].n] \in Appeal
  BY <1>1, ElementOfSeq, DOMAIN appeals = 1..Len(appeals) DEF AppealInv, AppealRows
<1>4. /\ EventNamed[areq[s].verdict] \in {"appeal-uphold", "appeal-dismiss", "appeal-escalate"}
      /\ (EventNamed[areq[s].verdict] = "appeal-uphold") = (areq[s].verdict = "uphold")
  BY <1>2 DEF EventNamed, Verdicts
<1>5. appeals[areq[s].n].rec \in Records
  BY <1>3 DEF Appeal
<1>7. /\ e.rec = appeals[areq[s].n].rec /\ e.from = from /\ e.to = to
      /\ e.action = EventNamed[areq[s].verdict] /\ e.appeal = areq[s].n
  BY DEF VerdictEvent
<1>8. e \in Event
  BY <1>1, <1>2, <1>4, <1>5 DEF VerdictEvent, Event, EventActions
<1>9. e.action \notin {"appeal-filed", "archived"} \cup CameraActions /\ ~(e.action \in OutcomeActions)
  BY <1>4, <1>7 DEF CameraActions, OutcomeActions
<1> QED
  BY <1>4, <1>7, <1>8, <1>9

\* What UpheldIsReviewed says of one step.
Reviewed == \A a \in DOMAIN appeals :
    appeals'[a].status = "upheld" /\ appeals[a].status # "upheld" =>
      /\ status'[appeals[a].rec] \in {"pending", "deleted"}
      /\ OpenRows(appeals[a].rec)' # {}
      /\ events'[Len(events')].appeal = a

LEMMA QueueReopens ==
    ASSUME TypeOK, NEW rec \in Records, queue' = QueueReopened(rec)
    PROVE  queue' \in Seq(QueueRow) /\ DOMAIN queue \subseteq DOMAIN queue' /\ OpenRows(rec)' # {}
<1>0. PICK row : row = NewRow(rec, FALSE)
  OBVIOUS
<1>1. row \in QueueRow /\ row.rec = rec /\ row.state = "queued"
  BY <1>0 DEF NewRow, QueueRow, QueueStates
<1>2. CASE OpenRows(rec) = {}
  <2>1. queue' = Append(queue, row) /\ queue \in Seq(QueueRow)
    BY <1>0, <1>2 DEF QueueReopened, TypeOK
  <2>2. /\ queue' \in Seq(QueueRow) /\ DOMAIN queue' = DOMAIN queue \cup {Len(queue) + 1}
        /\ queue'[Len(queue) + 1] = row
    BY <1>1, <2>1, AppendKeeps
  <2>3. Len(queue) + 1 \in OpenRows(rec)'
    BY <1>1, <2>2 DEF OpenRows
  <2> QED
    BY <2>2, <2>3
<1>3. CASE OpenRows(rec) # {}
  BY <1>3 DEF QueueReopened, OpenRows, TypeOK
<1> QED
  BY <1>2, <1>3

LEMMA UpholdStep ==
    ASSUME AppealInv, NEW s \in Slots, Uphold(s)
    PROVE  AppealStepOK /\ Reviewed
<1>1. PICK n, rec, from : /\ n = areq[s].n /\ rec = appeals[n].rec
                          /\ from = events[appeals[n].decision].to
  OBVIOUS
<1>2. /\ AtAppeal(s, "apply") /\ appeals' = AppealsAfter(s) /\ areq[s].verdict = "uphold"
      /\ status' = Reopened(rec) /\ queue' = QueueReopened(rec)
      /\ events' = Append(events, VerdictEvent(s, from, "pending"))
      /\ EndAppeal(s) /\ UNCHANGED <<req, started, astarted>>
  BY <1>1 DEF Uphold
<1>3. /\ n \in DOMAIN appeals /\ appeals[n] \in Appeal /\ appeals' \in Seq(Appeal)
      /\ DOMAIN appeals' = DOMAIN appeals /\ AppealsKept /\ AppealsOpened
      /\ \A a \in DOMAIN appeals :
           appeals'[a].status # appeals[a].status => a = n
  BY <1>1, <1>2, VerdictRow
<1>4. rec \in Records /\ appeals[n].decision \in DOMAIN events
  BY <1>1, <1>3 DEF Appeal, AppealInv, AppealRows
<1>5. events[appeals[n].decision] \in Event
  BY <1>4, ElementOfSeq, DOMAIN events = 1..Len(events) DEF AppealInv, TypeOK
<1>6. from \in Statuses /\ "pending" \in Statuses
  BY <1>1, <1>5 DEF Event, Statuses
<1>7. PICK e : e = VerdictEvent(s, from, "pending")
  OBVIOUS
<1>8. /\ e \in Event /\ e.rec = rec /\ e.to = "pending" /\ e.action = "appeal-uphold" /\ e.appeal = n
      /\ e.action \notin {"appeal-filed", "archived"} \cup CameraActions
  <2>1. /\ e \in Event /\ e.rec = appeals[areq[s].n].rec /\ e.to = "pending" /\ e.appeal = areq[s].n
        /\ (e.action = "appeal-uphold") = (areq[s].verdict = "uphold")
        /\ e.action \notin {"appeal-filed", "archived"} \cup CameraActions
    BY <1>2, <1>6, <1>7, VerdictEventType
  <2> QED
    BY <1>1, <1>2, <2>1
<1>9. events' = Append(events, e)
  BY <1>2, <1>7
<1>10. Logged(e)
  <2>1. ClaimsChange(e)
    BY <1>8 DEF ClaimsChange
  <2>2. status \in [Records -> Statuses]
    BY DEF AppealInv, TypeOK
  <2>3. status' \in [Records -> Statuses] /\ \A x \in Records : x # rec => status'[x] = status[x]
    BY <1>2, <1>4, <1>6, <2>2 DEF Reopened
  <2>4. status[rec] = "deleted" => status'[rec] = "deleted"
    BY <1>2 DEF Reopened
  <2>5. status[rec] # "deleted" => status'[rec] = "pending"
    BY <1>2, <1>4, <2>2 DEF Reopened
  <2> QED
    BY <1>8, <1>9, <2>1, <2>3, <2>4, <2>5 DEF Logged
<1>11. LogStep /\ LogGrows /\ events' \in Seq(Event)
  BY <1>8, <1>10, LogStepGrows DEF LogStep, AppealInv, TypeOK
<1>12. TypeOK
  BY DEF AppealInv
<1>13. queue' \in Seq(QueueRow) /\ DOMAIN queue \subseteq DOMAIN queue' /\ OpenRows(rec)' # {}
  BY <1>2, <1>4, <1>12, QueueReopens
<1>14. TypeOK'
  BY <1>2, <1>10, <1>11, <1>12, <1>13 DEF TypeOK, Logged
<1>15. AppealRows'
  BY <1>2, <1>3, <1>8, <1>9, <1>11, VerdictRows
<1>16. SlotsKnow'
  BY <1>2, <1>3, <1>11, SlotEnds DEF AppealInv
<1>17. Reviewed
  <2>1. events'[Len(events')] = e
    BY <1>8, <1>9, <1>12, AppendProperties DEF TypeOK
  <2>2. status'[rec] \in {"pending", "deleted"}
    BY <1>2, <1>4, <1>12 DEF Reopened, TypeOK
  <2> QED
    BY <1>1, <1>3, <1>8, <1>13, <2>1, <2>2 DEF Reviewed, AppealsKept, OpenRows
<1> QED
  BY <1>3, <1>11, <1>14, <1>15, <1>16, <1>17 DEF AppealStepOK, AppealInv

LEMMA DismissStep ==
    ASSUME AppealInv, NEW s \in Slots, DismissOrEscalate(s)
    PROVE  AppealStepOK /\ Reviewed
<1>1. PICK n, from, to : /\ n = areq[s].n /\ from = events[appeals[n].decision].from
                         /\ to = events[appeals[n].decision].to
  OBVIOUS
<1>2. /\ AtAppeal(s, "apply") /\ appeals' = AppealsAfter(s) /\ areq[s].verdict # "uphold"
      /\ events' = Append(events, VerdictEvent(s, from, to))
      /\ EndAppeal(s) /\ UNCHANGED <<status, queue, req, started, astarted>>
  BY <1>1 DEF DismissOrEscalate
<1>3. /\ n \in DOMAIN appeals /\ appeals[n] \in Appeal /\ appeals' \in Seq(Appeal)
      /\ DOMAIN appeals' = DOMAIN appeals /\ AppealsKept /\ AppealsOpened
      /\ areq[s].verdict \in Verdicts
      /\ \A a \in DOMAIN appeals :
           appeals'[a].status # appeals[a].status => appeals'[a].status = StatusOf[areq[s].verdict]
  BY <1>1, <1>2, VerdictRow
<1>4. appeals[n].decision \in DOMAIN events
  BY <1>3 DEF AppealInv, AppealRows
<1>5. events[appeals[n].decision] \in Event
  BY <1>4, ElementOfSeq, DOMAIN events = 1..Len(events) DEF AppealInv, TypeOK
<1>6. from \in Statuses /\ to \in Statuses
  BY <1>1, <1>5 DEF Event
<1>7. PICK e : e = VerdictEvent(s, from, to)
  OBVIOUS
<1>8. /\ e \in Event /\ e.action # "appeal-uphold"
      /\ e.action \notin {"appeal-filed", "archived"} \cup CameraActions /\ e.action \notin OutcomeActions
  BY <1>2, <1>6, <1>7, VerdictEventType
<1>9. events' = Append(events, e)
  BY <1>2, <1>7
<1>10. Logged(e)
  BY <1>2, <1>8, <1>9 DEF Logged, ClaimsChange, AppealInv, TypeOK
<1>11. LogStep /\ LogGrows /\ events' \in Seq(Event)
  BY <1>8, <1>10, LogStepGrows DEF LogStep, AppealInv, TypeOK
<1>12. TypeOK'
  BY <1>2, <1>11 DEF AppealInv, TypeOK
<1>13. AppealRows'
  BY <1>2, <1>3, <1>8, <1>9, <1>11, VerdictRows
<1>14. SlotsKnow'
  BY <1>2, <1>3, <1>11, SlotEnds DEF AppealInv
<1>15. StatusOf[areq[s].verdict] # "upheld"
  BY <1>2, <1>3 DEF StatusOf, Verdicts
<1>16. Reviewed
  BY <1>3, <1>15 DEF Reviewed
<1> QED
  BY <1>3, <1>11, <1>12, <1>13, <1>14, <1>16 DEF AppealStepOK, AppealInv

\* Every step of the specification.
LEMMA AppealSteps ==
    ASSUME AppealInv, [AppealNext]_appealVars
    PROVE  AppealStepOK /\ Reviewed
<1>1. CASE [Next]_vars /\ UNCHANGED <<appeals, areq, astarted>>
  <2>1. TypeOK' /\ LogStep
    BY <1>1, TypeNext, ReviewLog DEF AppealInv, LogStep
  <2>2. LogGrows /\ events' \in Seq(Event)
    BY <2>1, LogStepGrows DEF AppealInv, TypeOK
  <2>3. AppealsKept /\ AppealsOpened /\ Reviewed
    BY <1>1 DEF AppealsKept, AppealsOpened, Reviewed
  <2>4. SlotsKnow'
    BY <1>1, <2>2 DEF AppealInv, SlotsKnow, SlotOK, LogGrows
  <2>5. AppealRows'
    <3>1. CASE UNCHANGED <<status, events>>
      BY <1>1, <3>1 DEF AppealInv, AppealRows
    <3>2. ASSUME NEW e \in Event, Logged(e), e.action \in CameraActions PROVE AppealRows'
      <4>1. e.action # "appeal-filed" /\ events' = Append(events, e)
        BY <3>2 DEF CameraActions, Logged
      <4> QED
        BY <1>1, <2>2, <2>3, <4>1, VerdictRows DEF AppealInv, AppealRows
    <3> QED
      BY <1>1, <3>1, <3>2, ReviewLog DEF AppealInv
  <2> QED
    BY <2>1, <2>3, <2>4, <2>5 DEF AppealStepOK, AppealInv
<1>2. ASSUME NEW s \in Slots,
             \/ \E d \in DOMAIN events, p \in Appellants : BeginFiling(s, d, p)
             \/ CheckDuplicate(s) \/ CheckLimit(s) \/ FailAppeal(s)
             \/ \E a \in DOMAIN appeals, w \in Reviewers, verdict \in Verdicts :
                  BeginVerdict(s, a, w, verdict)
      PROVE  AppealStepOK /\ Reviewed
  <2>1. appeals' = appeals
    BY <1>2, Zenon DEF BeginFiling, CheckDuplicate, CheckLimit, FailAppeal, BeginVerdict
  <2> QED
    BY <1>2, <2>1, FilingSteps DEF Reviewed
<1>3. ASSUME NEW s \in Slots, File(s) PROVE AppealStepOK /\ Reviewed
  BY <1>3, FileStep DEF Reviewed
<1>4. ASSUME NEW s \in Slots, Uphold(s) \/ DismissOrEscalate(s) PROVE AppealStepOK /\ Reviewed
  BY <1>4, UpholdStep, DismissStep
<1> QED
  BY <1>1, <1>2, <1>3, <1>4 DEF AppealNext, appealVars, vars
-----------------------------------------------------------------------------
(* The theorems.                                                           *)

LEMMA AppealInitInv == AppealInit => AppealInv
<1> SUFFICES ASSUME AppealInit PROVE AppealInv
  OBVIOUS
<1>1. TypeOK /\ events = <<>> /\ appeals = <<>> /\ astarted = 0
  BY TypeInit DEF AppealInit, Init
<1>2. SlotsKnow
  BY IdleAppealType DEF AppealInit, SlotsKnow, SlotOK
<1> QED
  BY <1>1, <1>2 DEF AppealInv, AppealRows

LEMMA AppealInvNext == AppealInv /\ [AppealNext]_appealVars => AppealInv'
BY AppealSteps DEF AppealStepOK

\* Type correctness of appeals and of the queue under them (AppealTypeOK).
THEOREM AppealTypeCorrect == AppealSpec => []AppealTypeOK
<1>1. AppealInv => AppealTypeOK
  BY DEF AppealInv, AppealRows, SlotsKnow, AppealTypeOK
<1> QED
  BY <1>1, AppealInitInv, AppealInvNext, PTL DEF AppealSpec

\* The first verdict on an appeal stands, however many deciders read it while it was
\* open: nothing touches an upheld or dismissed appeal (the guard of the UPDATE in
\* decideAppeal).
THEOREM VerdictsFinal == AppealSpec => VerdictsAreFinal
<1>1. AppealInv /\ [AppealNext]_appealVars =>
        [\A a \in DOMAIN appeals : appeals[a].status \notin Decidable => appeals'[a] = appeals[a]]_appealVars
  BY AppealSteps DEF AppealStepOK, AppealsKept
<1> QED
  BY <1>1, AppealInitInv, AppealInvNext, PTL DEF AppealSpec, VerdictsAreFinal

\* An appeal becomes "upheld" only together with the reopened record, its row in the
\* queue and the event that says so (the batch of decideAppeal).
THEOREM UpheldReviewed == AppealSpec => UpheldIsReviewed
<1>1. AppealInv /\ [AppealNext]_appealVars => [Reviewed]_appealVars
  BY AppealSteps
<1>2. AppealInv /\ [AppealNext]_appealVars =>
        [\A a \in DOMAIN appeals :
           appeals'[a].status = "upheld" /\ appeals[a].status # "upheld" =>
             /\ status'[appeals[a].rec] \in {"pending", "deleted"}
             /\ OpenRows(appeals[a].rec)' # {}
             /\ events'[Len(events')].appeal = a]_appealVars
  BY <1>1 DEF Reviewed
<1> QED
  BY <1>2, AppealInitInv, AppealInvNext, PTL DEF AppealSpec, UpheldIsReviewed

LEMMA OneOpenNext == AppealInv /\ OneOpenAppeal /\ [AppealNext]_appealVars => OneOpenAppeal'
<1> SUFFICES ASSUME AppealInv, OneOpenAppeal, [AppealNext]_appealVars,
                    NEW a \in DOMAIN appeals', NEW b \in DOMAIN appeals',
                    appeals'[a].decision = appeals'[b].decision,
                    appeals'[a].status = "pending", appeals'[b].status = "pending"
             PROVE  a = b
  BY DEF OneOpenAppeal
<1>1. AppealsKept /\ AppealsOpened
  BY AppealSteps DEF AppealStepOK
<1>2. \A i, j \in DOMAIN appeals :
        /\ appeals'[i].decision = appeals'[j].decision
        /\ appeals'[i].status = "pending" /\ appeals'[j].status = "pending"
        => i = j
  BY <1>1 DEF AppealsKept, OneOpenAppeal
<1>3. ASSUME NEW n, DOMAIN appeals' = DOMAIN appeals \cup {n}, Admitted(appeals'[n].decision)
      PROVE  \A i \in DOMAIN appeals :
               appeals'[i].status = "pending" => appeals'[i].decision # appeals'[n].decision
  <2>1. PICK d : d = appeals'[n].decision
    OBVIOUS
  <2>2. \A i \in DOMAIN appeals : appeals[i].status = "pending" => appeals[i].decision # d
    BY <1>3, <2>1 DEF Admitted, PendingAgainst
  <2> QED
    BY <1>1, <2>1, <2>2 DEF AppealsKept
<1>4. CASE DOMAIN appeals' = DOMAIN appeals
  BY <1>2, <1>4
<1>5. CASE DOMAIN appeals' # DOMAIN appeals
  <2>1. PICK n : DOMAIN appeals' = DOMAIN appeals \cup {n} /\ Admitted(appeals'[n].decision)
    BY <1>1, <1>5 DEF AppealsOpened
  <2>2. \A i \in DOMAIN appeals :
          appeals'[i].status = "pending" => appeals'[i].decision # appeals'[n].decision
    BY <1>3, <2>1
  <2>3. (a \in DOMAIN appeals \/ a = n) /\ (b \in DOMAIN appeals \/ b = n)
    BY <2>1
  <2> QED
    BY <1>2, <2>2, <2>3
<1> QED
  BY <1>4, <1>5

\* One pending appeal per decision, also when two contributors file at once (the
\* partial unique index behind fileAppeal; OneOpenAppeal).
THEOREM OneOpenAppealEver == AppealSpec => []OneOpenAppeal
<1>1. AppealInit => OneOpenAppeal
  BY DEF AppealInit, OneOpenAppeal
<1> QED
  BY <1>1, OneOpenNext, AppealInitInv, AppealInvNext, PTL DEF AppealSpec
-----------------------------------------------------------------------------
(* The sweep.                                                              *)

SweepInv ==
    /\ now \in Nat /\ holds \in Nat
    /\ born \in Seq(Nat) /\ Len(born) = Len(events)
    /\ sweep \in Sweep /\ sweep.chunk \subseteq DOMAIN events
RetentionInv == AppealInv /\ SweepInv

\* The events and the appeals are the ones there were, and perhaps one more.
Served ==
    /\ LogStep /\ LogGrows /\ AppealsKept /\ AppealsOpened /\ Reviewed
    /\ sweep' = sweep

\* The sweep has made a choice of records that nothing protects, or no choice.
Swept ==
    /\ UNCHANGED appealVars
    /\ \/ sweep'.cameras = {} /\ sweep'.seen = 0
       \/ sweep'.seen = Len(events) /\ \A rec \in sweep'.cameras : ~Excluded(rec)

LEMMA NoSweepType == NoSweep \in Sweep /\ NoSweep.chunk = {} /\ NoSweep.cameras = {} /\ NoSweep.seen = 0
BY DEF NoSweep, Sweep, SweepPCs

\* A log of the same length keeps its stamps, one more event gets one more.
LEMMA BornGrows ==
    ASSUME RetentionInv,
           \/ events' = events /\ born' = born
           \/ \E e \in Event : events' = Append(events, e) /\ born' = Append(born, now)
    PROVE  born' \in Seq(Nat) /\ Len(born') = Len(events')
<1>1. events \in Seq(Event) /\ born \in Seq(Nat) /\ now \in Nat /\ Len(born) = Len(events)
  BY DEF RetentionInv, AppealInv, TypeOK, SweepInv
<1>2. ASSUME NEW e \in Event, events' = Append(events, e), born' = Append(born, now)
      PROVE  born' \in Seq(Nat) /\ Len(born') = Len(events')
  <2>1. Len(events') = Len(events) + 1
    BY <1>1, <1>2, AppendProperties
  <2>2. born' \in Seq(Nat) /\ Len(born') = Len(born) + 1
    BY <1>1, <1>2, AppendProperties
  <2> QED
    BY <1>1, <2>1, <2>2
<1> QED
  BY <1>1, <1>2

LEMMA ServeSteps ==
    ASSUME RetentionInv, Serve
    PROVE  RetentionInv' /\ Served
<1>1. AppealStepOK /\ Reviewed
  BY AppealSteps DEF RetentionInv, Serve
<1>2. AppealInv' /\ LogStep /\ events \in Seq(Event)
  BY <1>1 DEF AppealStepOK, RetentionInv, AppealInv, TypeOK
<1>3. LogGrows
  BY <1>2, LogStepGrows
<1>4. \/ events' = events /\ born' = born
      \/ \E e \in Event : events' = Append(events, e) /\ born' = Append(born, now)
  <2>1. CASE events' = events
    BY <2>1, <1>2, LenProperties DEF Serve
  <2>2. CASE \E e \in Event : events' = Append(events, e)
    <3>1. PICK e \in Event : events' = Append(events, e)
      BY <2>2
    <3>2. Len(events') = Len(events) + 1 /\ Len(events) \in Nat
      BY <1>2, <3>1, AppendProperties, LenProperties
    <3> QED
      BY <3>1, <3>2 DEF Serve
  <2> QED
    BY <1>2, <2>1, <2>2 DEF LogStep, Logged
<1>5. born' \in Seq(Nat) /\ Len(born') = Len(events')
  BY <1>4, BornGrows
<1>6. SweepInv'
  BY <1>3, <1>5 DEF Serve, SweepInv, RetentionInv, LogGrows
<1> QED
  BY <1>1, <1>2, <1>3, <1>6 DEF RetentionInv, Served, AppealStepOK, Serve

\* An operator's event says nothing of the record's status.
LEMMA HoldSteps ==
    ASSUME RetentionInv, NEW rec \in Records, NEW action \in {"legal-hold", "legal-hold-release"},
           HoldEvent(rec, action)
    PROVE  RetentionInv' /\ Served
<1>1. PICK e : e = [rec |-> rec, from |-> status[rec], to |-> status[rec], action |-> action,
                    who |-> NoReviewer, recused |-> FALSE, appeal |-> 0]
  OBVIOUS
<1>2. /\ events' = Append(events, e) /\ born' = Append(born, now) /\ holds' = holds + 1
      /\ status[rec] # "deleted"
      /\ UNCHANGED <<status, queue, req, started, appeals, areq, astarted, now, sweep>>
  BY <1>1 DEF HoldEvent
<1>3. TypeOK /\ AppealRows /\ SlotsKnow /\ SweepInv
  BY DEF RetentionInv, AppealInv
<1>4. /\ e \in Event /\ e.rec = rec /\ e.action \notin CameraActions \cup OutcomeActions
      /\ e.action \notin {"archived", "appeal-filed", "appeal-uphold"}
  BY <1>1, <1>3 DEF Event, EventActions, CameraActions, OutcomeActions, TypeOK
<1>5. Logged(e)
  BY <1>2, <1>3, <1>4 DEF Logged, ClaimsChange, TypeOK
<1>6. LogStep /\ LogGrows /\ events' \in Seq(Event)
  BY <1>3, <1>4, <1>5, LogStepGrows DEF LogStep, TypeOK
<1>7. TypeOK' /\ AppealsKept /\ AppealsOpened /\ Reviewed
  BY <1>2, <1>3, <1>6 DEF TypeOK, AppealsKept, AppealsOpened, Reviewed
<1>8. AppealRows'
  BY <1>2, <1>3, <1>4, <1>6, <1>7, VerdictRows DEF RetentionInv, AppealRows
<1>9. SlotsKnow'
  BY <1>2, <1>3, <1>6 DEF SlotsKnow, SlotOK, LogGrows
<1>10. born' \in Seq(Nat) /\ Len(born') = Len(events')
  BY <1>2, <1>4, BornGrows
<1>11. SweepInv'
  BY <1>2, <1>3, <1>6, <1>10 DEF SweepInv, LogGrows
<1> QED
  BY <1>2, <1>6, <1>7, <1>8, <1>9, <1>11 DEF RetentionInv, AppealInv, Served

\* Nothing but the sweep moves.
LEMMA SweepMoves ==
    ASSUME RetentionInv, UNCHANGED <<appealVars, born, holds>>, now' \in Nat,
           sweep' \in Sweep, sweep'.chunk \subseteq DOMAIN events
    PROVE  RetentionInv'
BY DEF RetentionInv, AppealInv, TypeOK, AppealRows, SlotsKnow, SlotOK, SweepInv, appealVars, vars

LEMMA ChoiceSteps ==
    ASSUME RetentionInv, SelectPending \/ SelectRejected \/ SelectEvents \/ SweepFails
    PROVE  RetentionInv' /\ Swept
<1>1. now \in Nat /\ Len(events) \in Nat
  BY LenProperties DEF RetentionInv, SweepInv, AppealInv, TypeOK
<1>2. ASSUME NEW chosen \in SUBSET Records, NEW pc \in SweepPCs, NEW n \in Nat,
             sweep' = [NoSweep EXCEPT !.pc = pc, !.cameras = chosen, !.seen = n]
      PROVE  sweep' \in Sweep /\ sweep'.chunk = {} /\ sweep'.cameras = chosen /\ sweep'.seen = n
  BY <1>2 DEF NoSweep, Sweep
<1>3. CASE SelectPending
  <2>1. sweep' = [NoSweep EXCEPT !.pc = "pending", !.cameras = PendingDue, !.seen = Len(events)]
    BY <1>3 DEF SelectPending
  <2>2. PendingDue \in SUBSET Records /\ "pending" \in SweepPCs /\ \A rec \in PendingDue : ~Excluded(rec)
    BY DEF PendingDue, SweepPCs
  <2>3. sweep' \in Sweep /\ sweep'.chunk = {} /\ sweep'.cameras = PendingDue /\ sweep'.seen = Len(events)
    BY <1>1, <1>2, <2>1, <2>2
  <2> QED
    BY <1>1, <1>3, <2>2, <2>3, SweepMoves DEF SelectPending, Swept
<1>4. CASE SelectRejected
  <2>1. sweep' = [NoSweep EXCEPT !.pc = "rejected", !.cameras = RejectedDue, !.seen = Len(events)]
    BY <1>4 DEF SelectRejected
  <2>2. RejectedDue \in SUBSET Records /\ "rejected" \in SweepPCs /\ \A rec \in RejectedDue : ~Excluded(rec)
    BY DEF RejectedDue, SweepPCs
  <2>3. sweep' \in Sweep /\ sweep'.chunk = {} /\ sweep'.cameras = RejectedDue /\ sweep'.seen = Len(events)
    BY <1>1, <1>2, <2>1, <2>2
  <2> QED
    BY <1>1, <1>4, <2>2, <2>3, SweepMoves DEF SelectRejected, Swept
<1>5. CASE SelectEvents
  <2>1. PICK chunk \in SUBSET StaleEvents :
          sweep' = IF chunk = {} THEN NoSweep ELSE [NoSweep EXCEPT !.pc = "archive", !.chunk = chunk]
    BY <1>5 DEF SelectEvents
  <2>2. chunk \subseteq DOMAIN events /\ chunk \subseteq Nat
    BY DEF StaleEvents, RetentionInv, AppealInv, TypeOK
  <2>3. sweep' \in Sweep /\ sweep'.chunk = chunk /\ sweep'.cameras = {} /\ sweep'.seen = 0
    BY <2>1, <2>2 DEF NoSweep, Sweep, SweepPCs
  <2> QED
    BY <1>1, <1>5, <2>2, <2>3, SweepMoves DEF SelectEvents, Swept
<1>6. CASE SweepFails
  BY <1>1, <1>6, NoSweepType, SweepMoves DEF SweepFails, Swept
<1> QED
  BY <1>3, <1>4, <1>5, <1>6

LEMMA PurgeSteps ==
    ASSUME RetentionInv, NEW rec \in Records, Purge(rec)
    PROVE  /\ RetentionInv' /\ UNCHANGED <<events, appeals>>
           /\ sweep'.cameras \subseteq sweep.cameras /\ sweep'.seen = sweep.seen
           /\ rec \in sweep.cameras
           /\ \/ UNCHANGED <<status, queue>>
              \/ status' = [status EXCEPT ![rec] = "deleted"] /\ queue' = RowsClosed(rec)
<1>1. /\ rec \in sweep.cameras /\ sweep' = [sweep EXCEPT !.cameras = @ \ {rec}]
      /\ UNCHANGED <<events, req, started, appeals, areq, astarted, now, born, holds>>
      /\ \/ UNCHANGED <<status, queue>>
         \/ status' = [status EXCEPT ![rec] = "deleted"] /\ queue' = RowsClosed(rec)
  BY DEF Purge
<1>2. TypeOK /\ AppealRows /\ SlotsKnow /\ SweepInv
  BY DEF RetentionInv, AppealInv
<1>3. sweep' \in Sweep /\ sweep'.chunk = sweep.chunk /\ sweep'.cameras = sweep.cameras \ {rec} /\ sweep'.seen = sweep.seen
  BY <1>1, <1>2 DEF SweepInv, Sweep
<1>4. RowsClosed(rec) \in Seq(QueueRow) /\ DOMAIN RowsClosed(rec) = DOMAIN queue
  <2>1. queue \in Seq(QueueRow) /\ DOMAIN queue = 1..Len(queue) /\ Len(queue) \in Nat
    BY <1>2, LenProperties DEF TypeOK
  <2>2. \A q \in 1..Len(queue) : queue[q] \in QueueRow
    BY <2>1, ElementOfSeq
  <2>3. ASSUME NEW q \in 1..Len(queue) PROVE [queue[q] EXCEPT !.state = "closed"] \in QueueRow
    BY <2>2 DEF QueueRow, QueueStates
  <2>4. RowsClosed(rec) \in [1..Len(queue) -> QueueRow]
    BY <2>1, <2>2, <2>3 DEF RowsClosed
  <2> QED
    BY <2>1, <2>4, SeqDef
<1>5. TypeOK'
  <2>1. queue' \in Seq(QueueRow) /\ DOMAIN queue' = DOMAIN queue
    BY <1>1, <1>2, <1>4 DEF TypeOK
  <2>2. status' \in [Records -> Statuses]
    BY <1>1, <1>2 DEF TypeOK, Statuses
  <2> QED
    BY <1>1, <1>2, <2>1, <2>2 DEF TypeOK
<1>6. AppealRows' /\ SlotsKnow' /\ SweepInv'
  BY <1>1, <1>2, <1>3 DEF AppealRows, SlotsKnow, SlotOK, SweepInv
<1> QED
  BY <1>1, <1>3, <1>5, <1>6 DEF RetentionInv, AppealInv

\* What archiving does to the log: some events that no appeal contests become
\* tombstones, or nothing.
Archived ==
    /\ UNCHANGED <<status, queue, appeals>> /\ sweep'.cameras = {} /\ sweep'.seen = 0
    /\ \/ UNCHANGED events
       \/ /\ \A a \in DOMAIN appeals : appeals[a].decision \notin sweep.chunk
          /\ DOMAIN events' = DOMAIN events
          /\ \A i \in DOMAIN events :
               /\ i \notin sweep.chunk => events'[i] = events[i]
               /\ i \in sweep.chunk => events'[i].rec = events[i].rec /\ events'[i].action = "archived"

LEMMA ArchiveSteps ==
    ASSUME RetentionInv, Archive
    PROVE  RetentionInv' /\ Archived
<1>1. TypeOK /\ AppealRows /\ SlotsKnow /\ SweepInv
  BY DEF RetentionInv, AppealInv
<1>2. sweep' \in Sweep /\ sweep'.chunk = {} /\ sweep'.cameras = {} /\ sweep'.seen = 0
  BY DEF Archive, NoSweep, Sweep, SweepPCs
<1>3. UNCHANGED <<status, queue, req, started, appeals, areq, astarted, now, born, holds>>
  BY DEF Archive
<1>4. CASE UNCHANGED events
  BY <1>1, <1>2, <1>3, <1>4, SweepMoves, now' \in Nat DEF Archived, SweepInv, appealVars, vars
<1>5. CASE /\ Unreferenced(sweep.chunk)
           /\ events' = [i \in DOMAIN events |->
                           IF i \in sweep.chunk THEN Tombstone(events[i]) ELSE events[i]]
  <2>1. events \in Seq(Event) /\ DOMAIN events = 1..Len(events) /\ Len(events) \in Nat
    BY <1>1, LenProperties DEF TypeOK
  <2>2. \A i \in 1..Len(events) : events[i] \in Event
    BY <2>1, ElementOfSeq
  <2>3. ASSUME NEW e \in Event PROVE Tombstone(e) \in Event /\ Tombstone(e).rec = e.rec /\ Tombstone(e).action = "archived"
    BY DEF Event, Tombstone, Statuses, EventActions
  <2>4. events' \in [1..Len(events) -> Event]
    BY <1>5, <2>1, <2>2, <2>3
  <2>5. events' \in Seq(Event) /\ DOMAIN events' = DOMAIN events /\ Len(events') = Len(events)
    BY <2>1, <2>4, SeqDef, LenProperties
  <2>6. \A i \in DOMAIN events :
          /\ i \notin sweep.chunk => events'[i] = events[i]
          /\ i \in sweep.chunk => events'[i].rec = events[i].rec /\ events'[i].action = "archived"
    BY <1>5, <2>1, <2>2, <2>3
  <2>7. TypeOK'
    BY <1>1, <1>3, <2>5 DEF TypeOK
  <2>8. AppealRows' /\ SlotsKnow'
    BY <1>1, <1>3, <2>5, <2>6 DEF AppealRows, SlotsKnow, SlotOK
  <2>9. SweepInv'
    BY <1>1, <1>2, <1>3, <2>5 DEF SweepInv
  <2> QED
    BY <1>2, <1>3, <1>5, <2>5, <2>6, <2>7, <2>8, <2>9 DEF Archived, Unreferenced, RetentionInv, AppealInv
<1> QED
  BY <1>4, <1>5 DEF Archive

\* Every step of the specification.
LEMMA RetentionSteps ==
    ASSUME RetentionInv, [RetentionNext]_retentionVars
    PROVE  /\ RetentionInv'
           /\ Served \/ Swept \/ Archived \/ \E rec \in Records : Purge(rec)
<1>1. ASSUME UNCHANGED <<appealVars, born, holds, sweep>>, now' \in Nat
      PROVE  RetentionInv' /\ Served
  <2>1. RetentionInv'
    BY <1>1, SweepMoves DEF RetentionInv, SweepInv
  <2>2. UNCHANGED <<status, queue, events, appeals, sweep>>
    BY <1>1 DEF appealVars, vars
  <2> QED
    BY <2>1, <2>2 DEF Served, LogStep, LogGrows, AppealsKept, AppealsOpened, Reviewed
<1>2. CASE Tick \/ UNCHANGED retentionVars
  BY <1>1, <1>2 DEF Tick, retentionVars, RetentionInv, SweepInv
<1>3. CASE Serve
  BY <1>3, ServeSteps
<1>4. CASE \E rec \in Records, action \in {"legal-hold", "legal-hold-release"} : HoldEvent(rec, action)
  BY <1>4, HoldSteps
<1>5. CASE SelectPending \/ SelectRejected \/ SelectEvents \/ SweepFails
  BY <1>5, ChoiceSteps
<1>6. CASE Archive
  BY <1>6, ArchiveSteps
<1>7. CASE \E rec \in Records : Purge(rec)
  BY <1>7, PurgeSteps
<1> QED
  BY <1>2, <1>3, <1>4, <1>5, <1>6, <1>7 DEF RetentionNext, SweepStep

LEMMA RetentionInitInv == RetentionInit => RetentionInv
<1> SUFFICES ASSUME RetentionInit PROVE RetentionInv
  OBVIOUS
<1>1. AppealInv
  BY AppealInitInv DEF RetentionInit
<1>2. events = <<>>
  BY DEF RetentionInit, AppealInit, Init
<1>3. SweepInv
  BY <1>2, NoSweepType DEF RetentionInit, SweepInv
<1> QED
  BY <1>1, <1>3 DEF RetentionInv

LEMMA RetentionInvNext == RetentionInv /\ [RetentionNext]_retentionVars => RetentionInv'
BY RetentionSteps
-----------------------------------------------------------------------------
(* The theorems.                                                           *)

\* Type correctness of the sweep and of everything under it (RetentionTypeOK).
THEOREM RetentionTypeCorrect == RetentionSpec => []RetentionTypeOK
<1>1. RetentionInv => RetentionTypeOK
  BY DEF RetentionInv, SweepInv, RetentionTypeOK, AppealInv, AppealRows, SlotsKnow, AppealTypeOK
<1> QED
  BY <1>1, RetentionInitInv, RetentionInvNext, PTL DEF RetentionSpec

LEMMA ContestedNext ==
    RetentionInv /\ ContestedStays /\ [RetentionNext]_retentionVars => ContestedStays'
<1> SUFFICES ASSUME RetentionInv, ContestedStays, [RetentionNext]_retentionVars
             PROVE  ContestedStays'
  OBVIOUS
<1>1. \A a \in DOMAIN appeals :
        appeals[a].decision \in DOMAIN events /\ events[appeals[a].decision].action # "archived"
  BY DEF ContestedStays, RetentionInv, AppealInv, AppealRows
<1>2. CASE Served
  <2>1. ASSUME NEW a \in DOMAIN appeals
        PROVE  events'[appeals'[a].decision].action # "archived"
    BY <1>1, <1>2 DEF Served, LogGrows, AppealsKept
  <2>2. ASSUME NEW n, Admitted(appeals'[n].decision), appeals'[n].decision \in DOMAIN events
        PROVE  events'[appeals'[n].decision].action # "archived"
    <3>1. PICK d : d = appeals'[n].decision
      OBVIOUS
    <3> QED
      BY <1>2, <2>2, <3>1 DEF Admitted, Served, LogGrows
  <2>3. CASE DOMAIN appeals' = DOMAIN appeals
    BY <2>1, <2>3 DEF ContestedStays
  <2>4. CASE DOMAIN appeals' # DOMAIN appeals
    <3>1. PICK n : /\ DOMAIN appeals' = DOMAIN appeals \cup {n}
                   /\ Admitted(appeals'[n].decision) /\ appeals'[n].decision \in DOMAIN events
      BY <1>2, <2>4 DEF Served, AppealsOpened
    <3> QED
      BY <2>1, <2>2, <3>1 DEF ContestedStays
  <2> QED
    BY <2>3, <2>4
<1>3. CASE Swept
  BY <1>3, <1>1 DEF Swept, appealVars, vars, ContestedStays
<1>4. CASE Archived
  BY <1>4, <1>1 DEF Archived, ContestedStays
<1>5. CASE \E rec \in Records : Purge(rec)
  BY <1>5, <1>1, PurgeSteps DEF ContestedStays
<1> QED
  BY <1>2, <1>3, <1>4, <1>5, RetentionSteps

\* A contested decision never leaves the log, whether the appeal or the sweep was
\* first: the foreign key refuses the chunk, or the filing (R5 of runRetentionSweep
\* against fileAppeal).
THEOREM ContestedKept == RetentionSpec => []ContestedStays
<1>1. RetentionInit => ContestedStays
  BY DEF RetentionInit, AppealInit, ContestedStays
<1> QED
  BY <1>1, ContestedNext, RetentionInitInv, RetentionInvNext, PTL DEF RetentionSpec

\* A purged record stays purged.
LEMMA PurgedStays ==
    ASSUME RetentionInv, [RetentionNext]_retentionVars, NEW rec \in Records, status[rec] = "deleted"
    PROVE  /\ status'[rec] = "deleted"
           /\ \A i \in DOMAIN events' \ DOMAIN events :
                events'[i].rec = rec /\ events'[i].action \in CameraActions =>
                  events'[i].from = events'[i].to
<1>1. CASE Served
  <2>1. CASE UNCHANGED <<status, events>>
    BY <2>1
  <2>2. ASSUME NEW e \in Event, Logged(e)
        PROVE  /\ status'[rec] = "deleted"
               /\ \A i \in DOMAIN events' \ DOMAIN events :
                    events'[i].rec = rec /\ events'[i].action \in CameraActions =>
                      events'[i].from = events'[i].to
    <3>1. DOMAIN events' = DOMAIN events \cup {Len(events) + 1} /\ events'[Len(events) + 1] = e
      BY <2>2, AppendKeeps DEF Logged, RetentionInv, AppealInv, TypeOK
    <3> QED
      BY <2>2, <3>1 DEF Logged
  <2> QED
    BY <1>1, <2>1, <2>2 DEF Served, LogStep
<1>2. CASE Swept
  BY <1>2 DEF Swept, appealVars, vars
<1>3. CASE Archived
  BY <1>3 DEF Archived
<1>4. CASE \E r \in Records : Purge(r)
  <2>1. PICK r \in Records : Purge(r)
    BY <1>4
  <2>2. events' = events /\ (status' = status \/ status' = [status EXCEPT ![r] = "deleted"])
    BY <2>1, PurgeSteps
  <2> QED
    BY <2>2 DEF RetentionInv, AppealInv, TypeOK
<1> QED
  BY <1>1, <1>2, <1>3, <1>4, RetentionSteps

\* Whatever requests still hold of a purged record, none brings it back, and no
\* decision on it enters the log (purgeCameraRecord against the guards of
\* moderateCamera and decideAppeal).
THEOREM PurgeFinal == RetentionSpec => PurgeIsFinal
<1>1. RetentionInv /\ [RetentionNext]_retentionVars =>
        [\A rec \in Records : status[rec] = "deleted" =>
           /\ status'[rec] = "deleted"
           /\ \A i \in DOMAIN events' \ DOMAIN events :
                events'[i].rec = rec /\ events'[i].action \in CameraActions =>
                  events'[i].from = events'[i].to]_retentionVars
  BY PurgedStays
<1> QED
  BY <1>1, RetentionInitInv, RetentionInvNext, PTL DEF RetentionSpec, PurgeIsFinal

\* A record disappears in a purge, and in no other step.
LEMMA GoneByPurge ==
    ASSUME RetentionInv, [RetentionNext]_retentionVars, NEW rec \in Records, Gone(rec)
    PROVE  /\ UNCHANGED <<events, appeals>> /\ rec \in sweep.cameras
           /\ queue' = RowsClosed(rec)
<1>1. ~Served
  BY DEF Served, LogStep, Logged, Gone
<1>2. ~Swept /\ ~Archived
  BY DEF Swept, Archived, appealVars, vars, Gone
<1>3. PICK r \in Records : Purge(r)
  BY <1>1, <1>2, RetentionSteps
<1>4. status' = [status EXCEPT ![r] = "deleted"] /\ queue' = RowsClosed(r) /\ r \in sweep.cameras
      /\ UNCHANGED <<events, appeals>>
  BY <1>3, PurgeSteps DEF Gone
<1>5. r = rec
  BY <1>4 DEF Gone, RetentionInv, AppealInv, TypeOK
<1> QED
  BY <1>4, <1>5

\* No review of a purged record stays open (the batch of purgeCameraRecord).
THEOREM PurgeCloses == RetentionSpec => PurgeClosesReviews
<1>1. ASSUME RetentionInv, [RetentionNext]_retentionVars, NEW rec \in Records, Gone(rec)
      PROVE  OpenRows(rec)' = {}
  <2>1. queue' = RowsClosed(rec)
    BY <1>1, GoneByPurge
  <2>2. \A q \in DOMAIN queue : queue[q] \in QueueRow
    BY <1>1, ElementOfSeq, DOMAIN queue = 1..Len(queue) DEF RetentionInv, AppealInv, TypeOK
  <2> QED
    BY <2>1, <2>2 DEF OpenRows, RowsClosed, QueueRow
<1>2. RetentionInv /\ [RetentionNext]_retentionVars =>
        [\A rec \in Records : Gone(rec) => OpenRows(rec)' = {}]_retentionVars
  BY <1>1
<1> QED
  BY <1>2, RetentionInitInv, RetentionInvNext, PTL DEF RetentionSpec, PurgeClosesReviews

\* What the sweep is about to delete was protected by nothing when it chose it, and no
\* appeal or hold of that time has opened since.
ChosenUnprotected ==
    /\ sweep.seen <= Len(events)
    /\ \A rec \in sweep.cameras :
         /\ \A a \in DOMAIN appeals :
              appeals[a].rec = rec /\ FiledBefore(a, sweep.seen) => appeals[a].status \notin Decidable
         /\ \A h \in Of(rec, "legal-hold") :
              h <= sweep.seen => \E r \in Of(rec, "legal-hold-release") : r > h

LEMMA ChosenNext ==
    RetentionInv /\ ChosenUnprotected /\ [RetentionNext]_retentionVars => ChosenUnprotected'
<1> SUFFICES ASSUME RetentionInv, ChosenUnprotected, [RetentionNext]_retentionVars
             PROVE  ChosenUnprotected'
  OBVIOUS
<1>1. /\ events \in Seq(Event) /\ Len(events) \in Nat /\ DOMAIN events = 1..Len(events)
      /\ sweep \in Sweep /\ sweep.seen \in Nat /\ sweep.cameras \subseteq Records
  BY LenProperties DEF RetentionInv, AppealInv, TypeOK, SweepInv, Sweep
<1>2. RetentionInv'
  BY RetentionSteps
<1>3. events' \in Seq(Event) /\ Len(events') \in Nat /\ DOMAIN events' = 1..Len(events')
  BY <1>2, LenProperties DEF RetentionInv, AppealInv, TypeOK
<1>4. CASE Served
  <2>1. PICK seen, cameras : seen = sweep.seen /\ cameras = sweep.cameras
    OBVIOUS
  <2>2. sweep'.seen = seen /\ sweep'.cameras = cameras /\ seen \in Nat /\ seen <= Len(events)
    BY <1>1, <1>4, <2>1 DEF Served, ChosenUnprotected
  <2>3. Len(events) <= Len(events') /\ \A i \in 1..Len(events) : events'[i] = events[i]
    BY <1>1, <1>3, <1>4 DEF Served, LogGrows
  <2>4. ASSUME NEW a \in DOMAIN appeals', FiledBefore(a, seen)'
        PROVE  a \in DOMAIN appeals /\ FiledBefore(a, seen)
    <3>1. PICK i \in 1..seen : events'[i].action = "appeal-filed" /\ events'[i].appeal = a
      BY <2>4 DEF FiledBefore
    <3>2. i \in DOMAIN events /\ events'[i] = events[i]
      BY <1>1, <2>2, <2>3
    <3> QED
      BY <3>1, <3>2 DEF FiledBefore, RetentionInv, AppealInv, AppealRows
  <2>5. ASSUME NEW rec \in cameras, NEW a \in DOMAIN appeals', appeals'[a].rec = rec, FiledBefore(a, seen)'
        PROVE  appeals'[a].status \notin Decidable
    BY <1>4, <2>1, <2>4, <2>5 DEF ChosenUnprotected, Served, AppealsKept
  <2>6. ASSUME NEW rec \in cameras, NEW h \in Of(rec, "legal-hold")', h <= seen
        PROVE  \E r \in Of(rec, "legal-hold-release")' : r > h
    <3>1. h \in Of(rec, "legal-hold")
      BY <1>1, <1>3, <2>2, <2>3, <2>6 DEF Of
    <3>2. PICK r \in Of(rec, "legal-hold-release") : r > h
      BY <2>1, <2>6, <3>1 DEF ChosenUnprotected
    <3>3. r \in Of(rec, "legal-hold-release")'
      BY <1>1, <1>3, <2>3, <3>2 DEF Of
    <3> QED
      BY <3>2, <3>3
  <2> QED
    BY <1>1, <1>3, <2>2, <2>3, <2>5, <2>6 DEF ChosenUnprotected
<1>5. CASE Swept
  <2>1. UNCHANGED <<events, appeals>>
    BY <1>5 DEF Swept, appealVars, vars
  <2>2. CASE sweep'.cameras = {} /\ sweep'.seen = 0
    BY <1>1, <1>3, <2>1, <2>2 DEF ChosenUnprotected
  <2>3. CASE sweep'.seen = Len(events) /\ \A rec \in sweep'.cameras : ~Excluded(rec)
    <3>1. ASSUME NEW rec \in sweep'.cameras
          PROVE  /\ \A a \in DOMAIN appeals : appeals[a].rec = rec => appeals[a].status \notin Decidable
                 /\ \A h \in Of(rec, "legal-hold") : \E r \in Of(rec, "legal-hold-release") : r > h
      <4>1. ~UnderAppeal(rec) /\ ~OnHold(rec)
        BY <2>3, <3>1 DEF Excluded
      <4>2. ASSUME NEW h \in Of(rec, "legal-hold")
            PROVE  \E r \in Of(rec, "legal-hold-release") : r > h
        <5>1. PICK r \in Of(rec, "legal-hold-release") : ~(r < h)
          BY <4>1, <4>2 DEF OnHold
        <5>2. r # h /\ r \in Nat /\ h \in Nat
          BY <1>1, <5>1 DEF Of
        <5> QED
          BY <5>1, <5>2
      <4> QED
        BY <4>1, <4>2 DEF UnderAppeal
    <3> QED
      BY <1>1, <2>1, <2>3, <3>1 DEF ChosenUnprotected, Of
  <2> QED
    BY <1>5, <2>2, <2>3 DEF Swept
<1>6. CASE Archived
  <2>1. sweep'.cameras = {} /\ sweep'.seen <= Len(events')
    BY <1>3, <1>6 DEF Archived
  <2> QED
    BY <2>1 DEF ChosenUnprotected
<1>7. CASE \E rec \in Records : Purge(rec)
  <2>1. /\ UNCHANGED <<events, appeals>>
        /\ sweep'.cameras \subseteq sweep.cameras /\ sweep'.seen = sweep.seen
    BY <1>7, PurgeSteps
  <2> QED
    BY <2>1 DEF ChosenUnprotected, FiledBefore, Of
<1> QED
  BY <1>4, <1>5, <1>6, <1>7, RetentionSteps

\* No record that was under appeal or on hold when the sweep chose what to delete, and
\* still is, is deleted (the exclusions of R1 and R2 in runRetentionSweep).
THEOREM SweepSpares == RetentionSpec => ProtectedBeforeSweep
<1>1. RetentionInit => ChosenUnprotected
  BY NoSweepType DEF RetentionInit, AppealInit, Init, ChosenUnprotected
<1>2. RetentionInv /\ ChosenUnprotected /\ [RetentionNext]_retentionVars =>
        [\A rec \in Records : Gone(rec) =>
           /\ \A a \in DOMAIN appeals :
                appeals[a].rec = rec /\ FiledBefore(a, sweep.seen) => appeals[a].status \notin Decidable
           /\ \A h \in Of(rec, "legal-hold") :
                h <= sweep.seen => \E r \in Of(rec, "legal-hold-release") : r > h]_retentionVars
  BY GoneByPurge DEF ChosenUnprotected
<1> QED
  BY <1>1, <1>2, ChosenNext, RetentionInitInv, RetentionInvNext, PTL DEF RetentionSpec, ProtectedBeforeSweep

LEMMA TrailOfTheRestNext ==
    RetentionInv /\ TrailOfTheRest /\ [RetentionNext]_retentionVars => TrailOfTheRest'
<1> SUFFICES ASSUME RetentionInv, TrailOfTheRest, [RetentionNext]_retentionVars,
                    NEW rec \in Records, NEW i \in Claims(rec)', status'[rec] # "deleted",
                    \A j \in (Claims(rec) \cup Of(rec, "archived"))' : j <= i
             PROVE  status'[rec] = events'[i].to
  BY DEF TrailOfTheRest
<1>1. events \in Seq(Event) /\ Len(events) \in Nat /\ DOMAIN events = 1..Len(events)
  BY LenProperties DEF RetentionInv, AppealInv, TypeOK
<1>2. status[rec] # "deleted"
  BY PurgedStays
<1>3. i \in DOMAIN events' /\ events'[i].rec = rec /\ ClaimsChange(events'[i])
  BY DEF Claims, ClaimsChange
<1>4. ASSUME i \in DOMAIN events, events'[i] = events[i], status'[rec] = status[rec],
             \A j \in DOMAIN events :
               /\ j \in DOMAIN events'
               /\ \/ events'[j] = events[j]
                  \/ events'[j].rec = events[j].rec /\ events'[j].action = "archived"
      PROVE  status'[rec] = events'[i].to
  <2>1. i \in Claims(rec)
    BY <1>3, <1>4 DEF Claims, ClaimsChange
  <2>2. ASSUME NEW j \in Claims(rec) \cup Of(rec, "archived") PROVE j <= i
    <3>1. j \in DOMAIN events /\ events[j].rec = rec
      BY DEF Claims, Of
    <3>2. CASE events'[j] = events[j]
      BY <1>4, <3>1, <3>2 DEF Claims, Of
    <3>3. CASE events'[j].rec = events[j].rec /\ events'[j].action = "archived"
      BY <1>4, <3>1, <3>3 DEF Of
    <3> QED
      BY <1>4, <3>1, <3>2, <3>3
  <2> QED
    BY <1>2, <1>4, <2>1, <2>2 DEF TrailOfTheRest
<1>5. CASE Served
  <2>1. \A j \in DOMAIN events : j \in DOMAIN events' /\ events'[j] = events[j]
    BY <1>5 DEF Served, LogGrows
  <2>2. CASE UNCHANGED <<status, events>>
    BY <1>3, <1>4, <2>1, <2>2
  <2>3. ASSUME NEW e \in Event, Logged(e) PROVE status'[rec] = events'[i].to
    <3>1. /\ DOMAIN events' = DOMAIN events \cup {Len(events) + 1} /\ events'[Len(events) + 1] = e
          /\ \A j \in DOMAIN events : j < Len(events) + 1
      BY <1>1, <2>3, AppendKeeps DEF Logged
    <3>2. CASE e.rec = rec /\ ClaimsChange(e)
      <4>1. Len(events) + 1 \in Claims(rec)'
        BY <3>1, <3>2 DEF Claims, ClaimsChange
      <4>2. i = Len(events) + 1
        BY <1>1, <1>3, <3>1, <4>1
      <4> QED
        BY <1>2, <2>3, <3>1, <3>2, <4>2 DEF Logged
    <3>3. CASE ~(e.rec = rec /\ ClaimsChange(e))
      <4>1. status'[rec] = status[rec]
        BY <1>2, <2>3, <3>3 DEF Logged
      <4>2. i \in DOMAIN events
        BY <1>3, <3>1, <3>3
      <4> QED
        BY <1>4, <2>1, <4>1, <4>2
    <3> QED
      BY <3>2, <3>3
  <2> QED
    BY <1>5, <2>2, <2>3 DEF Served, LogStep
<1>6. CASE Swept
  BY <1>3, <1>4, <1>6 DEF Swept, appealVars, vars
<1>7. CASE Archived
  <2>1. CASE UNCHANGED events
    BY <1>3, <1>4, <1>7, <2>1 DEF Archived
  <2>2. CASE /\ DOMAIN events' = DOMAIN events
             /\ \A j \in DOMAIN events :
                  /\ j \notin sweep.chunk => events'[j] = events[j]
                  /\ j \in sweep.chunk => events'[j].rec = events[j].rec /\ events'[j].action = "archived"
    <3>1. i \notin sweep.chunk
      BY <1>3, <2>2 DEF ClaimsChange, CameraActions, OutcomeActions
    <3> QED
      BY <1>3, <1>4, <1>7, <2>2, <3>1 DEF Archived
  <2> QED
    BY <1>7, <2>1, <2>2 DEF Archived
<1>8. CASE \E r \in Records : Purge(r)
  <2>1. PICK r \in Records : Purge(r)
    BY <1>8
  <2>2. events' = events /\ (status' = status \/ status' = [status EXCEPT ![r] = "deleted"])
    BY <2>1, PurgeSteps
  <2>3. status'[rec] = status[rec]
    BY <2>2 DEF RetentionInv, AppealInv, TypeOK
  <2> QED
    BY <1>3, <1>4, <2>2, <2>3
<1> QED
  BY <1>5, <1>6, <1>7, <1>8, RetentionSteps

\* What is left of the log agrees with what is left of the records: decisions, appeals,
\* holds, purges and archiving never make the last claim on file disagree with the
\* record, unless what came later has been archived (TrailOfTheRest).
THEOREM TrailOfTheRestEver == RetentionSpec => []TrailOfTheRest
<1>1. RetentionInit => TrailOfTheRest
  BY DEF RetentionInit, AppealInit, Init, TrailOfTheRest, Claims
<1> QED
  BY <1>1, TrailOfTheRestNext, RetentionInitInv, RetentionInvNext, PTL DEF RetentionSpec

\* The appeals keep what they promise while the sweep runs.
LEMMA AppealsNextToSweep ==
    ASSUME RetentionInv, [RetentionNext]_retentionVars
    PROVE  /\ \A a \in DOMAIN appeals : appeals[a].status \notin Decidable => appeals'[a] = appeals[a]
           /\ Reviewed
<1>1. CASE Served
  BY <1>1 DEF Served, AppealsKept
<1>2. CASE appeals' = appeals
  BY <1>2 DEF Reviewed
<1> QED
  BY <1>1, <1>2, PurgeSteps, RetentionSteps DEF Swept, Archived, appealVars

\* The first verdict on an appeal stands, also next to the sweep (VerdictsAreFinal).
THEOREM VerdictsFinalInRetention == RetentionSpec => VerdictsAreFinal
<1>1. RetentionInv /\ [RetentionNext]_retentionVars =>
        [\A a \in DOMAIN appeals : appeals[a].status \notin Decidable => appeals'[a] = appeals[a]]_appealVars
  BY AppealsNextToSweep
<1> QED
  BY <1>1, RetentionInitInv, RetentionInvNext, PTL DEF RetentionSpec, VerdictsAreFinal

\* An upheld appeal has sent its record back, unless the sweep had deleted it, with a
\* row in the queue and an event that says so (UpheldIsReviewed).
THEOREM UpheldReviewedInRetention == RetentionSpec => UpheldIsReviewed
<1>1. RetentionInv /\ [RetentionNext]_retentionVars =>
        [\A a \in DOMAIN appeals :
           appeals'[a].status = "upheld" /\ appeals[a].status # "upheld" =>
             /\ status'[appeals[a].rec] \in {"pending", "deleted"}
             /\ OpenRows(appeals[a].rec)' # {}
             /\ events'[Len(events')].appeal = a]_appealVars
  BY AppealsNextToSweep DEF Reviewed
<1> QED
  BY <1>1, RetentionInitInv, RetentionInvNext, PTL DEF RetentionSpec, UpheldIsReviewed
=============================================================================
